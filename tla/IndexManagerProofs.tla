------------------------- MODULE IndexManagerProofs -------------------------
(***************************************************************************)
(* Proofs about IndexManager: its types; that the manager is never left    *)
(* in progress with nothing left to finish it; that overlapping workflows  *)
(* leave no record older than an indexed dump; and that the full dump is   *)
(* in Solr before any dump counts as completed.                            *)
(***************************************************************************)
EXTENDS IndexManager, TLAPS, WellFoundedInduction

\* next_dump returns a dump, beside the last_dump_completed the object then holds.
LEMMA NextDumpType ==
    ASSUME TypeOK, NEW last \in DumpRef, NEW n \in NextDump(last)
    PROVE  n[1] \in Dump /\ n[2] \in DumpRef
<1>1. created \subseteq Dump
  BY DEF TypeOK
<1>2. PreviousToFullIncremental(last) \subseteq Dump
  BY <1>1 DEF PreviousToFullIncremental, Latest, Incrementals
<1>3. NextIncremental(last) \subseteq Dump \X Dump
  BY DEF NextIncremental
<1>4. RecentFullDump \subseteq Dump /\ FirstIncremental \subseteq Dump
  BY <1>1 DEF RecentFullDump, FirstIncremental, Latest, Earliest, Incrementals
<1>5. NextDump(last) \subseteq Dump \X DumpRef
  BY <1>2, <1>3, <1>4 DEF NextDump, DumpRef
<1> QED
  BY <1>5

\* The object loaded from the row holds the next dump.
LEMMA LoadedType ==
    ASSUME TypeOK, NEW base \in Row, NEW last \in DumpRef, NEW n \in NextDump(last)
    PROVE  Loaded(base, n) \in Object /\ Loaded(base, n).next \in Dump
           /\ Loaded(base, n).base = base
  BY NextDumpType DEF Loaded, Object, DumpRef

\* save keeps the row a row.
LEMMA SaveType ==
    ASSUME TypeOK, NEW base \in Row, NEW obj \in Row
    PROVE  Save(base, obj) \in Row
  BY DEF TypeOK, Save, Row

LEMMA NullTypes == EmptyRow \in Row /\ NoObject \in Object /\ FreeBatch \in Batch
                   /\ OverallBatch \in Batch
  BY DEF EmptyRow, NoObject, FreeBatch, OverallBatch, Row, Object, Batch, DumpRef

LEMMA NewBidFree == Free # {} => NewBid \in Bid /\ batch[NewBid].kind = "free"
  BY DEF Free, NewBid, Open

LEMMA DumpBatchType ==
    ASSUME TypeOK, NEW d \in Dump, NEW p \in Bid \cup {NoBid}
    PROVE  /\ DumpBatch(d, p) \in Batch
           /\ DumpBatch(d, p).kind = "dump" /\ DumpBatch(d, p).step = "queued"
           /\ DumpBatch(d, p).parent = p /\ DumpBatch(d, p).dump = d
  BY NullTypes DEF DumpBatch, FreeBatch, Batch, TypeOK, DumpRef

---------------------------------------------------------------------------
(* Replacing one batch of a well-formed pool. *)

LEMMA ReplaceBatch ==
    ASSUME NEW bs \in [Bid -> Batch], WellFormed(bs), NEW b \in Bid, NEW x \in Batch,
           BatchOK(x),
           x.kind = "dump" /\ x.parent # NoBid => x.parent # b /\ Waits(bs[x.parent]),
           Waits(x) \/ \A c \in Bid : ~(bs[c].kind = "dump" /\ bs[c].parent = b)
    PROVE  WellFormed([bs EXCEPT ![b] = x]) /\ [bs EXCEPT ![b] = x] \in [Bid -> Batch]
<1> DEFINE new == [bs EXCEPT ![b] = x]
<1>1. new \in [Bid -> Batch]
  OBVIOUS
<1>2. ASSUME NEW c \in Bid
      PROVE  /\ BatchOK(new[c])
             /\ new[c].kind = "dump" /\ new[c].parent # NoBid => Waits(new[new[c].parent])
  <2>1. CASE c = b
    BY <2>1, BidAssumption DEF Batch
  <2>2. CASE c # b
    <3>1. new[c] = bs[c]
      BY <2>2
    <3>2. BatchOK(bs[c])
      BY DEF WellFormed
    <3>3. ASSUME bs[c].kind = "dump", bs[c].parent # NoBid
          PROVE  Waits(new[bs[c].parent])
      <4>1. bs[c].parent \in Bid /\ Waits(bs[bs[c].parent])
        BY <3>3 DEF WellFormed, Batch
      <4>2. bs[c].parent = b => Waits(x)
        BY <3>3
      <4> QED
        BY <4>1, <4>2
    <3> QED
      BY <3>1, <3>2, <3>3
  <2> QED
    BY <2>1, <2>2
<1> QED
  BY <1>1, <1>2 DEF WellFormed

---------------------------------------------------------------------------
(* Each action preserves the inductive invariant.  First the dumps and the *)
(* callers, which leave the open batches alone.                            *)

\* A step that leaves the row and the batches alone, and no caller at its push.
LEMMA SameClaims ==
    ASSUME ClaimsHeld, row' = row, batch' = batch, AboutToPush => AboutToPush'
    PROVE  ClaimsHeld'
  BY DEF ClaimsHeld, ClearsInProgress, ClearsDump

LEMMA DumpStepKeeps ==
    ASSUME IInv, NEW d \in Dump, DumpStep(d)
    PROVE  IInv'
<1> USE DEF IInv
<1>1. row' = row /\ batch' = batch /\ caller' = caller
  BY DEF DumpStep, CreateDump, AttachDumpFile
<1>2. created' \subseteq Dump /\ attached' \in [Dump -> SUBSET Record]
  BY DumpAssumption DEF DumpStep, CreateDump, AttachDumpFile, TypeOK
<1>3. TypeOK'
  BY <1>1, <1>2 DEF TypeOK, DumpStep, CreateDump, AttachDumpFile
<1>4. BatchesOK' /\ CallersOK'
  BY <1>1 DEF BatchesOK, WellFormed, CallersOK
<1>5. ClaimsHeld'
  BY <1>1, SameClaims DEF AboutToPush
<1> QED
  BY <1>3, <1>4, <1>5

LEMMA CheckRemainingKeeps ==
    ASSUME IInv, NEW c \in Caller, CheckRemaining(c)
    PROVE  IInv'
<1> USE DEF IInv
<1>1. PICK n \in NextDump(row.last) :
          caller' = [caller EXCEPT ![c] = [pc |-> "enqueue", obj |-> Loaded(row, n)]]
  BY DEF CheckRemaining
<1>2. Loaded(row, n) \in Object
  BY LoadedType DEF TypeOK, Row
<1>3. TypeOK' /\ CallersOK' /\ BatchesOK'
  BY <1>1, <1>2 DEF CheckRemaining, TypeOK, CallersOK, BatchesOK, WellFormed
<1>4. ClaimsHeld'
  BY <1>1, SameClaims DEF CheckRemaining, AboutToPush, TypeOK
<1> QED
  BY <1>3, <1>4

LEMMA CheckReindexKeeps ==
    ASSUME IInv, NEW c \in Caller, CheckReindex(c)
    PROVE  IInv'
<1> USE DEF IInv
<1>1. [NoObject EXCEPT !.base = row] \in Object
  BY DEF NoObject, Object, TypeOK, DumpRef
<1>2. TypeOK' /\ CallersOK' /\ BatchesOK'
  BY <1>1 DEF CheckReindex, TypeOK, CallersOK, BatchesOK, WellFormed
<1>3. ClaimsHeld'
  BY SameClaims DEF CheckReindex, AboutToPush, TypeOK
<1> QED
  BY <1>2, <1>3

LEMMA ResetLastDumpKeeps ==
    ASSUME IInv, NEW c \in Caller, ResetLastDump(c)
    PROVE  IInv'
<1> USE DEF IInv
<1> DEFINE base == caller[c].obj.base
           nil == [base EXCEPT !.last = NoDump]
<1>1. base \in Row /\ nil \in Row /\ nil.inp = base.inp /\ nil.dip = base.dip
  BY DEF TypeOK, Object, Row, DumpRef
<1>2. row' = Save(base, nil)
  BY DEF ResetLastDump
<1>3. row' \in Row /\ row'.inp = row.inp /\ row'.dip = row.dip
  BY <1>1, <1>2, SaveType DEF Save
<1>4. [NoObject EXCEPT !.base = nil] \in Object
  BY <1>1 DEF NoObject, Object, DumpRef
<1> HIDE DEF nil
<1>5. TypeOK' /\ CallersOK' /\ BatchesOK'
  BY <1>3, <1>4 DEF ResetLastDump, TypeOK, CallersOK, BatchesOK, WellFormed, nil
<1>6. ClaimsHeld'
  BY <1>3 DEF ResetLastDump, ClaimsHeld, ClearsInProgress, ClearsDump, AboutToPush, TypeOK
<1> QED
  BY <1>5, <1>6

LEMMA WipeKeeps ==
    ASSUME IInv, NEW c \in Caller, Wipe(c)
    PROVE  IInv'
<1> USE DEF IInv
<1>1. PICK st \in {"idle", "enqueue"}, obj \in Object :
          caller' = [caller EXCEPT ![c] = [pc |-> st, obj |-> obj]]
  <2>1. CASE NextDump(NoDump) = {} /\ caller' = [caller EXCEPT ![c] = [pc |-> "idle", obj |-> NoObject]]
    BY <2>1, NullTypes
  <2>2. ASSUME NEW n \in NextDump(NoDump),
               caller' = [caller EXCEPT ![c] = [pc |-> "enqueue",
                                                obj |-> Loaded(caller[c].obj.base, n)]]
        PROVE  \E obj \in Object : caller' = [caller EXCEPT ![c] = [pc |-> "enqueue", obj |-> obj]]
    <3>1. Loaded(caller[c].obj.base, n) \in Object
      BY LoadedType DEF TypeOK, Object, DumpRef
    <3> QED
      BY <2>2, <3>1
  <2> QED
    BY <2>1, <2>2 DEF Wipe
<1>2. TypeOK' /\ CallersOK' /\ BatchesOK'
  BY <1>1 DEF Wipe, TypeOK, CallersOK, BatchesOK, WellFormed
<1>3. ClaimsHeld'
  BY <1>1, SameClaims DEF Wipe, AboutToPush, TypeOK
<1> QED
  BY <1>2, <1>3

LEMMA FindNextKeeps ==
    ASSUME IInv, NEW c \in Caller, FindNext(c)
    PROVE  IInv'
<1> USE DEF IInv
<1>1. PICK n \in NextDump(row.last) :
          caller' = [caller EXCEPT ![c] = [pc |-> "save", obj |-> Loaded(row, n)]]
  BY DEF FindNext
<1>2. Loaded(row, n) \in Object /\ Loaded(row, n).next \in Dump
  BY LoadedType DEF TypeOK, Row
<1>3. TypeOK' /\ CallersOK' /\ BatchesOK'
  BY <1>1, <1>2 DEF FindNext, TypeOK, CallersOK, BatchesOK, WellFormed
<1>4. ClaimsHeld'
  BY <1>1, SameClaims DEF FindNext, AboutToPush, TypeOK
<1> QED
  BY <1>3, <1>4

\* The row index_next_dump! saves is a row.
LEMMA SavedNextType ==
    ASSUME TypeOK, NEW obj \in Object
    PROVE  SavedNext(obj) \in Row
  BY DEF SavedNext, Save, Object, Row, TypeOK

LEMMA CallerSaveNextKeeps ==
    ASSUME IInv, NEW c \in Caller, CallerSaveNext(c)
    PROVE  IInv'
<1> USE DEF IInv
<1>1. row' \in Row
  BY SavedNextType DEF CallerSaveNext, TypeOK
<1>2. TypeOK' /\ CallersOK' /\ BatchesOK'
  BY <1>1 DEF CallerSaveNext, TypeOK, CallersOK, BatchesOK, WellFormed
<1>3. AboutToPush'
  BY DEF CallerSaveNext, AboutToPush, TypeOK
<1> QED
  BY <1>2, <1>3 DEF ClaimsHeld

---------------------------------------------------------------------------
(* The steps that open a batch. *)

\* Steps that leave the row alone keep the claims held if each batch that was going to
\* take one back still is, and the caller about to push has pushed.
LEMMA SameRowClaims ==
    ASSUME ClaimsHeld, row' = row,
           \A b \in Bid : ClearsInProgress(b) => ClearsInProgress(b)',
           \A b \in Bid : ClearsDump(b) => ClearsDump(b)',
           AboutToPush => AboutToPush' \/ \E b \in Bid : ClearsInProgress(b)' /\ ClearsDump(b)'
    PROVE  ClaimsHeld'
  BY DEF ClaimsHeld

LEMMA EnqueueRemainingKeeps ==
    ASSUME IInv, NEW c \in Caller, EnqueueRemaining(c)
    PROVE  IInv'
<1> USE DEF IInv
<1> DEFINE base == caller[c].obj.base
           obj == [base EXCEPT !.last = caller[c].obj.last]
<1>1. base \in Row /\ obj \in Row /\ obj.inp = base.inp /\ obj.dip = base.dip
  BY DEF TypeOK, Object, Row
<1>2. row' = Save(base, obj)
  BY DEF EnqueueRemaining
<1>3. row' \in Row /\ row'.inp = row.inp /\ row'.dip = row.dip
  BY <1>1, <1>2, SaveType DEF Save
<1>4. NewBid \in Bid /\ batch[NewBid].kind = "free" /\ batch' = [batch EXCEPT ![NewBid] = OverallBatch]
  BY NewBidFree DEF EnqueueRemaining
<1>5. BatchOK(OverallBatch) /\ Waits(OverallBatch) /\ OverallBatch \in Batch
      /\ OverallBatch.kind = "overall" /\ OverallBatch.step = "queued"
  BY NullTypes DEF BatchOK, Waits, OverallBatch, FreeBatch
<1>6. BatchesOK' /\ batch' \in [Bid -> Batch]
  BY <1>4, <1>5, ReplaceBatch DEF BatchesOK, TypeOK
<1>7. TypeOK' /\ CallersOK'
  BY <1>3, <1>6, NullTypes DEF EnqueueRemaining, TypeOK, CallersOK
<1>8. ClaimsHeld'
  BY <1>3, <1>4, <1>5 DEF EnqueueRemaining, ClaimsHeld, ClearsInProgress, ClearsDump, AboutToPush, TypeOK
<1> QED
  BY <1>6, <1>7, <1>8

LEMMA CallerPushNextKeeps ==
    ASSUME IInv, NEW c \in Caller, CallerPushNext(c)
    PROVE  IInv'
<1> USE DEF IInv
<1> DEFINE new == DumpBatch(caller[c].obj.next, NoBid)
<1>1. caller[c].obj.next \in Dump
  BY DEF CallerPushNext, CallersOK
<1>2. new \in Batch /\ new.kind = "dump" /\ new.step = "queued" /\ new.parent = NoBid
      /\ new.dump \in Dump
  BY <1>1, DumpBatchType
<1>3. BatchOK(new)
  BY <1>2 DEF BatchOK
<1>4. PICK n \in Bid : batch[n].kind = "free" /\ batch' = [batch EXCEPT ![n] = new]
  BY NewBidFree DEF CallerPushNext
<1> HIDE DEF new
<1>5. \A d \in Bid : ~(batch[d].kind = "dump" /\ batch[d].parent = n)
  BY <1>4, BidAssumption DEF BatchesOK, WellFormed, Waits
<1>6. BatchesOK' /\ batch' \in [Bid -> Batch]
  BY <1>2, <1>3, <1>4, <1>5, ReplaceBatch DEF BatchesOK, TypeOK
<1>7. TypeOK' /\ CallersOK'
  BY <1>6, NullTypes DEF CallerPushNext, TypeOK, CallersOK
<1>8. ClearsInProgress(n)' /\ ClearsDump(n)'
  <2>1. batch'[n] = new
    BY <1>4 DEF TypeOK
  <2> QED
    BY <2>1, <1>2, <1>4 DEF ClearsInProgress, ClearsDump
<1> QED
  BY <1>4, <1>6, <1>7, <1>8 DEF ClaimsHeld, CallerPushNext

LEMMA JobPushNextKeeps ==
    ASSUME IInv, NEW b \in Bid, JobPushNext(b)
    PROVE  IInv'
<1> USE DEF IInv
<1> DEFINE overall == IF batch[b].kind = "overall" THEN b ELSE batch[b].parent
           new == DumpBatch(batch[b].obj.next, overall)
           old == [batch[b] EXCEPT !.step = "ack", !.obj = NoObject]
           mid == [batch EXCEPT ![b] = old]
<1>1. batch[b].step = "push" /\ BatchOK(batch[b]) /\ batch[b] \in Batch
  BY DEF JobPushNext, BatchesOK, WellFormed, TypeOK
<1>2. overall \in Bid /\ Waits(batch[overall])
  <2>1. batch[b].kind # "free"
    BY <1>1 DEF BatchOK, FreeBatch
  <2>2. CASE batch[b].kind = "overall"
    BY <2>2, <1>1 DEF Waits
  <2>3. CASE batch[b].kind = "dump"
    BY <2>3, <1>1, BidAssumption DEF BatchesOK, WellFormed, BatchOK, Batch
  <2> QED
    BY <2>1, <2>2, <2>3, <1>1 DEF Batch
<1>3. new \in Batch /\ new.kind = "dump" /\ new.step = "queued" /\ new.parent = overall
      /\ new.dump \in Dump
  BY <1>1, <1>2, DumpBatchType DEF BatchOK
<1>4. BatchOK(new)
  BY <1>2, <1>3, BidAssumption DEF BatchOK
<1>5. PICK n \in Bid : /\ batch[n].kind = "free"
                       /\ batch' = [batch EXCEPT ![b].step = "ack", ![b].obj = NoObject, ![n] = new]
  BY NewBidFree DEF JobPushNext
<1>6. batch' = [mid EXCEPT ![n] = new]
  BY <1>5 DEF TypeOK
<1>7. old \in Batch /\ old.kind = batch[b].kind /\ old.parent = batch[b].parent /\ old.step = "ack"
      /\ old.pending = batch[b].pending /\ old.dump = batch[b].dump
  BY <1>1, NullTypes DEF Batch
<1>8. BatchOK(old) /\ (Waits(batch[b]) => Waits(old))
  BY <1>1, <1>7 DEF BatchOK, Waits, FreeBatch
<1> HIDE DEF new, old, overall
<1>9. b # n
  BY <1>1, <1>5 DEF BatchOK, FreeBatch
<1>10. WellFormed(mid) /\ mid \in [Bid -> Batch]
  <2>1. old.kind = "dump" /\ old.parent # NoBid => old.parent # b /\ Waits(batch[old.parent])
    <3>1. SUFFICES ASSUME old.kind = "dump", old.parent # NoBid
                   PROVE  old.parent # b /\ Waits(batch[old.parent])
      OBVIOUS
    <3>2. Waits(batch[batch[b].parent])
      BY <3>1, <1>7 DEF BatchesOK, WellFormed
    <3> QED
      BY <3>1, <3>2, <1>7 DEF Waits
  <2>2. Waits(old) \/ \A c \in Bid : ~(batch[c].kind = "dump" /\ batch[c].parent = b)
    BY <1>8, BidAssumption DEF BatchesOK, WellFormed
  <2> QED
    BY <2>1, <2>2, <1>7, <1>8, ReplaceBatch DEF BatchesOK, TypeOK
<1>11. Waits(mid[overall]) /\ overall # n
  BY <1>2, <1>5, <1>8, <1>9 DEF Waits, TypeOK
<1>12. mid[n].kind = "free"
  BY <1>5, <1>9 DEF TypeOK
<1> HIDE DEF mid
<1>13. \A c \in Bid : ~(mid[c].kind = "dump" /\ mid[c].parent = n)
  BY <1>10, <1>12, BidAssumption DEF WellFormed, Waits
<1>14. WellFormed([mid EXCEPT ![n] = new]) /\ [mid EXCEPT ![n] = new] \in [Bid -> Batch]
  BY <1>3, <1>4, <1>10, <1>11, <1>13, ReplaceBatch
<1>15. BatchesOK' /\ batch' \in [Bid -> Batch]
  BY <1>6, <1>14 DEF BatchesOK
<1>16. TypeOK' /\ CallersOK'
  BY <1>15 DEF JobPushNext, TypeOK, CallersOK
<1>17. \A c \in Bid : c # b /\ c # n => batch'[c] = batch[c]
  BY <1>6 DEF mid, TypeOK
<1>18. batch'[b] = old
  BY <1>6, <1>9 DEF mid, TypeOK
<1>19. ClaimsHeld'
  <2>1. row' = row /\ caller' = caller
    BY DEF JobPushNext
  <2>2. ASSUME NEW c \in Bid, ClearsInProgress(c)
        PROVE  ClearsInProgress(c)'
    BY <2>2, <1>1, <1>5, <1>7, <1>17, <1>18 DEF ClearsInProgress, BatchOK
  <2>3. ASSUME NEW c \in Bid, ClearsDump(c)
        PROVE  ClearsDump(c)'
    BY <2>3, <1>1, <1>5, <1>7, <1>17, <1>18 DEF ClearsDump, BatchOK
  <2> QED
    BY <2>1, <2>2, <2>3, SameRowClaims DEF AboutToPush
<1> QED
  BY <1>15, <1>16, <1>19

---------------------------------------------------------------------------
(* The steps that change one open batch. *)

LEMMA OneBatch ==
    ASSUME IInv, NEW b \in Bid, NEW x \in Batch, BatchOK(x),
           batch' = [batch EXCEPT ![b] = x],
           x.kind = "dump" => batch[b].kind = "dump" /\ x.parent = batch[b].parent,
           Waits(x) \/ \A c \in Bid : ~(batch[c].kind = "dump" /\ batch[c].parent = b)
    PROVE  /\ BatchesOK' /\ batch' \in [Bid -> Batch]
           /\ batch'[b] = x /\ \A c \in Bid : c # b => batch'[c] = batch[c]
<1>1. batch \in [Bid -> Batch] /\ WellFormed(batch)
  BY DEF IInv, TypeOK, BatchesOK
<1>2. x.kind = "dump" /\ x.parent # NoBid => x.parent # b /\ Waits(batch[x.parent])
  <2>1. SUFFICES ASSUME x.kind = "dump", x.parent # NoBid
                 PROVE  x.parent # b /\ Waits(batch[x.parent])
    OBVIOUS
  <2>2. Waits(batch[batch[b].parent])
    BY <2>1, <1>1 DEF WellFormed
  <2> QED
    BY <2>1, <2>2 DEF Waits
<1>3. WellFormed(batch') /\ batch' \in [Bid -> Batch]
  BY <1>1, <1>2, ReplaceBatch
<1> QED
  BY <1>1, <1>3 DEF BatchesOK

\* Only an overall batch that waits has children.
LEMMA NoChildren ==
    ASSUME IInv, NEW b \in Bid, ~Waits(batch[b])
    PROVE  \A c \in Bid : ~(batch[c].kind = "dump" /\ batch[c].parent = b)
  BY BidAssumption DEF IInv, BatchesOK, WellFormed

LEMMA FreeBatchOK == FreeBatch \in Batch /\ BatchOK(FreeBatch) /\ FreeBatch.kind = "free"
  BY NullTypes DEF BatchOK, FreeBatch

LEMMA JobSaveNextKeeps ==
    ASSUME IInv, NEW b \in Bid, JobSaveNext(b)
    PROVE  IInv'
<1> USE DEF IInv
<1> DEFINE x == [batch[b] EXCEPT !.step = "push"]
<1>1. batch[b] \in Batch /\ BatchOK(batch[b]) /\ batch[b].step = "save"
  BY DEF JobSaveNext, TypeOK, BatchesOK, WellFormed
<1>2. x \in Batch /\ x.step = "push" /\ x.kind = batch[b].kind /\ x.parent = batch[b].parent
      /\ x.pending = batch[b].pending /\ x.dump = batch[b].dump /\ x.obj = batch[b].obj
  BY <1>1 DEF Batch
<1>3. batch' = [batch EXCEPT ![b] = x]
  BY DEF JobSaveNext
<1> HIDE DEF x
<1>4. BatchOK(x) /\ (Waits(batch[b]) => Waits(x))
  BY <1>1, <1>2 DEF BatchOK, Waits, FreeBatch
<1>5. BatchesOK' /\ batch' \in [Bid -> Batch] /\ batch'[b] = x
      /\ \A c \in Bid : c # b => batch'[c] = batch[c]
  BY <1>2, <1>3, <1>4, OneBatch, NoChildren
<1>6. row' \in Row
  BY <1>1, SavedNextType DEF JobSaveNext, Batch
<1>7. TypeOK' /\ CallersOK'
  BY <1>5, <1>6 DEF JobSaveNext, TypeOK, CallersOK
<1>8. PICK p \in Bid : Waits(batch'[p])
  <2>1. CASE batch[b].kind = "overall"
    BY <2>1, <1>1, <1>4, <1>5 DEF Waits
  <2>2. CASE batch[b].kind = "dump"
    <3>1. batch'[b].kind = "dump" /\ batch'[b].parent # NoBid
      BY <2>2, <1>1, <1>2, <1>5 DEF BatchOK
    <3>2. Waits(batch'[batch'[b].parent])
      BY <1>5, <3>1 DEF BatchesOK, WellFormed
    <3> QED
      BY <3>1, <3>2, <1>5 DEF Batch
  <2> QED
    BY <2>1, <2>2, <1>1 DEF BatchOK, Batch, FreeBatch
<1>9. ClaimsHeld'
  BY <1>8 DEF ClaimsHeld, ClearsInProgress, ClearsDump, Waits
<1> QED
  BY <1>5, <1>7, <1>9

LEMMA AckKeeps ==
    ASSUME IInv, NEW b \in Bid, Ack(b)
    PROVE  IInv'
<1> USE DEF IInv
<1> DEFINE x == IF batch[b].kind = "overall" THEN [OverallBatch EXCEPT !.step = "waiting"]
                ELSE FreeBatch
<1>1. batch[b] \in Batch /\ BatchOK(batch[b]) /\ batch[b].step = "ack"
  BY DEF Ack, TypeOK, BatchesOK, WellFormed
<1>2. x \in Batch /\ BatchOK(x) /\ x.kind # "dump" /\ (batch[b].kind = "overall" => Waits(x))
  BY NullTypes DEF OverallBatch, FreeBatch, Batch, BatchOK, Waits
<1>3. batch' = [batch EXCEPT ![b] = x]
  BY DEF Ack
<1> HIDE DEF x
<1>4. BatchesOK' /\ batch' \in [Bid -> Batch] /\ batch'[b] = x
      /\ \A c \in Bid : c # b => batch'[c] = batch[c]
  BY <1>2, <1>3, OneBatch, NoChildren DEF Waits
<1>5. TypeOK' /\ CallersOK'
  BY <1>4 DEF Ack, TypeOK, CallersOK
<1>6. ClaimsHeld'
  <2>1. row' = row /\ caller' = caller
    BY DEF Ack
  <2>2. \A c \in Bid : ClearsInProgress(c) => ClearsInProgress(c)'
    BY <1>1, <1>2, <1>4 DEF ClearsInProgress, BatchOK, Waits
  <2>3. \A c \in Bid : ClearsDump(c) => ClearsDump(c)'
    BY <1>1, <1>2, <1>4 DEF ClearsDump, BatchOK, Waits
  <2> QED
    BY <2>1, <2>2, <2>3, SameRowClaims DEF AboutToPush
<1> QED
  BY <1>4, <1>5, <1>6

LEMMA RemainingDumpsJobKeeps ==
    ASSUME IInv, NEW b \in Bid, RemainingDumpsJob(b)
    PROVE  IInv'
<1> USE DEF IInv
<1>1. batch[b] \in Batch /\ BatchOK(batch[b]) /\ batch[b].kind = "overall"
  BY DEF RemainingDumpsJob, TypeOK, BatchesOK, WellFormed
<1>2. PICK x \in Batch : batch' = [batch EXCEPT ![b] = x] /\ BatchOK(x) /\ Waits(x)
  <2>1. CASE batch' = [batch EXCEPT ![b].step = "waiting"]
    <3> DEFINE x == [batch[b] EXCEPT !.step = "waiting"]
    <3>1. x \in Batch /\ BatchOK(x) /\ Waits(x)
      BY <1>1 DEF Batch, BatchOK, Waits
    <3> QED
      BY <2>1, <3>1
  <2>2. ASSUME NEW n \in NextDump(row.last),
               batch' = [batch EXCEPT ![b].step = "save", ![b].obj = Loaded(row, n)]
        PROVE  \E x \in Batch : batch' = [batch EXCEPT ![b] = x] /\ BatchOK(x) /\ Waits(x)
    <3> DEFINE x == [batch[b] EXCEPT !.step = "save", !.obj = Loaded(row, n)]
    <3>1. Loaded(row, n) \in Object /\ Loaded(row, n).next \in Dump
      BY LoadedType DEF TypeOK, Row
    <3>2. x \in Batch /\ BatchOK(x) /\ Waits(x)
      BY <1>1, <3>1 DEF Batch, BatchOK, Waits
    <3>3. batch' = [batch EXCEPT ![b] = x]
      BY <2>2 DEF TypeOK
    <3> QED
      BY <3>2, <3>3
  <2> QED
    BY <2>1, <2>2 DEF RemainingDumpsJob
<1>3. BatchesOK' /\ batch' \in [Bid -> Batch] /\ batch'[b] = x
      /\ \A c \in Bid : c # b => batch'[c] = batch[c]
  BY <1>2, OneBatch DEF Waits
<1>4. TypeOK' /\ CallersOK'
  BY <1>3 DEF RemainingDumpsJob, TypeOK, CallersOK
<1>5. ClaimsHeld'
  <2>1. row' = row /\ caller' = caller
    BY DEF RemainingDumpsJob
  <2>2. \A c \in Bid : ClearsInProgress(c) => ClearsInProgress(c)'
    BY <1>2, <1>3 DEF ClearsInProgress, Waits
  <2>3. \A c \in Bid : ClearsDump(c) => ClearsDump(c)'
    BY <1>2, <1>3 DEF ClearsDump, Waits
  <2> QED
    BY <2>1, <2>2, <2>3, SameRowClaims DEF AboutToPush
<1> QED
  BY <1>3, <1>4, <1>5

LEMMA DumpFileJobKeeps ==
    ASSUME IInv, NEW b \in Bid, NEW r \in Record, DumpFileJob(b, r)
    PROVE  IInv'
<1> USE DEF IInv
<1> DEFINE x == [batch[b] EXCEPT !.pending = batch[b].pending \ {r}]
<1>1. batch[b] \in Batch /\ BatchOK(batch[b]) /\ r \in batch[b].pending
  BY DEF DumpFileJob, TypeOK, BatchesOK, WellFormed
<1>2. batch[b].kind = "dump" /\ batch[b].dump \in Dump
  BY <1>1 DEF BatchOK, Batch, FreeBatch
<1>3. x \in Batch /\ BatchOK(x) /\ x.kind = "dump" /\ x.parent = batch[b].parent
      /\ x.step = batch[b].step /\ x.obj = batch[b].obj
  BY <1>1, <1>2 DEF Batch, BatchOK
<1>4. batch' = [batch EXCEPT ![b] = x]
  BY DEF DumpFileJob
<1> HIDE DEF x
<1>5. BatchesOK' /\ batch' \in [Bid -> Batch] /\ batch'[b] = x
      /\ \A c \in Bid : c # b => batch'[c] = batch[c]
  BY <1>2, <1>3, <1>4, OneBatch, NoChildren DEF Waits
<1>6. solr' \in [Record -> Nat] /\ indexed' \subseteq Dump \X Record
  BY <1>2, VersionAssumption DEF DumpFileJob, TypeOK
<1>7. TypeOK' /\ CallersOK'
  BY <1>5, <1>6 DEF DumpFileJob, TypeOK, CallersOK
<1>8. ClaimsHeld'
  <2>1. row' = row /\ caller' = caller
    BY DEF DumpFileJob
  <2>2. \A c \in Bid : ClearsInProgress(c) => ClearsInProgress(c)'
    BY <1>2, <1>3, <1>5 DEF ClearsInProgress
  <2>3. \A c \in Bid : ClearsDump(c) => ClearsDump(c)'
    BY <1>2, <1>3, <1>5 DEF ClearsDump
  <2> QED
    BY <2>1, <2>2, <2>3, SameRowClaims DEF AboutToPush
<1> QED
  BY <1>5, <1>7, <1>8

LEMMA FindManagerKeeps ==
    ASSUME IInv, NEW b \in Bid, FindManager(b)
    PROVE  IInv'
<1> USE DEF IInv
<1> DEFINE obj == [NoObject EXCEPT !.base = row]
           x == [batch[b] EXCEPT !.step = "found", !.obj = obj]
<1>1. batch[b] \in Batch /\ BatchOK(batch[b]) /\ batch[b].kind = "dump"
  BY DEF FindManager, TypeOK, BatchesOK, WellFormed
<1>2. obj \in Object /\ obj.base = row
  BY DEF NoObject, Object, TypeOK, DumpRef
<1>3. batch' = [batch EXCEPT ![b] = x]
  BY DEF FindManager, TypeOK
<1> HIDE DEF obj
<1>4. x \in Batch /\ BatchOK(x) /\ x.kind = "dump" /\ x.parent = batch[b].parent
      /\ x.step = "found" /\ x.obj = obj
  BY <1>1, <1>2 DEF Batch, BatchOK
<1> HIDE DEF x
<1>5. BatchesOK' /\ batch' \in [Bid -> Batch] /\ batch'[b] = x
      /\ \A c \in Bid : c # b => batch'[c] = batch[c]
  BY <1>1, <1>3, <1>4, OneBatch, NoChildren DEF Waits
<1>6. TypeOK' /\ CallersOK'
  BY <1>5 DEF FindManager, TypeOK, CallersOK
<1>7. ClaimsHeld'
  <2>1. row' = row /\ caller' = caller
    BY DEF FindManager
  <2>2. ASSUME row.inp, NEW c \in Bid, ClearsInProgress(c) PROVE ClearsInProgress(c)'
    BY <2>2, <1>1, <1>2, <1>4, <1>5 DEF ClearsInProgress
  <2>3. ASSUME row.dip # NoDump, NEW c \in Bid, ClearsDump(c) PROVE ClearsDump(c)'
    BY <2>3, <1>1, <1>2, <1>4, <1>5 DEF ClearsDump
  <2> QED
    BY <2>1, <2>2, <2>3 DEF ClaimsHeld, AboutToPush
<1> QED
  BY <1>5, <1>6, <1>7

LEMMA OnSuccessKeeps ==
    ASSUME IInv, NEW b \in Bid, OnSuccess(b)
    PROVE  IInv'
<1> USE DEF IInv
<1> DEFINE base == batch[b].obj.base
           done == [base EXCEPT !.last = batch[b].dump, !.dip = NoDump]
           obj == [NoObject EXCEPT !.base = done, !.last = done.last]
           x == [batch[b] EXCEPT !.step = "advance", !.obj = obj]
<1>1. batch[b] \in Batch /\ BatchOK(batch[b]) /\ batch[b].step = "found" /\ batch[b].kind = "dump"
  BY DEF OnSuccess, TypeOK, BatchesOK, WellFormed, BatchOK, Batch, FreeBatch
<1>0. base \in Row /\ done \in Row /\ done.inp = base.inp /\ done.dip = NoDump
  BY <1>1 DEF Batch, Object, Row, BatchOK, DumpRef
<1> HIDE DEF done
<1>2. row' \in Row /\ row'.inp = row.inp /\ (row'.dip = NoDump \/ (row'.dip = row.dip /\ base.dip = NoDump))
  BY <1>0, SaveType DEF OnSuccess, TypeOK, Row, Save, done
<1>3. obj \in Object /\ obj.base = done
  BY <1>0 DEF NoObject, Object, Row, DumpRef
<1>9. batch' = [batch EXCEPT ![b].step = "advance", ![b].obj = obj]
  BY DEF OnSuccess, done
<1> HIDE DEF obj
<1>4. batch' = [batch EXCEPT ![b] = x]
  BY <1>9 DEF TypeOK
<1>5. x \in Batch /\ BatchOK(x) /\ x.kind = "dump" /\ x.parent = batch[b].parent
      /\ x.step = "advance" /\ x.obj = obj
  BY <1>1, <1>3 DEF Batch, BatchOK
<1> HIDE DEF x
<1>6. BatchesOK' /\ batch' \in [Bid -> Batch] /\ batch'[b] = x
      /\ \A c \in Bid : c # b => batch'[c] = batch[c]
  BY <1>1, <1>4, <1>5, OneBatch, NoChildren DEF Waits
<1>7. TypeOK' /\ CallersOK'
  BY <1>2, <1>6 DEF OnSuccess, TypeOK, CallersOK
<1>8. ClaimsHeld'
  <2>1. caller' = caller
    BY DEF OnSuccess
  <2>2. ASSUME row'.inp, NEW c \in Bid, ClearsInProgress(c)
        PROVE  ClearsInProgress(c)'
    BY <2>2, <1>0, <1>1, <1>3, <1>5, <1>6 DEF ClearsInProgress
  <2>3. ASSUME row'.dip # NoDump, NEW c \in Bid, ClearsDump(c)
        PROVE  ClearsDump(c)'
    <3>1. c # b
      BY <2>3, <1>1, <1>2 DEF ClearsDump
    <3> QED
      BY <2>3, <1>6, <3>1 DEF ClearsDump
  <2> QED
    BY <2>1, <2>2, <2>3, <1>2 DEF ClaimsHeld, AboutToPush
<1> QED
  BY <1>6, <1>7, <1>8

LEMMA AdvanceKeeps ==
    ASSUME IInv, NEW b \in Bid, Advance(b)
    PROVE  IInv'
<1> USE DEF IInv
<1>1. batch[b] \in Batch /\ BatchOK(batch[b]) /\ batch[b].step = "advance"
      /\ batch[b].parent # NoBid
  BY DEF Advance, TypeOK, BatchesOK, WellFormed
<1>2. batch[b].kind = "dump"
  BY <1>1 DEF BatchOK, Batch, FreeBatch
<1>3. PICK x \in Batch : /\ batch' = [batch EXCEPT ![b] = x] /\ BatchOK(x)
                         /\ x.kind = "dump" => x.parent = batch[b].parent
  <2>1. CASE batch' = [batch EXCEPT ![b] = FreeBatch]
    BY <2>1, FreeBatchOK
  <2>2. ASSUME NEW n \in NextDump(batch[b].obj.last),
               batch' = [batch EXCEPT ![b].step = "save",
                                      ![b].obj = Loaded(batch[b].obj.base, n)]
        PROVE  \E x \in Batch : /\ batch' = [batch EXCEPT ![b] = x] /\ BatchOK(x)
                                /\ x.kind = "dump" => x.parent = batch[b].parent
    <3> DEFINE obj == Loaded(batch[b].obj.base, n)
               x == [batch[b] EXCEPT !.step = "save", !.obj = obj]
    <3>1. obj \in Object /\ obj.next \in Dump
      BY <1>1, LoadedType DEF Batch, Object
    <3>2. batch' = [batch EXCEPT ![b] = x]
      BY <2>2 DEF TypeOK
    <3> HIDE DEF obj
    <3>3. x \in Batch /\ BatchOK(x) /\ x.parent = batch[b].parent
      BY <1>1, <1>2, <3>1 DEF Batch, BatchOK
    <3> QED
      BY <3>2, <3>3
  <2> QED
    BY <2>1, <2>2 DEF Advance
<1>4. BatchesOK' /\ batch' \in [Bid -> Batch] /\ batch'[b] = x
      /\ \A c \in Bid : c # b => batch'[c] = batch[c]
  BY <1>2, <1>3, OneBatch, NoChildren DEF Waits
<1>5. TypeOK' /\ CallersOK'
  BY <1>4 DEF Advance, TypeOK, CallersOK
<1>6. ClaimsHeld'
  <2>1. row' = row /\ caller' = caller
    BY DEF Advance
  <2>2. \A c \in Bid : ClearsInProgress(c) => ClearsInProgress(c)'
    BY <1>1, <1>2, <1>4 DEF ClearsInProgress
  <2>3. \A c \in Bid : ClearsDump(c) => ClearsDump(c)'
    BY <1>1, <1>2, <1>4 DEF ClearsDump
  <2> QED
    BY <2>1, <2>2, <2>3, SameRowClaims DEF AboutToPush
<1> QED
  BY <1>4, <1>5, <1>6

LEMMA FinishKeeps ==
    ASSUME IInv, NEW b \in Bid, Finish(b)
    PROVE  IInv'
<1> USE DEF IInv
<1> DEFINE base == batch[b].obj.base
           obj == [base EXCEPT !.inp = FALSE]
<1>1. batch[b] \in Batch /\ BatchOK(batch[b]) /\ batch[b].step = "advance"
  BY DEF Finish, TypeOK, BatchesOK, WellFormed
<1>2. batch[b].kind = "dump"
  BY <1>1 DEF BatchOK, Batch, FreeBatch
<1>3. base \in Row /\ obj \in Row /\ obj.inp = FALSE /\ obj.dip = base.dip
  BY <1>1 DEF Batch, Object, Row
<1>4. row' \in Row /\ row'.dip = row.dip
      /\ (row'.inp => row.inp /\ ~base.inp)
  <2>1. row' = Save(base, obj)
    BY DEF Finish
  <2> QED
    BY <2>1, <1>3, SaveType DEF Save, Row
<1>5. BatchesOK' /\ batch' \in [Bid -> Batch] /\ batch'[b] = FreeBatch
      /\ \A c \in Bid : c # b => batch'[c] = batch[c]
  BY <1>2, FreeBatchOK, OneBatch, NoChildren DEF Finish, Waits
<1>6. TypeOK' /\ CallersOK'
  BY <1>4, <1>5 DEF Finish, TypeOK, CallersOK
<1>7. ClaimsHeld'
  <2>1. caller' = caller
    BY DEF Finish
  <2>2. ASSUME row'.inp, NEW c \in Bid, ClearsInProgress(c)
        PROVE  ClearsInProgress(c)'
    BY <2>2, <1>1, <1>2, <1>4, <1>5 DEF ClearsInProgress
  <2>3. \A c \in Bid : ClearsDump(c) => ClearsDump(c)'
    BY <1>1, <1>2, <1>5 DEF ClearsDump
  <2> QED
    BY <2>1, <2>2, <2>3, <1>4 DEF ClaimsHeld, AboutToPush
<1> QED
  BY <1>5, <1>6, <1>7

LEMMA IndexedRemainingKeeps ==
    ASSUME IInv, NEW b \in Bid, IndexedRemaining(b)
    PROVE  IInv'
<1> USE DEF IInv
<1> DEFINE obj == [NoObject EXCEPT !.base = row]
           x == [batch[b] EXCEPT !.step = "closing", !.obj = obj]
<1>1. batch[b] \in Batch /\ BatchOK(batch[b]) /\ batch[b].kind = "overall"
  BY DEF IndexedRemaining, TypeOK, BatchesOK, WellFormed
<1>2. obj \in Object /\ obj.base = row
  BY DEF NoObject, Object, TypeOK, DumpRef
<1>3. batch' = [batch EXCEPT ![b] = x]
  BY DEF IndexedRemaining, TypeOK
<1> HIDE DEF obj
<1>4. x \in Batch /\ BatchOK(x) /\ x.kind = "overall" /\ x.obj = obj
  BY <1>1, <1>2 DEF Batch, BatchOK
<1> HIDE DEF x
<1>5. \A c \in Bid : ~(batch[c].kind = "dump" /\ batch[c].parent = b)
  BY DEF IndexedRemaining, Children, Open
<1>6. BatchesOK' /\ batch' \in [Bid -> Batch] /\ batch'[b] = x
      /\ \A c \in Bid : c # b => batch'[c] = batch[c]
  BY <1>3, <1>4, <1>5, OneBatch
<1>7. TypeOK' /\ CallersOK'
  BY <1>6 DEF IndexedRemaining, TypeOK, CallersOK
<1>8. ClaimsHeld'
  <2>1. row' = row /\ caller' = caller
    BY DEF IndexedRemaining
  <2>2. ASSUME row.inp, NEW c \in Bid, ClearsInProgress(c)
        PROVE  ClearsInProgress(c)'
    BY <2>2, <1>2, <1>4, <1>6 DEF ClearsInProgress
  <2>3. ASSUME row.dip # NoDump, NEW c \in Bid, ClearsDump(c)
        PROVE  ClearsDump(c)'
    BY <2>3, <1>2, <1>4, <1>6 DEF ClearsDump
  <2> QED
    BY <2>1, <2>2, <2>3 DEF ClaimsHeld, AboutToPush
<1> QED
  BY <1>6, <1>7, <1>8

LEMMA CloseRemainingKeeps ==
    ASSUME IInv, NEW b \in Bid, CloseRemaining(b)
    PROVE  IInv'
<1> USE DEF IInv
<1> DEFINE base == batch[b].obj.base
           obj == [base EXCEPT !.dip = NoDump, !.inp = FALSE]
<1>1. batch[b] \in Batch /\ BatchOK(batch[b]) /\ batch[b].step = "closing"
  BY DEF CloseRemaining, TypeOK, BatchesOK, WellFormed
<1>2. batch[b].kind = "overall"
  BY <1>1 DEF BatchOK, Batch, FreeBatch
<1>3. base \in Row /\ obj \in Row /\ obj.inp = FALSE /\ obj.dip = NoDump
  BY <1>1 DEF Batch, Object, Row, DumpRef
<1>4. row' \in Row
      /\ (row'.inp => row.inp /\ ~base.inp)
      /\ (row'.dip # NoDump => row.dip # NoDump /\ base.dip = NoDump)
  <2>1. row' = Save(base, obj)
    BY DEF CloseRemaining
  <2>2. row \in Row
    BY DEF TypeOK
  <2> HIDE DEF base, obj
  <2> QED
    BY <1>3, <2>1, <2>2 DEF Save, Row
<1>5. BatchesOK' /\ batch' \in [Bid -> Batch] /\ batch'[b] = FreeBatch
      /\ \A c \in Bid : c # b => batch'[c] = batch[c]
  BY <1>1, FreeBatchOK, OneBatch, NoChildren DEF CloseRemaining, Waits
<1>6. TypeOK' /\ CallersOK'
  BY <1>4, <1>5 DEF CloseRemaining, TypeOK, CallersOK
<1>7. ClaimsHeld'
  <2>1. caller' = caller
    BY DEF CloseRemaining
  <2>2. ASSUME row'.inp, NEW c \in Bid, ClearsInProgress(c)
        PROVE  ClearsInProgress(c)'
    BY <2>2, <1>1, <1>2, <1>4, <1>5 DEF ClearsInProgress
  <2>3. ASSUME row'.dip # NoDump, NEW c \in Bid, ClearsDump(c)
        PROVE  ClearsDump(c)'
    BY <2>3, <1>1, <1>2, <1>4, <1>5 DEF ClearsDump
  <2> QED
    BY <2>1, <2>2, <2>3, <1>4 DEF ClaimsHeld, AboutToPush
<1> QED
  BY <1>5, <1>6, <1>7

LEMMA CrashJobKeeps ==
    ASSUME IInv, NEW b \in Bid, CrashJob(b)
    PROVE  IInv'
<1> USE DEF IInv
<1> DEFINE x == Restarted(batch[b])
<1>1. batch[b] \in Batch /\ BatchOK(batch[b])
      /\ batch[b].step \in {"found", "advance", "save", "push", "ack", "closing"}
  BY DEF CrashJob, TypeOK, BatchesOK, WellFormed
<1>2. batch[b].kind # "free" /\ (batch[b].step = "closing" => batch[b].kind = "overall")
  BY <1>1 DEF BatchOK, Batch, FreeBatch
<1>3. x \in Batch /\ BatchOK(x) /\ x.kind = batch[b].kind /\ x.parent = batch[b].parent
      /\ x.step # "closing" /\ x.step # "advance" /\ (x.kind = "dump" => x.step = "queued")
  <2>1. CASE batch[b].step = "closing"
    <3>1. x = [OverallBatch EXCEPT !.step = "waiting"]
      BY <2>1 DEF Restarted
    <3>2. batch[b].kind = "overall" /\ batch[b].parent = NoBid
      BY <1>1, <1>2, <2>1 DEF BatchOK
    <3> QED
      BY <3>1, <3>2, NullTypes DEF OverallBatch, FreeBatch, Batch, BatchOK
  <2>2. CASE batch[b].step # "closing"
    <3>1. x = [batch[b] EXCEPT !.step = "queued", !.obj = NoObject]
      BY <2>2 DEF Restarted
    <3>2. x \in Batch /\ x.kind = batch[b].kind /\ x.parent = batch[b].parent
          /\ x.step = "queued" /\ x.pending = batch[b].pending /\ x.dump = batch[b].dump
      BY <3>1, <1>1, NullTypes DEF Batch
    <3> QED
      BY <3>2, <1>1, <1>2 DEF BatchOK
  <2> QED
    BY <2>1, <2>2
<1>4. batch' = [batch EXCEPT ![b] = x]
  BY DEF CrashJob
<1> HIDE DEF x
<1>5. BatchesOK' /\ batch' \in [Bid -> Batch] /\ batch'[b] = x
      /\ \A c \in Bid : c # b => batch'[c] = batch[c]
  BY <1>2, <1>3, <1>4, OneBatch, NoChildren DEF Waits, Batch
<1>6. TypeOK' /\ CallersOK'
  BY <1>5 DEF CrashJob, TypeOK, CallersOK
<1>7. ClaimsHeld'
  <2>1. row' = row /\ caller' = caller
    BY DEF CrashJob
  <2>2. \A c \in Bid : ClearsInProgress(c) => ClearsInProgress(c)'
    BY <1>3, <1>5 DEF ClearsInProgress
  <2>3. \A c \in Bid : ClearsDump(c) => ClearsDump(c)'
    BY <1>3, <1>5 DEF ClearsDump
  <2> QED
    BY <2>1, <2>2, <2>3, SameRowClaims DEF AboutToPush
<1> QED
  BY <1>5, <1>6, <1>7

LEMMA CrashDumpFileJobKeeps ==
    ASSUME IInv, NEW b \in Bid, NEW r \in Record, CrashDumpFileJob(b, r)
    PROVE  IInv'
<1> USE DEF IInv
<1>1. batch[b] \in Batch /\ BatchOK(batch[b]) /\ r \in batch[b].pending
  BY DEF CrashDumpFileJob, TypeOK, BatchesOK, WellFormed
<1>2. batch[b].dump \in Dump
  BY <1>1 DEF BatchOK, Batch, FreeBatch
<1>3. TypeOK' /\ CallersOK' /\ BatchesOK'
  BY <1>2, VersionAssumption DEF CrashDumpFileJob, TypeOK, CallersOK, BatchesOK, WellFormed
<1>4. ClaimsHeld'
  BY SameClaims DEF CrashDumpFileJob, AboutToPush
<1> QED
  BY <1>3, <1>4

---------------------------------------------------------------------------
(* The theorems. *)

LEMMA InitInv == Init => IInv
<1> SUFFICES ASSUME Init PROVE IInv
  OBVIOUS
<1>1. TypeOK
  BY NullTypes, DumpAssumption DEF Init, TypeOK
<1>2. BatchesOK
  BY FreeBatchOK DEF Init, BatchesOK, WellFormed
<1>3. CallersOK /\ ClaimsHeld
  BY DEF Init, CallersOK, ClaimsHeld, EmptyRow
<1> QED
  BY <1>1, <1>2, <1>3 DEF IInv

LEMMA NextInv == IInv /\ [Next]_vars => IInv'
<1> SUFFICES ASSUME IInv, [Next]_vars PROVE IInv'
  OBVIOUS
<1>1. ASSUME NEW d \in Dump, DumpStep(d) PROVE IInv'
  BY <1>1, DumpStepKeeps
<1>2. ASSUME NEW c \in Caller, CallerStarts(c) \/ CallerContinues(c) PROVE IInv'
  BY <1>2, CheckRemainingKeeps, CheckReindexKeeps, FindNextKeeps, EnqueueRemainingKeeps,
     ResetLastDumpKeeps, WipeKeeps, CallerSaveNextKeeps, CallerPushNextKeeps
     DEF CallerStarts, CallerContinues
<1>3. ASSUME NEW b \in Bid, JobStep(b) PROVE IInv'
  BY <1>3, RemainingDumpsJobKeeps, DumpFileJobKeeps, FindManagerKeeps, OnSuccessKeeps, AdvanceKeeps, FinishKeeps,
     JobSaveNextKeeps, JobPushNextKeeps, AckKeeps, IndexedRemainingKeeps, CloseRemainingKeeps
     DEF JobStep
<1>4. ASSUME NEW b \in Bid, Crash(b) PROVE IInv'
  BY <1>4, CrashJobKeeps, CrashDumpFileJobKeeps DEF Crash
<1>5. CASE UNCHANGED vars
  BY <1>5 DEF vars, IInv, TypeOK, BatchesOK, WellFormed, CallersOK, ClaimsHeld,
              ClearsInProgress, ClearsDump, AboutToPush
<1> QED
  BY <1>1, <1>2, <1>3, <1>4, <1>5 DEF Next

\* The row, the batches, the callers and Solr hold values of their types.
THEOREM TypeCorrect == Spec => []TypeOK
<1>1. IInv => TypeOK
  BY DEF IInv
<1> QED
  BY <1>1, InitInv, NextInv, PTL DEF Spec

\* Once no batch is open, in_progress is false and dump_in_progress is nil, for any number
\* of dumps, callers, overlapping workflows and crashes.
THEOREM ManagerNeverStuck == Spec => []NeverStuck
<1>1. IInv => NeverStuck
  BY DEF IInv, ClaimsHeld, NeverStuck, Quiet, ClearsInProgress, ClearsDump, AboutToPush, Free, Open
<1> QED
  BY <1>1, InitInv, NextInv, PTL DEF Spec

---------------------------------------------------------------------------
(* The walk from one dump to a later one.                                  *)

\* No two changed_records dumps have the same events.start: between two that do,
\* next_incremental would go back and forth.
DistinctStarts == \A d, e \in Dump \ Full : Start[d] = Start[e] => d = e

LEMMA LeastExists == ASSUME NEW T, T \subseteq Nat, T # {}
                     PROVE  \E x \in T : \A y \in T : x <= y
<1> DEFINE R == {p \in Nat \X Nat : p[1] < p[2]}
<1>1. IsWellFoundedOn(R, Nat)
  BY NatLessThanWellFounded DEF OpToRel
<1>2. \A x, y \in Nat : <<y, x>> \in R <=> y < x
  OBVIOUS
<1> HIDE DEF R
<1>3. PICK x \in T : \A y \in T : ~(<<y, x>> \in R)
  BY <1>1, WFMin
<1>4. \A y \in T : ~(y < x)
  BY <1>2, <1>3
<1> QED
  BY <1>4

\* A set of dumps has a first one by start, and so has a last one if a dump is after all.
LEMMA EarliestExists ==
    ASSUME NEW S \in SUBSET Dump, S # {}
    PROVE  Earliest(S) # {}
<1> DEFINE T == {Start[d] : d \in S}
<1>1. T \subseteq Nat /\ T # {}
  BY DumpAssumption
<1>2. PICK x \in T : \A y \in T : x <= y
  BY <1>1, LeastExists
<1>3. PICK d \in S : x = Start[d]
  OBVIOUS
<1> QED
  BY <1>2, <1>3 DEF Earliest

LEMMA LatestExists ==
    ASSUME NEW S \in SUBSET Dump, S # {}, NEW m \in Dump, \A d \in S : Start[d] <= Start[m]
    PROVE  Latest(S) # {}
<1> DEFINE T == {Start[m] - Start[d] : d \in S}
<1>1. T \subseteq Nat /\ T # {}
  BY DumpAssumption
<1>2. PICK x \in T : \A y \in T : x <= y
  BY <1>1, LeastExists
<1>3. PICK d \in S : x = Start[m] - Start[d]
  OBVIOUS
<1>4. ASSUME NEW e \in S PROVE Start[e] <= Start[d]
  <2>1. Start[m] - Start[d] <= Start[m] - Start[e]
    BY <1>2, <1>3
  <2> QED
    BY <2>1, DumpAssumption
<1> QED
  BY <1>4 DEF Latest

\* next_incremental never passes a dump that has dump files ...
LEMMA NextIncrementalBy ==
    ASSUME TypeOK, DistinctStarts, NEW e \in Dump, NEW d \in Incrementals, attached[d] # {},
           Start[e] < Start[d], NEW n \in NextIncremental(e)
    PROVE  n[1] = d \/ Start[n[1]] < Start[d]
<1>1. created \subseteq Dump /\ d \in Dump \ Full /\ Start \in [Dump -> Nat]
  BY DumpAssumption DEF TypeOK, Incrementals
<1>2. n \in Dump \X Dump /\ n[2] \in SkippedTo(e) /\ n[1] \in Earliest(After(n[2]))
  BY DEF NextIncremental
<1>3. n[1] \in Dump \ Full
  BY <1>1, <1>2 DEF Earliest, After, Incrementals
<1>4. Start[n[2]] < Start[d]
  <2>1. CASE n[2] = e
    BY <2>1
  <2>2. CASE n[2] # e
    <3>1. \A x \in After(e) : Start[x] <= Start[n[2]] => attached[x] = {}
      BY <1>2, <2>2 DEF SkippedTo
    <3>2. d \in After(e)
      BY <1>1 DEF After
    <3> QED
      BY <1>1, <1>2, <3>1, <3>2
  <2> QED
    BY <2>1, <2>2
<1>5. d \in After(n[2])
  BY <1>1, <1>2, <1>4 DEF After
<1>6. Start[n[1]] <= Start[d]
  BY <1>2, <1>5 DEF Earliest
<1> QED
  BY <1>1, <1>3, <1>6 DEF DistinctStarts

\* ... and finds one while such a dump is ahead.
LEMMA NextIncrementalFinds ==
    ASSUME TypeOK, DistinctStarts, NEW e \in Dump, NEW d \in Incrementals, attached[d] # {},
           Start[e] < Start[d]
    PROVE  NextIncremental(e) # {}
<1> DEFINE Filled == {x \in After(e) : attached[x] # {}}
<1>1. created \subseteq Dump /\ d \in Dump \ Full /\ Start \in [Dump -> Nat]
  BY DumpAssumption DEF TypeOK, Incrementals
<1>2. After(e) \subseteq Dump \ Full
  BY <1>1 DEF After, Incrementals
<1>3. d \in Filled /\ Filled \in SUBSET Dump
  BY <1>1, <1>2 DEF After
<1>4. PICK y \in Filled : \A x \in Filled : Start[y] <= Start[x]
  BY <1>3, EarliestExists DEF Earliest
<1>5. y \in After(e) /\ y \in Dump \ Full
  BY <1>2
<1> DEFINE Skipped == {x \in After(e) : Start[x] < Start[y]}
<1>6. ASSUME NEW x \in Skipped PROVE attached[x] = {}
  BY <1>1, <1>2, <1>4, <1>5
<1>7. CASE Skipped = {}
  <2>1. y \in Earliest(After(e))
    BY <1>1, <1>2, <1>5, <1>7 DEF Earliest
  <2>2. e \in SkippedTo(e)
    BY DEF SkippedTo
  <2>3. <<y, e>> \in NextIncremental(e)
    BY <1>5, <2>1, <2>2 DEF NextIncremental
  <2> QED
    BY <2>3
<1>8. CASE Skipped # {}
  <2>1. Latest(Skipped) # {}
    <3>1. Skipped \in SUBSET Dump /\ \A x \in Skipped : Start[x] <= Start[y]
      BY <1>1, <1>2, <1>5
    <3> HIDE DEF Skipped
    <3> QED
      BY <1>5, <1>8, <3>1, LatestExists
  <2>2. PICK l \in Skipped : \A x \in Skipped : Start[x] <= Start[l]
    BY <2>1 DEF Latest
  <2>3. l \in After(e) /\ l \in Dump \ Full /\ Start[l] < Start[y] /\ l # e
    BY <1>2 DEF After
  <2>4. l \in SkippedTo(e)
    <3>1. ASSUME NEW x \in After(e), Start[x] <= Start[l] PROVE attached[x] = {}
      BY <1>1, <1>2, <1>5, <1>6, <2>3, <3>1
    <3> QED
      BY <2>3, <3>1 DEF SkippedTo
  <2>5. y \in After(l)
    BY <1>1, <1>5, <2>3 DEF After
  <2>6. ASSUME NEW z \in After(l) PROVE Start[y] <= Start[z]
    <3>1. z \in Incrementals /\ z # l /\ Start[l] <= Start[z] /\ z \in Dump \ Full
      BY <1>1 DEF After, Incrementals
    <3>2. Start[e] <= Start[l]
      BY <2>3 DEF After
    <3>3. z # e
      <4>1. SUFFICES ASSUME z = e PROVE FALSE
        OBVIOUS
      <4>2. Start[l] = Start[z]
        BY <1>1, <2>3, <3>1, <3>2, <4>1
      <4> QED
        BY <2>3, <3>1, <4>2 DEF DistinctStarts
    <3>4. z \in After(e)
      BY <1>1, <2>3, <3>1, <3>2, <3>3 DEF After
    <3>5. ~(Start[z] < Start[y])
      <4>1. SUFFICES ASSUME Start[z] < Start[y] PROVE FALSE
        OBVIOUS
      <4>2. Start[z] <= Start[l]
        BY <2>2, <3>4, <4>1
      <4>3. Start[z] = Start[l]
        BY <1>1, <2>3, <3>1, <4>2
      <4> QED
        BY <2>3, <3>1, <4>3 DEF DistinctStarts
    <3> QED
      BY <1>1, <1>5, <3>1, <3>5
  <2>7. y \in Earliest(After(l))
    BY <2>5, <2>6 DEF Earliest
  <2>8. <<y, l>> \in NextIncremental(e)
    BY <1>5, <2>3, <2>4, <2>7 DEF NextIncremental
  <2> QED
    BY <2>8
<1> QED
  BY <1>7, <1>8

\* Whatever dump was completed, next_dump never passes an incremental dump that has dump
\* files, and goes on until it has returned it.
LEMMA WalkComes ==
    ASSUME TypeOK, DistinctStarts, NEW e \in Dump, NEW d \in Incrementals, attached[d] # {},
           Start[e] < Start[d]
    PROVE  /\ NextDump(e) # {}
           /\ \A n \in NextDump(e) : n[1] = d \/ Start[n[1]] < Start[d]
<1>1. e # NoDump
  BY DumpAssumption
<1>2. created \subseteq Dump /\ d \in Dump
  BY DEF TypeOK, Incrementals
<1>3. CASE e \in Full /\ PreviousToFullIncremental(e) # {}
  <2>1. NextDump(e) = PreviousToFullIncremental(e) \X {e}
    BY <1>3 DEF NextDump
  <2>2. TruncatedStart(e) <= Start[e]
    <3>1. Start[e] \in Nat /\ Second \in Nat \ {0}
      BY DumpAssumption
    <3>2. Start[e] % Second \in 0..(Second - 1)
      BY <3>1
    <3> QED
      BY <3>1, <3>2 DEF TruncatedStart
  <2>3. \A x \in PreviousToFullIncremental(e) : Start[x] < Start[d]
    <3>1. ASSUME NEW x \in PreviousToFullIncremental(e) PROVE Start[x] < Start[d]
      <4>1. x \in Dump /\ Start[x] < TruncatedStart(e)
        BY <1>2 DEF PreviousToFullIncremental, Latest, Incrementals
      <4>2. Start[e] \in Nat /\ Start[x] \in Nat /\ Start[d] \in Nat /\ TruncatedStart(e) \in Int
        BY <1>2, <4>1, DumpAssumption DEF TruncatedStart
      <4> QED
        BY <2>2, <4>1, <4>2
    <3> QED
      BY <3>1
  <2>4. ASSUME NEW n \in NextDump(e) PROVE Start[n[1]] < Start[d]
    <3>1. n[1] \in PreviousToFullIncremental(e)
      BY <2>1
    <3> QED
      BY <2>3, <3>1
  <2>5. NextDump(e) # {}
    <3>1. PICK x : x \in PreviousToFullIncremental(e)
      BY <1>3
    <3>2. <<x, e>> \in NextDump(e)
      BY <2>1, <3>1
    <3> QED
      BY <3>2
  <2> QED
    BY <2>4, <2>5
<1>4. CASE ~(e \in Full /\ PreviousToFullIncremental(e) # {})
  <2>1. NextDump(e) = NextIncremental(e)
    BY <1>1, <1>4 DEF NextDump
  <2> QED
    BY <2>1, NextIncrementalBy, NextIncrementalFinds
<1> QED
  BY <1>3, <1>4

---------------------------------------------------------------------------
(* No record is left stale: the overlapping workflows converge.            *)

\* A later dump carries no older version of a record than an earlier one does.
VersionsGrow ==
    \A d, e \in Dump, r \in Record : Start[d] <= Start[e] => Version[d][r] <= Version[e][r]

\* A batch of a workflow: it has a parent, and the dumps it names have rows and files.
ChainOK(bt) ==
    /\ bt.kind = "dump" => bt.parent # NoBid /\ bt.dump \in created
    /\ bt.kind = "dump" => bt.pending \subseteq attached[bt.dump]
    /\ bt.kind = "dump" /\ bt.step # "queued" => bt.pending = {}
    /\ bt.kind = "dump" /\ bt.step = "advance" => bt.obj.last = bt.dump
    /\ bt.step \in {"save", "push"} => bt.obj.next \in created

\* Nobody calls index_next_dump! outside a batch, and what was indexed is attached.
WorkflowsOnly ==
    /\ \A c \in Caller : caller[c].pc \notin {"save", "push"}
    /\ \A b \in Bid : ChainOK(batch[b])
    /\ \A p \in indexed : p[1] \in created /\ p[2] \in attached[p[1]]

\* Solr holds an older version of r than the indexed dump d carries.
Stale(d, r) == <<d, r>> \in indexed /\ solr[r] < Version[d][r]

\* The batch is going to write r of d again: its walk is before d, or it is at d.
ComesTo(bt, d, r) ==
    /\ bt.kind = "dump"
    /\ \/ bt.step = "queued" /\ bt.dump = d /\ r \in bt.pending
       \/ bt.step \in {"queued", "found", "advance"} /\ Start[bt.dump] < Start[d]
       \/ /\ bt.step \in {"save", "push"} /\ Start[bt.dump] < Start[d]
          /\ bt.obj.next = d \/ Start[bt.obj.next] < Start[d]

\* A stale record has a batch that comes to it.
StaleCovered ==
    \A d \in Dump \ Full, r \in Record : Stale(d, r) => \E b \in Bid : ComesTo(batch[b], d, r)

StaleInv == IInv /\ WorkflowsOnly /\ StaleCovered

\* next_dump returns a dump with a row.
LEMMA NextDumpCreated ==
    ASSUME NEW last, NEW n \in NextDump(last)
    PROVE  n[1] \in created
<1>1. NextIncremental(last) \subseteq created \X Dump
  BY DEF NextIncremental, Earliest, After, Incrementals
<1>2. /\ PreviousToFullIncremental(last) \subseteq created
      /\ RecentFullDump \subseteq created /\ FirstIncremental \subseteq created
  BY DEF PreviousToFullIncremental, RecentFullDump, FirstIncremental, Latest, Earliest, Incrementals
<1>3. \A S : S \subseteq created => \A x, m : m \in S \X {x} => m[1] \in created
  OBVIOUS
<1> QED
  BY <1>1, <1>2, <1>3 DEF NextDump

LEMMA StaleInvStarts ==
    ASSUME Init
    PROVE  WorkflowsOnly /\ StaleCovered
  BY DEF Init, WorkflowsOnly, ChainOK, FreeBatch, StaleCovered, Stale

\* A step that leaves the batches and what was indexed alone.
LEMMA DumpsAndCallersKeepStale ==
    ASSUME StaleInv, batch' = batch, solr' = solr, indexed' = indexed,
           created \subseteq created', \A d \in Dump : attached[d] \subseteq attached'[d],
           \A c \in Caller : caller'[c].pc \notin {"save", "push"}
    PROVE  WorkflowsOnly' /\ StaleCovered'
<1>1. indexed \subseteq Dump \X Record /\ created \subseteq Dump
  BY DEF StaleInv, IInv, TypeOK
<1>2. ASSUME NEW b \in Bid PROVE ChainOK(batch[b])'
  <2>1. ChainOK(batch[b]) /\ BatchOK(batch[b])
    BY DEF StaleInv, WorkflowsOnly, IInv, BatchesOK, WellFormed
  <2> QED
    BY <2>1 DEF ChainOK, BatchOK
<1>3. \A p \in indexed' : p[1] \in created' /\ p[2] \in attached'[p[1]]
  <2>1. ASSUME NEW p \in indexed PROVE p[1] \in created' /\ p[2] \in attached'[p[1]]
    <3>1. p[1] \in created /\ p[2] \in attached[p[1]] /\ p[1] \in Dump
      BY <1>1 DEF StaleInv, WorkflowsOnly
    <3> QED
      BY <3>1
  <2> QED
    BY <2>1
<1>4. WorkflowsOnly'
  BY <1>2, <1>3 DEF WorkflowsOnly
<1>5. StaleCovered'
  BY DEF StaleInv, StaleCovered, Stale, ComesTo
<1> QED
  BY <1>4, <1>5

\* A step that changes one batch and keeps it coming to what it came to.
LEMMA OneBatchKeepsStale ==
    ASSUME StaleInv, NEW b \in Bid, NEW x, batch' = [batch EXCEPT ![b] = x],
           UNCHANGED <<created, attached, solr, indexed>>,
           \A c \in Caller : caller'[c].pc \notin {"save", "push"},
           ChainOK(x),
           \A d \in Dump \ Full, r \in Record :
               Stale(d, r) /\ ComesTo(batch[b], d, r) => ComesTo(x, d, r)
    PROVE  WorkflowsOnly' /\ StaleCovered'
<1>1. batch'[b] = x /\ \A c \in Bid : c # b => batch'[c] = batch[c]
  BY DEF StaleInv, IInv, TypeOK
<1>2. ASSUME NEW c \in Bid PROVE ChainOK(batch[c])'
  BY <1>1 DEF StaleInv, WorkflowsOnly, ChainOK
<1>3. WorkflowsOnly'
  BY <1>2 DEF StaleInv, WorkflowsOnly
<1>4. ASSUME NEW d \in Dump \ Full, NEW r \in Record, Stale(d, r)'
      PROVE  \E c \in Bid : ComesTo(batch[c], d, r)'
  <2>1. Stale(d, r)
    BY <1>4 DEF Stale
  <2>2. PICK c \in Bid : ComesTo(batch[c], d, r)
    BY <2>1 DEF StaleInv, StaleCovered
  <2>3. ComesTo(batch'[c], d, r)
    BY <1>1, <2>1, <2>2
  <2>4. ComesTo(batch[c], d, r)'
    BY <2>3 DEF ComesTo
  <2> QED
    BY <2>4
<1>5. StaleCovered'
  BY <1>4 DEF StaleCovered
<1> QED
  BY <1>3, <1>5

LEMMA CallerKeepsStale ==
    ASSUME StaleInv, "next" \notin Ops, NEW c \in Caller, CallerStarts(c) \/ CallerContinues(c)
    PROVE  WorkflowsOnly' /\ StaleCovered'
<1>1. \A x \in Caller : caller[x].pc \notin {"save", "push"}
  BY DEF StaleInv, WorkflowsOnly
<1>2. CASE CheckRemaining(c) \/ CheckReindex(c) \/ ResetLastDump(c)
  <2>1. \A x \in Caller : caller'[x].pc \notin {"save", "push"}
    BY <1>1, <1>2 DEF CheckRemaining, CheckReindex, ResetLastDump, StaleInv, IInv, TypeOK
  <2>2. UNCHANGED <<created, attached, batch, solr, indexed>>
    BY <1>2 DEF CheckRemaining, CheckReindex, ResetLastDump
  <2> QED
    BY <2>1, <2>2, DumpsAndCallersKeepStale
<1>3. CASE EnqueueRemaining(c)
  <2>1. NewBid \in Bid /\ batch[NewBid].kind = "free"
    BY <1>3, NewBidFree DEF EnqueueRemaining
  <2>2. \A x \in Caller : caller'[x].pc \notin {"save", "push"}
    BY <1>1, <1>3 DEF EnqueueRemaining, StaleInv, IInv, TypeOK
  <2>3. ChainOK(OverallBatch)
    BY DEF ChainOK, OverallBatch, FreeBatch
  <2>4. \A d \in Dump \ Full, r \in Record : ~ComesTo(batch[NewBid], d, r)
    BY <2>1 DEF ComesTo
  <2>5. UNCHANGED <<created, attached, solr, indexed>>
        /\ batch' = [batch EXCEPT ![NewBid] = OverallBatch]
    BY <1>3 DEF EnqueueRemaining
  <2> QED
    BY <2>1, <2>2, <2>3, <2>4, <2>5, OneBatchKeepsStale
<1>4. CASE Wipe(c)
  <2>1. \A x \in Caller : caller'[x].pc \notin {"save", "push"}
    BY <1>1, <1>4 DEF Wipe, StaleInv, IInv, TypeOK
  <2>2. UNCHANGED <<created, attached, batch>> /\ indexed' = {}
    BY <1>4 DEF Wipe
  <2> QED
    BY <2>1, <2>2 DEF StaleInv, WorkflowsOnly, ChainOK, StaleCovered, Stale
<1> QED
  BY <1>1, <1>2, <1>3, <1>4
  DEF CallerStarts, CallerContinues, FindNext, CallerSaveNext, CallerPushNext

\* A dump file reaches Solr: a record it makes stale is ahead of the batch's walk.
LEMMA WriteKeepsStale ==
    ASSUME StaleInv, VersionsGrow, NEW b \in Bid, NEW r \in Record, r \in batch[b].pending,
           solr' = [solr EXCEPT ![r] = Version[batch[b].dump][r]],
           indexed' = indexed \cup {<<batch[b].dump, r>>},
           UNCHANGED <<created, attached, caller>>,
           \/ batch' = batch
           \/ batch' = [batch EXCEPT ![b].pending = @ \ {r}]
    PROVE  WorkflowsOnly' /\ StaleCovered'
<1> DEFINE done == batch[b].dump
<1>1. batch[b] \in Batch /\ BatchOK(batch[b]) /\ ChainOK(batch[b])
  BY DEF StaleInv, IInv, TypeOK, BatchesOK, WellFormed, WorkflowsOnly
<1>2. batch[b].kind = "dump" /\ done \in Dump /\ done \in created /\ r \in attached[done]
  BY <1>1 DEF BatchOK, Batch, FreeBatch, ChainOK
<1>3. batch[b].step = "queued"
  BY <1>1, <1>2 DEF ChainOK
<1> DEFINE x == batch'[b]
<1>4. /\ x.kind = "dump" /\ x.step = "queued" /\ x.dump = done /\ x.parent = batch[b].parent
      /\ x.obj = batch[b].obj
      /\ x.pending \subseteq batch[b].pending /\ batch[b].pending \ {r} \subseteq x.pending
      /\ \A c \in Bid : c # b => batch'[c] = batch[c]
  BY <1>1, <1>2, <1>3 DEF StaleInv, IInv, TypeOK, Batch
<1> HIDE DEF x
<1>5. ASSUME NEW c \in Bid PROVE ChainOK(batch[c])'
  <2>1. ChainOK(batch[c])
    BY DEF StaleInv, WorkflowsOnly
  <2>2. CASE c # b
    BY <1>4, <2>1, <2>2 DEF ChainOK
  <2>3. CASE c = b
    BY <1>1, <1>2, <1>3, <1>4, <2>3 DEF ChainOK, x
  <2> QED
    BY <2>2, <2>3
<1>6. WorkflowsOnly'
  BY <1>2, <1>5 DEF StaleInv, WorkflowsOnly
<1>7. ASSUME NEW d \in Dump \ Full, NEW s \in Record, Stale(d, s)'
      PROVE  \E c \in Bid : ComesTo(batch'[c], d, s)
  <2>1. /\ solr'[s] = IF s = r THEN Version[done][r] ELSE solr[s]
        /\ solr \in [Record -> Nat] /\ Version[done][r] \in Nat /\ Version[d][s] \in Nat
    BY <1>2, VersionAssumption DEF StaleInv, IInv, TypeOK
  <2>2. CASE s = r
    <3>1. Version[done][r] < Version[d][r]
      BY <1>7, <2>1, <2>2 DEF Stale
    <3>2. ~(Start[d] <= Start[done])
      <4>1. Start[d] <= Start[done] => Version[d][r] <= Version[done][r]
        BY <1>2 DEF VersionsGrow
      <4>2. Version[d][r] \in Nat
        BY <2>1, <2>2
      <4> QED
        BY <2>1, <3>1, <4>1, <4>2
    <3>3. Start[done] < Start[d]
      BY <1>2, <3>2, DumpAssumption
    <3> QED
      BY <1>4, <3>3 DEF ComesTo, x
  <2>3. CASE s # r
    <3>1. Stale(d, s)
      BY <1>7, <2>1, <2>3 DEF Stale
    <3>2. PICK c \in Bid : ComesTo(batch[c], d, s)
      BY <3>1 DEF StaleInv, StaleCovered
    <3>3. ComesTo(batch'[c], d, s)
      <4>1. CASE c # b
        BY <1>4, <3>2, <4>1
      <4>2. CASE c = b
        BY <1>3, <1>4, <2>3, <3>2, <4>2 DEF ComesTo, x
      <4> QED
        BY <4>1, <4>2
    <3> QED
      BY <3>3
  <2> QED
    BY <2>2, <2>3
<1>8. StaleCovered'
  BY <1>7 DEF StaleCovered, ComesTo
<1> QED
  BY <1>6, <1>8

\* The callback that has recorded its dump goes on to the next one.
LEMMA AdvanceKeepsStale ==
    ASSUME StaleInv, DistinctStarts, NEW b \in Bid, Advance(b)
    PROVE  WorkflowsOnly' /\ StaleCovered'
<1>1. batch[b] \in Batch /\ BatchOK(batch[b]) /\ ChainOK(batch[b]) /\ batch[b].step = "advance"
  BY DEF StaleInv, IInv, TypeOK, BatchesOK, WellFormed, WorkflowsOnly, Advance
<1>2. /\ batch[b].kind = "dump" /\ batch[b].dump \in Dump
      /\ batch[b].obj.last = batch[b].dump /\ batch[b].pending = {}
  BY <1>1 DEF BatchOK, Batch, FreeBatch, ChainOK
<1>3. \A c \in Caller : caller'[c].pc \notin {"save", "push"}
  BY DEF Advance, StaleInv, WorkflowsOnly
<1>4. UNCHANGED <<created, attached, solr, indexed>>
  BY DEF Advance
<1>5. ASSUME NEW d \in Dump \ Full, NEW r \in Record, Stale(d, r), ComesTo(batch[b], d, r)
      PROVE  /\ Start[batch[b].dump] < Start[d] /\ NextDump(batch[b].dump) # {}
             /\ \A n \in NextDump(batch[b].dump) : n[1] = d \/ Start[n[1]] < Start[d]
  <2>1. d \in created /\ r \in attached[d]
    BY <1>5 DEF StaleInv, WorkflowsOnly, Stale
  <2>2. d \in Incrementals /\ attached[d] # {}
    BY <2>1 DEF Incrementals
  <2>3. Start[batch[b].dump] < Start[d]
    BY <1>1, <1>5 DEF ComesTo
  <2>4. TypeOK
    BY DEF StaleInv, IInv
  <2> QED
    BY <1>2, <2>2, <2>3, <2>4, WalkComes
<1>6. CASE NextDump(batch[b].obj.last) = {} /\ batch' = [batch EXCEPT ![b] = FreeBatch]
  <2>1. ChainOK(FreeBatch)
    BY DEF ChainOK, FreeBatch
  <2>2. \A d \in Dump \ Full, r \in Record : ~(Stale(d, r) /\ ComesTo(batch[b], d, r))
    BY <1>2, <1>5, <1>6
  <2> QED
    BY <1>3, <1>4, <1>6, <2>1, <2>2, OneBatchKeepsStale
<1>7. ASSUME NEW n \in NextDump(batch[b].obj.last),
             batch' = [batch EXCEPT ![b].step = "save", ![b].obj = Loaded(batch[b].obj.base, n)]
      PROVE  WorkflowsOnly' /\ StaleCovered'
  <2> DEFINE obj == Loaded(batch[b].obj.base, n)
             x == [batch[b] EXCEPT !.step = "save", !.obj = obj]
  <2>1. obj.next = n[1] /\ n[1] \in created
    BY NextDumpCreated DEF Loaded
  <2>2. batch' = [batch EXCEPT ![b] = x]
    BY <1>7 DEF StaleInv, IInv, TypeOK
  <2> HIDE DEF obj
  <2>3. /\ x.kind = "dump" /\ x.step = "save" /\ x.dump = batch[b].dump /\ x.obj = obj
        /\ x.parent = batch[b].parent /\ x.pending = batch[b].pending
    BY <1>1, <1>2 DEF Batch
  <2> HIDE DEF x
  <2>4. ChainOK(x)
    BY <1>1, <1>2, <2>1, <2>3 DEF ChainOK
  <2>5. ASSUME NEW d \in Dump \ Full, NEW r \in Record, Stale(d, r), ComesTo(batch[b], d, r)
        PROVE  ComesTo(x, d, r)
    <3>1. Start[batch[b].dump] < Start[d] /\ (n[1] = d \/ Start[n[1]] < Start[d])
      BY <1>2, <1>5, <2>5
    <3> QED
      BY <2>1, <2>3, <3>1 DEF ComesTo
  <2> QED
    BY <1>3, <1>4, <2>2, <2>4, <2>5, OneBatchKeepsStale
<1> QED
  BY <1>6, <1>7 DEF Advance

\* The steps of one batch that move it along without its walk.
LEMMA JobKeepsStale ==
    ASSUME StaleInv, NEW b \in Bid,
           \/ FindManager(b) \/ OnSuccess(b) \/ JobSaveNext(b) \/ Ack(b) \/ IndexedRemaining(b)
           \/ CloseRemaining(b) \/ CrashJob(b)
    PROVE  WorkflowsOnly' /\ StaleCovered'
<1>1. batch[b] \in Batch /\ BatchOK(batch[b]) /\ ChainOK(batch[b])
  BY DEF StaleInv, IInv, TypeOK, BatchesOK, WellFormed, WorkflowsOnly
<1>2. \A c \in Caller : caller'[c].pc \notin {"save", "push"}
  BY DEF FindManager, OnSuccess, JobSaveNext, Ack, IndexedRemaining, CloseRemaining, CrashJob,
         StaleInv, WorkflowsOnly
<1>3. UNCHANGED <<created, attached, solr, indexed>>
  BY DEF FindManager, OnSuccess, JobSaveNext, Ack, IndexedRemaining, CloseRemaining, CrashJob
<1>4. SUFFICES \E x : /\ batch' = [batch EXCEPT ![b] = x] /\ ChainOK(x)
                      /\ \A d \in Dump \ Full, r \in Record :
                             ComesTo(batch[b], d, r) => ComesTo(x, d, r)
  BY <1>2, <1>3, OneBatchKeepsStale
<1>5. CASE OnSuccess(b)
  <2> DEFINE done == [batch[b].obj.base EXCEPT !.last = batch[b].dump, !.dip = NoDump]
             obj == [NoObject EXCEPT !.base = done, !.last = done.last]
             x == [batch[b] EXCEPT !.step = "advance", !.obj = obj]
  <2>0. batch' = [batch EXCEPT ![b].step = "advance", ![b].obj = obj]
    BY <1>5 DEF OnSuccess
  <2>2. obj.last = batch[b].dump
    BY <1>1 DEF NoObject, Batch, Object, Row
  <2> HIDE DEF obj
  <2>1. batch' = [batch EXCEPT ![b] = x]
    BY <2>0 DEF StaleInv, IInv, TypeOK
  <2>3. x.kind = batch[b].kind /\ x.step = "advance" /\ x.dump = batch[b].dump /\ x.obj = obj
        /\ x.parent = batch[b].parent /\ x.pending = batch[b].pending
    BY <1>1 DEF Batch
  <2>4. batch[b].kind = "dump" /\ batch[b].step = "found" /\ batch[b].pending = {}
    BY <1>1, <1>5 DEF OnSuccess, BatchOK, Batch, FreeBatch, ChainOK
  <2> HIDE DEF x
  <2>5. ChainOK(x)
    BY <1>1, <2>2, <2>3, <2>4 DEF ChainOK
  <2>6. \A d \in Dump \ Full, r \in Record : ComesTo(batch[b], d, r) => ComesTo(x, d, r)
    BY <2>3, <2>4 DEF ComesTo
  <2> QED
    BY <2>1, <2>5, <2>6
<1>10. CASE FindManager(b)
  <2> DEFINE x == [batch[b] EXCEPT !.step = "found", !.obj = [NoObject EXCEPT !.base = row]]
  <2>1. batch' = [batch EXCEPT ![b] = x]
    BY <1>10 DEF FindManager, StaleInv, IInv, TypeOK
  <2>2. x.kind = batch[b].kind /\ x.step = "found" /\ x.dump = batch[b].dump
        /\ x.parent = batch[b].parent /\ x.pending = batch[b].pending
    BY <1>1 DEF Batch
  <2>3. batch[b].kind = "dump" /\ batch[b].step = "queued" /\ batch[b].pending = {}
    BY <1>10 DEF FindManager
  <2> HIDE DEF x
  <2>4. ChainOK(x)
    BY <1>1, <2>2, <2>3 DEF ChainOK
  <2>5. \A d \in Dump \ Full, r \in Record : ComesTo(batch[b], d, r) => ComesTo(x, d, r)
    BY <2>2, <2>3 DEF ComesTo
  <2> QED
    BY <2>1, <2>4, <2>5
<1>6. CASE JobSaveNext(b)
  <2> DEFINE x == [batch[b] EXCEPT !.step = "push"]
  <2>1. batch' = [batch EXCEPT ![b] = x]
    BY <1>6 DEF JobSaveNext
  <2>2. x.kind = batch[b].kind /\ x.step = "push" /\ x.dump = batch[b].dump /\ x.obj = batch[b].obj
        /\ x.parent = batch[b].parent /\ x.pending = batch[b].pending /\ batch[b].step = "save"
    BY <1>1, <1>6 DEF Batch, JobSaveNext
  <2> HIDE DEF x
  <2>3. ChainOK(x)
    BY <1>1, <2>2 DEF ChainOK
  <2>4. \A d \in Dump \ Full, r \in Record : ComesTo(batch[b], d, r) => ComesTo(x, d, r)
    BY <2>2 DEF ComesTo
  <2> QED
    BY <2>1, <2>3, <2>4
<1>7. CASE Ack(b)
  <2> DEFINE x == IF batch[b].kind = "overall" THEN [OverallBatch EXCEPT !.step = "waiting"]
                  ELSE FreeBatch
  <2>1. batch' = [batch EXCEPT ![b] = x]
    BY <1>7 DEF Ack
  <2>2. ChainOK(x)
    BY DEF ChainOK, OverallBatch, FreeBatch
  <2>3. \A d \in Dump \ Full, r \in Record : ~ComesTo(batch[b], d, r)
    BY <1>7 DEF Ack, ComesTo
  <2> QED
    BY <2>1, <2>2, <2>3
<1>8. CASE IndexedRemaining(b) \/ CloseRemaining(b)
  <2>1. batch[b].kind = "overall"
    BY <1>1, <1>8 DEF IndexedRemaining, CloseRemaining, BatchOK, Batch, FreeBatch
  <2>2. \A d \in Dump \ Full, r \in Record : ~ComesTo(batch[b], d, r)
    BY <2>1 DEF ComesTo
  <2>3. CASE CloseRemaining(b)
    BY <2>2, <2>3 DEF CloseRemaining, ChainOK, FreeBatch
  <2>4. CASE IndexedRemaining(b)
    <3> DEFINE x == [batch[b] EXCEPT !.step = "closing", !.obj = [NoObject EXCEPT !.base = row]]
    <3>1. batch' = [batch EXCEPT ![b] = x]
      BY <2>4 DEF IndexedRemaining, StaleInv, IInv, TypeOK
    <3>2. x.kind = "overall" /\ x.step = "closing"
      BY <1>1, <2>1 DEF Batch
    <3> HIDE DEF x
    <3>3. ChainOK(x)
      BY <3>2 DEF ChainOK
    <3> QED
      BY <2>2, <3>1, <3>3
  <2> QED
    BY <1>8, <2>3, <2>4
<1>9. CASE CrashJob(b)
  <2>1. batch' = [batch EXCEPT ![b] = Restarted(batch[b])]
    BY <1>9 DEF CrashJob
  <2>2. CASE batch[b].step = "closing"
    <3>1. Restarted(batch[b]).kind = "overall" /\ Restarted(batch[b]).step = "waiting"
      BY <2>2 DEF Restarted, OverallBatch, FreeBatch
    <3>2. ChainOK(Restarted(batch[b]))
      BY <3>1 DEF ChainOK
    <3>3. \A d \in Dump \ Full, r \in Record : ~ComesTo(batch[b], d, r)
      BY <2>2 DEF ComesTo
    <3> QED
      BY <2>1, <3>2, <3>3
  <2>3. CASE batch[b].step # "closing"
    <3> DEFINE x == Restarted(batch[b])
    <3>1. x.kind = batch[b].kind /\ x.step = "queued" /\ x.dump = batch[b].dump
          /\ x.parent = batch[b].parent /\ x.pending = batch[b].pending
      BY <1>1, <2>3 DEF Batch, Restarted
    <3>2. batch[b].step # "queued"
      BY <1>9 DEF CrashJob
    <3>3. batch' = [batch EXCEPT ![b] = x]
      BY <2>1
    <3> HIDE DEF x
    <3>4. ChainOK(x)
      BY <1>1, <3>1 DEF ChainOK
    <3>5. \A d \in Dump \ Full, r \in Record : ComesTo(batch[b], d, r) => ComesTo(x, d, r)
      BY <3>1, <3>2 DEF ComesTo
    <3> QED
      BY <3>3, <3>4, <3>5
  <2> QED
    BY <2>2, <2>3
<1> QED
  BY <1>5, <1>6, <1>7, <1>8, <1>9, <1>10

LEMMA RemainingDumpsKeepsStale ==
    ASSUME StaleInv, NEW b \in Bid, RemainingDumpsJob(b)
    PROVE  WorkflowsOnly' /\ StaleCovered'
<1>1. batch[b] \in Batch /\ ChainOK(batch[b]) /\ batch[b].kind = "overall"
  BY DEF StaleInv, IInv, TypeOK, WorkflowsOnly, RemainingDumpsJob
<1>2. \A c \in Caller : caller'[c].pc \notin {"save", "push"}
  BY DEF RemainingDumpsJob, StaleInv, WorkflowsOnly
<1>3. UNCHANGED <<created, attached, solr, indexed>>
  BY DEF RemainingDumpsJob
<1>4. \A d \in Dump \ Full, r \in Record : ~ComesTo(batch[b], d, r)
  BY <1>1 DEF ComesTo
<1>5. SUFFICES \E x : batch' = [batch EXCEPT ![b] = x] /\ ChainOK(x)
  BY <1>2, <1>3, <1>4, OneBatchKeepsStale
<1>6. CASE batch' = [batch EXCEPT ![b].step = "waiting"]
  <2> DEFINE x == [batch[b] EXCEPT !.step = "waiting"]
  <2>1. x.kind = "overall" /\ x.step = "waiting"
    BY <1>1 DEF Batch
  <2> HIDE DEF x
  <2>2. ChainOK(x)
    BY <2>1 DEF ChainOK
  <2>3. batch' = [batch EXCEPT ![b] = x]
    BY <1>6 DEF x
  <2> QED
    BY <2>2, <2>3
<1>7. ASSUME NEW n \in NextDump(row.last),
             batch' = [batch EXCEPT ![b].step = "save", ![b].obj = Loaded(row, n)]
      PROVE  \E x : batch' = [batch EXCEPT ![b] = x] /\ ChainOK(x)
  <2> DEFINE obj == Loaded(row, n)
             x == [batch[b] EXCEPT !.step = "save", !.obj = obj]
  <2>1. obj.next \in created
    BY NextDumpCreated DEF Loaded
  <2>2. batch' = [batch EXCEPT ![b] = x]
    BY <1>7 DEF StaleInv, IInv, TypeOK
  <2> HIDE DEF obj
  <2>3. x.kind = "overall" /\ x.obj = obj
    BY <1>1 DEF Batch
  <2> HIDE DEF x
  <2>4. ChainOK(x)
    BY <2>1, <2>3 DEF ChainOK
  <2> QED
    BY <2>2, <2>4
<1> QED
  BY <1>6, <1>7 DEF RemainingDumpsJob

\* The pushed batch takes over from the batch that pushed it.
LEMMA PushKeepsStale ==
    ASSUME StaleInv, NEW b \in Bid, JobPushNext(b)
    PROVE  WorkflowsOnly' /\ StaleCovered'
<1> DEFINE overall == IF batch[b].kind = "overall" THEN b ELSE batch[b].parent
           next == batch[b].obj.next
           new == DumpBatch(next, overall)
           old == [batch[b] EXCEPT !.step = "ack", !.obj = NoObject]
<1>1. batch[b] \in Batch /\ BatchOK(batch[b]) /\ ChainOK(batch[b]) /\ batch[b].step = "push"
  BY DEF StaleInv, IInv, TypeOK, BatchesOK, WellFormed, WorkflowsOnly, JobPushNext
<1>2. overall # NoBid /\ next \in created
  <2>1. batch[b].kind # "free"
    BY <1>1 DEF BatchOK, FreeBatch
  <2> QED
    BY <1>1, <2>1, BidAssumption DEF ChainOK, Batch
<1>3. /\ new.kind = "dump" /\ new.step = "queued" /\ new.parent = overall /\ new.dump = next
      /\ new.pending = attached[next]
  BY DEF DumpBatch, FreeBatch
<1>4. /\ old.kind = batch[b].kind /\ old.step = "ack" /\ old.parent = batch[b].parent
      /\ old.dump = batch[b].dump /\ old.pending = batch[b].pending
  BY <1>1 DEF Batch
<1>5. PICK n \in Bid : /\ batch[n].kind = "free"
                       /\ batch' = [batch EXCEPT ![b].step = "ack", ![b].obj = NoObject, ![n] = new]
  BY NewBidFree DEF JobPushNext
<1>6. b # n
  BY <1>1, <1>5 DEF BatchOK, FreeBatch
<1>7. batch'[n] = new /\ batch'[b] = old /\ \A c \in Bid : c # b /\ c # n => batch'[c] = batch[c]
  BY <1>5, <1>6 DEF StaleInv, IInv, TypeOK
<1> HIDE DEF new, old, overall
<1>8. UNCHANGED <<created, attached, solr, indexed, caller>>
  BY DEF JobPushNext
<1>9. ASSUME NEW c \in Bid PROVE ChainOK(batch'[c])
  <2>1. ChainOK(batch[c])
    BY DEF StaleInv, WorkflowsOnly
  <2>2. CASE c = n
    BY <1>2, <1>3, <1>7, <2>2 DEF ChainOK
  <2>3. CASE c = b
    BY <1>1, <1>4, <1>7, <2>3 DEF ChainOK
  <2>4. CASE c # n /\ c # b
    BY <1>7, <2>1, <2>4
  <2> QED
    BY <2>2, <2>3, <2>4
<1>10. WorkflowsOnly'
  BY <1>8, <1>9 DEF StaleInv, WorkflowsOnly, ChainOK
<1>11. ASSUME NEW d \in Dump \ Full, NEW r \in Record, Stale(d, r)'
       PROVE  \E c \in Bid : ComesTo(batch'[c], d, r)
  <2>1. Stale(d, r)
    BY <1>8, <1>11 DEF Stale
  <2>2. PICK c \in Bid : ComesTo(batch[c], d, r)
    BY <2>1 DEF StaleInv, StaleCovered
  <2>3. CASE c # b /\ c # n
    BY <1>7, <2>2, <2>3
  <2>4. c # n
    BY <1>5, <2>2 DEF ComesTo
  <2>5. CASE c = b
    <3>1. next = d \/ Start[next] < Start[d]
      BY <1>1, <2>2, <2>5 DEF ComesTo
    <3>2. r \in attached[d]
      BY <2>1 DEF StaleInv, WorkflowsOnly, Stale
    <3>3. ComesTo(new, d, r)
      BY <1>3, <3>1, <3>2 DEF ComesTo
    <3> QED
      BY <1>7, <3>3
  <2> QED
    BY <2>3, <2>4, <2>5
<1>12. StaleCovered'
  BY <1>11 DEF StaleCovered, ComesTo
<1> QED
  BY <1>10, <1>12

LEMMA StaleInvStep ==
    ASSUME StaleInv, "next" \notin Ops, DistinctStarts, VersionsGrow, [Next]_vars
    PROVE  StaleInv'
<1>1. IInv'
  BY NextInv DEF StaleInv
<1>2. ASSUME NEW d \in Dump, DumpStep(d) PROVE WorkflowsOnly' /\ StaleCovered'
  <2>1. UNCHANGED <<batch, solr, indexed, caller>> /\ created \subseteq created'
    BY <1>2 DEF DumpStep, CreateDump, AttachDumpFile
  <2>2. \A e \in Dump : attached[e] \subseteq attached'[e]
    BY <1>2 DEF DumpStep, CreateDump, AttachDumpFile, StaleInv, IInv, TypeOK
  <2>3. \A c \in Caller : caller'[c].pc \notin {"save", "push"}
    BY <2>1 DEF StaleInv, WorkflowsOnly
  <2> QED
    BY <2>1, <2>2, <2>3, DumpsAndCallersKeepStale
<1>3. ASSUME NEW c \in Caller, CallerStarts(c) \/ CallerContinues(c)
      PROVE  WorkflowsOnly' /\ StaleCovered'
  BY <1>3, CallerKeepsStale
<1>4. ASSUME NEW b \in Bid, NEW r \in Record, DumpFileJob(b, r) \/ CrashDumpFileJob(b, r)
      PROVE  WorkflowsOnly' /\ StaleCovered'
  BY <1>4, WriteKeepsStale DEF DumpFileJob, CrashDumpFileJob
<1>5. ASSUME NEW b \in Bid PROVE ~Finish(b)
  <2>1. BatchOK(batch[b]) /\ ChainOK(batch[b]) /\ batch[b] \in Batch
    BY DEF StaleInv, IInv, TypeOK, BatchesOK, WellFormed, WorkflowsOnly
  <2> QED
    BY <2>1 DEF BatchOK, ChainOK, Batch, FreeBatch, Finish
<1>6. ASSUME NEW b \in Bid, JobStep(b) \/ Crash(b) PROVE WorkflowsOnly' /\ StaleCovered'
  BY <1>4, <1>5, <1>6, RemainingDumpsKeepsStale, AdvanceKeepsStale, JobKeepsStale, PushKeepsStale
  DEF JobStep, Crash
<1>7. CASE UNCHANGED vars
  <2>1. \A c \in Caller : caller'[c].pc \notin {"save", "push"}
    BY <1>7 DEF StaleInv, WorkflowsOnly, vars
  <2> QED
    BY <1>1, <1>7, <2>1, DumpsAndCallersKeepStale DEF StaleInv, vars
<1> QED
  BY <1>1, <1>2, <1>3, <1>6, <1>7 DEF Next, StaleInv

\* While workflows are all that call the manager - overlapping, repeated after crashes, or
\* wiping to start again - no record is left in Solr older than an incremental dump that was
\* indexed: once every batch has finished, whatever a late job wrote over a newer version has
\* been written again.  It rests on starts that differ and versions that do not go back.
THEOREM WorkflowsConverge ==
    ASSUME "next" \notin Ops, DistinctStarts, VersionsGrow
    PROVE  Spec => []NoStaleRecord
<1>1. Init => StaleInv
  BY InitInv, StaleInvStarts DEF StaleInv
<1>2. StaleInv /\ [Next]_vars => StaleInv'
  BY StaleInvStep
<1>3. StaleInv => NoStaleRecord
  <2>1. SUFFICES ASSUME StaleInv, Quiet,
                        NEW d \in Dump \ Full, NEW r \in Record, <<d, r>> \in indexed
                 PROVE  solr[r] >= Version[d][r]
    BY DEF NoStaleRecord
  <2>2. \A b \in Bid : ~ComesTo(batch[b], d, r)
    BY <2>1 DEF Quiet, Free, Open, ComesTo
  <2>3. ~Stale(d, r)
    BY <2>1, <2>2 DEF StaleInv, StaleCovered
  <2>4. solr[r] \in Nat /\ Version[d][r] \in Nat
    BY VersionAssumption, <2>1 DEF StaleInv, IInv, TypeOK
  <2> QED
    BY <2>1, <2>3, <2>4 DEF Stale
<1> QED
  BY <1>1, <1>2, <1>3, PTL DEF Spec

---------------------------------------------------------------------------
(* The full dump is in Solr before anything else counts as done.           *)

\* No two full dumps have the same events.start: recent_full_dump would pick either.
DistinctFulls == \A d, e \in Full : Start[d] = Start[e] => d = e

\* The full dumps have all their files, and nobody wipes the collection.
FullsThere ==
    /\ Full \subseteq created
    /\ \A f \in Full : attached[f] = Contents[f]
    /\ \A c \in Caller : caller[c].pc \notin {"reset", "wipe"}

\* Every record of the recent full dump is in Solr.
FullIn == \A f \in RecentFullDump : \A r \in attached[f] : solr[r] # 0

\* An object read before any dump was completed, with the recent full dump ahead if any.
NothingDone(obj, at) ==
    /\ obj.base.last = NoDump /\ obj.last = NoDump
    /\ at \in {"save", "push"} => obj.next \in RecentFullDump

\* A batch of the first dump: what has left its pending files is in Solr.
LoadsFull(bt) ==
    bt.kind = "dump" =>
        /\ bt.step = "queued" /\ bt.dump \in RecentFullDump
        /\ \A r \in attached[bt.dump] \ bt.pending : solr[r] # 0

\* No dump is completed, and every batch of dump files loads the recent full dump.
Starting ==
    /\ row.last = NoDump
    /\ \A c \in Caller : NothingDone(caller[c].obj, caller[c].pc)
    /\ \A b \in Bid : NothingDone(batch[b].obj, batch[b].step) /\ LoadsFull(batch[b])

FullInv == IInv /\ FullsThere /\ (FullIn \/ Starting)

LEMMA FullInvStarts ==
    ASSUME Init, Full \subseteq Preloaded
    PROVE  FullsThere /\ Starting
<1>1. FullsThere
  BY DumpAssumption DEF Init, FullsThere
<1>2. Starting
  BY DEF Init, Starting, NothingDone, LoadsFull, FreeBatch, NoObject, EmptyRow
<1> QED
  BY <1>1, <1>2

\* The full dumps stay as they are and no record leaves Solr.
LEMMA FullsStay ==
    ASSUME FullInv, "reindex" \notin Ops, [Next]_vars
    PROVE  /\ FullsThere' /\ RecentFullDump' = RecentFullDump
           /\ \A f \in Full : attached'[f] = attached[f]
           /\ \A r \in Record : solr[r] # 0 => solr'[r] # 0
<1>1. IInv' /\ TypeOK /\ FullsThere
  BY NextInv DEF FullInv, IInv
<1>2. Full \subseteq created' /\ \A f \in Full : attached'[f] = attached[f]
  <2>1. CASE UNCHANGED <<created, attached>>
    BY <1>1, <2>1 DEF FullsThere
  <2>2. ASSUME NEW d \in Dump, CreateDump(d) PROVE <1>2
    BY <1>1, <2>2 DEF CreateDump, FullsThere
  <2>3. ASSUME NEW d \in Dump, NEW r \in Record, AttachDumpFile(d, r) PROVE <1>2
    <3>1. d \notin Full
      BY <1>1, <2>3 DEF AttachDumpFile, FullsThere
    <3>2. created' = created /\ \A f \in Full : attached'[f] = attached[f]
      BY <1>1, <2>3, <3>1, DumpAssumption DEF AttachDumpFile, TypeOK
    <3> QED
      BY <1>1, <3>2 DEF FullsThere
  <2>4. UNCHANGED <<created, attached>> \/ \E d \in Dump : DumpStep(d)
    BY DEF Next, vars, CallerStarts, CallerContinues, JobStep, Crash, CheckRemaining, CheckReindex,
       FindNext, EnqueueRemaining, ResetLastDump, Wipe, CallerSaveNext, CallerPushNext,
       RemainingDumpsJob, DumpFileJob, FindManager, OnSuccess, Advance, Finish, JobSaveNext, JobPushNext, Ack,
       IndexedRemaining, CloseRemaining, CrashJob, CrashDumpFileJob
  <2> QED
    BY <2>1, <2>2, <2>3, <2>4 DEF DumpStep
<1>3. \A c \in Caller : caller'[c].pc \notin {"reset", "wipe"}
  <2>1. CASE caller' = caller
    BY <1>1, <2>1 DEF FullsThere
  <2>2. ASSUME NEW c \in Caller, CallerStarts(c) \/ CallerContinues(c) PROVE <1>3
    <3>1. \A x \in Caller : x # c => caller'[x] = caller[x]
      BY <1>1, <2>2 DEF TypeOK, CallerStarts, CallerContinues, CheckRemaining, CheckReindex,
         FindNext, EnqueueRemaining, ResetLastDump, Wipe, CallerSaveNext, CallerPushNext
    <3>2. caller'[c].pc \notin {"reset", "wipe"}
      BY <1>1, <2>2 DEF FullsThere, TypeOK, CallerStarts, CallerContinues, CheckRemaining,
         CheckReindex, FindNext, EnqueueRemaining, ResetLastDump, Wipe, CallerSaveNext, CallerPushNext
    <3> QED
      BY <1>1, <3>1, <3>2 DEF FullsThere
  <2>3. caller' = caller \/ \E c \in Caller : CallerStarts(c) \/ CallerContinues(c)
    BY DEF Next, vars, DumpStep, CreateDump, AttachDumpFile, JobStep, Crash, RemainingDumpsJob,
       DumpFileJob, FindManager, OnSuccess, Advance, Finish, JobSaveNext, JobPushNext, Ack, IndexedRemaining,
       CloseRemaining, CrashJob, CrashDumpFileJob
  <2> QED
    BY <2>1, <2>2, <2>3
<1>4. FullsThere'
  BY <1>1, <1>2, <1>3 DEF FullsThere
<1>5. RecentFullDump' = RecentFullDump
  <2>1. created \cap Full = Full /\ created' \cap Full = Full
    BY <1>1, <1>2 DEF FullsThere
  <2> QED
    BY <2>1 DEF RecentFullDump, Latest
<1>6. \A r \in Record : solr[r] # 0 => solr'[r] # 0
  <2>1. CASE solr' = solr
    BY <2>1
  <2>2. ASSUME NEW b \in Bid, NEW r \in Record, DumpFileJob(b, r) \/ CrashDumpFileJob(b, r)
        PROVE  <1>6
    <3>1. batch[b] \in Batch /\ BatchOK(batch[b]) /\ r \in batch[b].pending
      BY <2>2 DEF FullInv, IInv, TypeOK, BatchesOK, WellFormed, DumpFileJob, CrashDumpFileJob
    <3>2. Version[batch[b].dump][r] # 0
      BY <3>1, VersionAssumption DEF BatchOK, Batch, FreeBatch
    <3> QED
      BY <1>1, <2>2, <3>2 DEF DumpFileJob, CrashDumpFileJob, TypeOK
  <2>3. \A c \in Caller : ~Wipe(c)
    BY <1>1 DEF FullsThere, Wipe
  <2>4. solr' = solr \/ \E b \in Bid, r \in Record : DumpFileJob(b, r) \/ CrashDumpFileJob(b, r)
    BY <2>3 DEF Next, vars, DumpStep, CreateDump, AttachDumpFile, JobStep, Crash, RemainingDumpsJob,
       FindManager, OnSuccess, Advance, Finish, JobSaveNext, JobPushNext, Ack, IndexedRemaining,
       CloseRemaining, CrashJob, CallerStarts, CallerContinues, CheckRemaining, CheckReindex,
       FindNext, EnqueueRemaining, ResetLastDump, CallerSaveNext, CallerPushNext
  <2> QED
    BY <2>1, <2>2, <2>4
<1> QED
  BY <1>2, <1>4, <1>5, <1>6

LEMMA FullInStays ==
    ASSUME FullInv, "reindex" \notin Ops, [Next]_vars, FullIn
    PROVE  FullIn'
<1>1. RecentFullDump \subseteq Full
  BY DEF RecentFullDump, Latest
<1>2. attached \in [Dump -> SUBSET Record] /\ Full \subseteq Dump
  BY DumpAssumption DEF FullInv, IInv, TypeOK
<1> QED
  BY <1>1, <1>2, FullsStay DEF FullIn

\* What a step may leave in a batch before any dump is completed.
Begins(bt) ==
    /\ NothingDone(bt.obj, bt.step)
    /\ bt.kind = "dump" =>
        /\ bt.step = "queued" /\ bt.dump \in RecentFullDump
        /\ \A r \in attached[bt.dump] \ bt.pending : solr'[r] # 0

\* Such a step keeps the batches it does not touch.
LEMMA StartingStays ==
    ASSUME FullInv, "reindex" \notin Ops, [Next]_vars, Starting, row'.last = NoDump,
           \A c \in Caller : caller'[c] = caller[c] \/ NothingDone(caller'[c].obj, caller'[c].pc),
           \A b \in Bid : batch'[b] = batch[b] \/ Begins(batch'[b])
    PROVE  Starting'
<1>1. /\ RecentFullDump' = RecentFullDump /\ RecentFullDump \subseteq Full
      /\ \A f \in Full : attached'[f] = attached[f]
      /\ \A r \in Record : solr[r] # 0 => solr'[r] # 0
      /\ attached \in [Dump -> SUBSET Record] /\ Full \subseteq Dump
  BY FullsStay, DumpAssumption DEF RecentFullDump, Latest, FullInv, IInv, TypeOK
<1>2. ASSUME NEW c \in Caller PROVE NothingDone(caller[c].obj, caller[c].pc)'
  <2>1. NothingDone(caller'[c].obj, caller'[c].pc)
    BY DEF Starting
  <2> QED
    BY <1>1, <2>1 DEF NothingDone
<1>3. ASSUME NEW b \in Bid PROVE NothingDone(batch[b].obj, batch[b].step)'
  <2>1. NothingDone(batch'[b].obj, batch'[b].step)
    BY DEF Starting, Begins
  <2> QED
    BY <1>1, <2>1 DEF NothingDone
<1>4. ASSUME NEW b \in Bid PROVE LoadsFull(batch[b])'
  <2>1. CASE Begins(batch'[b])
    BY <1>1, <2>1 DEF Begins, LoadsFull
  <2>2. CASE batch'[b] = batch[b]
    BY <1>1, <2>2 DEF Starting, LoadsFull
  <2> QED
    BY <2>1, <2>2
<1> QED
  BY <1>2, <1>3, <1>4 DEF Starting

\* Before any dump is completed the next one is the recent full dump, if there is one.
LEMMA NextIsFull ==
    ASSUME Starting, ~FullIn, NEW n \in NextDump(NoDump)
    PROVE  n[1] \in RecentFullDump /\ n[2] = NoDump
<1>1. RecentFullDump # {} /\ NoDump \notin Full
  BY DumpAssumption DEF FullIn
<1>2. NextDump(NoDump) = RecentFullDump \X {NoDump}
  BY <1>1 DEF NextDump
<1> QED
  BY <1>2

LEMMA CallerStarting ==
    ASSUME FullInv, "reindex" \notin Ops, Starting, ~FullIn, NEW c \in Caller,
           CallerStarts(c) \/ CallerContinues(c)
    PROVE  Starting'
<1>1. TypeOK /\ FullsThere /\ [Next]_vars /\ row.last = NoDump
  BY DEF FullInv, IInv, Next, Starting
<1>2. NothingDone(caller[c].obj, caller[c].pc) /\ caller[c].obj \in Object
  BY <1>1 DEF Starting, TypeOK
<1>3. ASSUME NEW n \in NextDump(row.last), NEW pc
      PROVE  NothingDone(Loaded(row, n), pc)
  BY <1>1, <1>3, NextIsFull DEF Loaded, NothingDone
<1>4. \A pc : NothingDone(NoObject, pc) \/ pc \in {"save", "push"}
  BY DEF NothingDone, NoObject, EmptyRow
<1>5. CASE CheckRemaining(c)
  <2>1. PICK n \in NextDump(row.last) :
            caller' = [caller EXCEPT ![c] = [pc |-> "enqueue", obj |-> Loaded(row, n)]]
    BY <1>5 DEF CheckRemaining
  <2>2. NothingDone(caller'[c].obj, caller'[c].pc) /\ \A x \in Caller \ {c} : caller'[x] = caller[x]
    BY <1>1, <1>3, <2>1 DEF TypeOK
  <2>3. row' = row /\ batch' = batch
    BY <1>5 DEF CheckRemaining
  <2> QED
    BY <1>1, <2>2, <2>3, StartingStays
<1>6. CASE FindNext(c)
  <2>1. PICK n \in NextDump(row.last) :
            caller' = [caller EXCEPT ![c] = [pc |-> "save", obj |-> Loaded(row, n)]]
    BY <1>6 DEF FindNext
  <2>2. NothingDone(caller'[c].obj, caller'[c].pc) /\ \A x \in Caller \ {c} : caller'[x] = caller[x]
    BY <1>1, <1>3, <2>1 DEF TypeOK
  <2>3. row' = row /\ batch' = batch
    BY <1>6 DEF FindNext
  <2> QED
    BY <1>1, <2>2, <2>3, StartingStays
<1>7. CASE EnqueueRemaining(c)
  <2>1. NewBid \in Bid /\ batch' = [batch EXCEPT ![NewBid] = OverallBatch]
        /\ caller' = [caller EXCEPT ![c] = [pc |-> "idle", obj |-> NoObject]]
    BY <1>7, NewBidFree DEF EnqueueRemaining
  <2>2. NothingDone(caller'[c].obj, caller'[c].pc) /\ \A x \in Caller \ {c} : caller'[x] = caller[x]
    BY <1>1, <1>4, <2>1 DEF TypeOK
  <2>3. /\ Begins(batch'[NewBid])
        /\ \A b \in Bid \ {NewBid} : batch'[b] = batch[b]
    BY <1>1, <2>1 DEF TypeOK, OverallBatch, FreeBatch, NoObject, EmptyRow, NothingDone, Begins
  <2>4. row'.last = NoDump
    BY <1>1, <1>2, <1>7 DEF EnqueueRemaining, Save, NothingDone, Object, Row
  <2> QED
    BY <1>1, <2>1, <2>2, <2>3, <2>4, StartingStays
<1>8. CASE CallerSaveNext(c)
  <2>1. NothingDone(caller'[c].obj, caller'[c].pc) /\ \A x \in Caller \ {c} : caller'[x] = caller[x]
    BY <1>1, <1>2, <1>8 DEF TypeOK, CallerSaveNext, NothingDone
  <2>2. row'.last = NoDump /\ batch' = batch
    BY <1>1, <1>2, <1>8 DEF CallerSaveNext, SavedNext, Save, NothingDone
  <2> QED
    BY <1>1, <2>1, <2>2, StartingStays
<1>9. CASE CallerPushNext(c)
  <2>1. PICK n \in Bid : batch' = [batch EXCEPT ![n] = DumpBatch(caller[c].obj.next, NoBid)]
    BY <1>9, NewBidFree DEF CallerPushNext
  <2>2. NothingDone(caller'[c].obj, caller'[c].pc) /\ \A x \in Caller \ {c} : caller'[x] = caller[x]
    BY <1>1, <1>4, <1>9 DEF TypeOK, CallerPushNext
  <2>3. caller[c].obj.next \in RecentFullDump
    BY <1>2, <1>9 DEF CallerPushNext, NothingDone
  <2>4. /\ Begins(batch'[n])
        /\ \A b \in Bid \ {n} : batch'[b] = batch[b]
    BY <1>1, <2>1, <2>3 DEF TypeOK, DumpBatch, FreeBatch, NoObject, EmptyRow, NothingDone, Begins
  <2>5. row' = row
    BY <1>9 DEF CallerPushNext
  <2> QED
    BY <1>1, <2>2, <2>4, <2>5, StartingStays
<1> QED
  BY <1>1, <1>5, <1>6, <1>7, <1>8, <1>9
  DEF CallerStarts, CallerContinues, CheckReindex, ResetLastDump, Wipe, FullsThere

\* The first dump that succeeds is the recent full dump, with all its files in Solr.
LEMMA FirstSuccess ==
    ASSUME FullInv, DistinctFulls, Starting, NEW b \in Bid, FindManager(b)
    PROVE  FullIn
<1>1. batch[b].dump \in RecentFullDump /\ \A r \in attached[batch[b].dump] : solr[r] # 0
  BY DEF Starting, LoadsFull, FindManager
<1>2. \A f \in RecentFullDump : f = batch[b].dump
  <2>1. ASSUME NEW f \in RecentFullDump PROVE Start[f] = Start[batch[b].dump]
    <3>1. /\ f \in Full /\ batch[b].dump \in Full
          /\ Start[f] <= Start[batch[b].dump] /\ Start[batch[b].dump] <= Start[f]
      BY <1>1 DEF RecentFullDump, Latest
    <3> QED
      BY <3>1, DumpAssumption
  <2> QED
    BY <1>1, <2>1 DEF DistinctFulls, RecentFullDump, Latest
<1> QED
  BY <1>1, <1>2 DEF FullIn

LEMMA JobStarting ==
    ASSUME FullInv, "reindex" \notin Ops, DistinctFulls, Starting, ~FullIn, NEW b \in Bid,
           JobStep(b) \/ Crash(b)
    PROVE  Starting'
<1>1. TypeOK /\ FullsThere /\ [Next]_vars /\ row.last = NoDump
  BY DEF FullInv, IInv, Next, Starting
<1>2. /\ batch[b] \in Batch /\ BatchOK(batch[b]) /\ NothingDone(batch[b].obj, batch[b].step)
      /\ LoadsFull(batch[b])
  BY <1>1 DEF FullInv, IInv, BatchesOK, WellFormed, TypeOK, Starting
<1>3. ASSUME NEW x, batch' = [batch EXCEPT ![b] = x], Begins(x), row'.last = NoDump,
             caller' = caller
      PROVE  Starting'
  <2>1. batch'[b] = x /\ \A c \in Bid \ {b} : batch'[c] = batch[c]
    BY <1>1, <1>3 DEF TypeOK
  <2> QED
    BY <1>1, <1>3, <2>1, StartingStays
<1>4. \A k \in {"waiting", "queued", "closing"} :
         Begins([OverallBatch EXCEPT !.step = k]) /\ Begins(FreeBatch)
  BY DEF Begins, NothingDone, OverallBatch, FreeBatch, NoObject, EmptyRow
<1>5. ~FindManager(b) /\ ~OnSuccess(b) /\ ~Advance(b) /\ ~Finish(b)
  <2>1. ~FindManager(b)
    BY FirstSuccess
  <2>2. batch[b].step \notin {"found", "advance"}
    BY <1>2 DEF LoadsFull, BatchOK, Batch, FreeBatch
  <2> QED
    BY <2>1, <2>2 DEF OnSuccess, Advance, Finish
<1>6. CASE RemainingDumpsJob(b)
  <2>1. batch[b].kind = "overall" /\ row' = row /\ caller' = caller
    BY <1>6 DEF RemainingDumpsJob
  <2>2. CASE batch' = [batch EXCEPT ![b].step = "waiting"]
    <3> DEFINE x == [batch[b] EXCEPT !.step = "waiting"]
    <3>1. batch' = [batch EXCEPT ![b] = x]
      BY <2>2
    <3>2. x.kind = "overall" /\ x.step = "waiting" /\ x.obj = batch[b].obj
      BY <1>2, <2>1 DEF Batch
    <3> HIDE DEF x
    <3>3. Begins(x)
      BY <1>2, <3>2 DEF Begins, NothingDone
    <3> QED
      BY <1>1, <1>3, <2>1, <3>1, <3>3
  <2>3. ASSUME NEW n \in NextDump(row.last),
               batch' = [batch EXCEPT ![b].step = "save", ![b].obj = Loaded(row, n)]
        PROVE  Starting'
    <3> DEFINE obj == Loaded(row, n)
               x == [batch[b] EXCEPT !.step = "save", !.obj = obj]
    <3>1. batch' = [batch EXCEPT ![b] = x]
      BY <1>1, <2>3 DEF TypeOK
    <3>2. NothingDone(obj, "save")
      BY <1>1, NextIsFull DEF Loaded, NothingDone
    <3> HIDE DEF obj
    <3>3. x.kind = "overall" /\ x.step = "save" /\ x.obj = obj
      BY <1>2, <2>1 DEF Batch
    <3> HIDE DEF x
    <3>4. Begins(x)
      BY <3>2, <3>3 DEF Begins
    <3> QED
      BY <1>1, <1>3, <2>1, <3>1, <3>4
  <2> QED
    BY <1>6, <2>2, <2>3 DEF RemainingDumpsJob
<1>7. ASSUME NEW r \in Record, DumpFileJob(b, r) \/ CrashDumpFileJob(b, r)
      PROVE  Starting'
  <2>1. r \in batch[b].pending /\ row' = row /\ caller' = caller
    BY <1>7 DEF DumpFileJob, CrashDumpFileJob
  <2>2. batch[b].kind = "dump" /\ batch[b].step = "queued" /\ batch[b].dump \in RecentFullDump
        /\ batch[b].dump \in Dump
    BY <1>2, <2>1 DEF BatchOK, Batch, FreeBatch, LoadsFull
  <2>3. solr' = [solr EXCEPT ![r] = Version[batch[b].dump][r]]
    BY <1>7 DEF DumpFileJob, CrashDumpFileJob
  <2>4. solr'[r] # 0
    BY <1>1, <2>2, <2>3, VersionAssumption DEF TypeOK
  <2>5. \A s \in attached[batch[b].dump] \ batch[b].pending : solr'[s] # 0
    <3>1. ASSUME NEW s \in attached[batch[b].dump] \ batch[b].pending PROVE solr'[s] # 0
      <4>1. s \in Record /\ s # r /\ solr[s] # 0
        BY <1>1, <1>2, <2>1, <2>2 DEF LoadsFull, TypeOK
      <4> QED
        BY <1>1, <2>3, <4>1 DEF TypeOK
    <3> QED
      BY <3>1
  <2>6. CASE CrashDumpFileJob(b, r)
    BY <1>1, <2>1, <2>6, StartingStays DEF CrashDumpFileJob
  <2>7. CASE DumpFileJob(b, r)
    <3> DEFINE x == [batch[b] EXCEPT !.pending = batch[b].pending \ {r}]
    <3>1. batch' = [batch EXCEPT ![b] = x]
      BY <2>7 DEF DumpFileJob
    <3>2. x.kind = "dump" /\ x.step = "queued" /\ x.obj = batch[b].obj /\ x.dump = batch[b].dump
          /\ x.pending = batch[b].pending \ {r}
      BY <1>2, <2>2 DEF Batch
    <3> HIDE DEF x
    <3>3. Begins(x)
      BY <1>2, <2>2, <2>4, <2>5, <3>2 DEF Begins, NothingDone
    <3> QED
      BY <1>1, <1>3, <2>1, <3>1, <3>3
  <2> QED
    BY <1>7, <2>6, <2>7
<1>8. CASE JobSaveNext(b)
  <2> DEFINE x == [batch[b] EXCEPT !.step = "push"]
  <2>1. batch' = [batch EXCEPT ![b] = x] /\ caller' = caller
    BY <1>8 DEF JobSaveNext
  <2>2. batch[b].step = "save" /\ batch[b].kind # "dump"
    BY <1>2, <1>8 DEF JobSaveNext, LoadsFull
  <2>3. x.kind = batch[b].kind /\ x.step = "push" /\ x.obj = batch[b].obj
    BY <1>2 DEF Batch
  <2> HIDE DEF x
  <2>4. Begins(x)
    BY <1>2, <2>2, <2>3 DEF Begins, NothingDone
  <2>5. row'.last = NoDump
    BY <1>1, <1>2, <1>8 DEF JobSaveNext, SavedNext, Save, NothingDone
  <2> QED
    BY <1>3, <2>1, <2>4, <2>5
<1>9. CASE JobPushNext(b)
  <2> DEFINE overall == IF batch[b].kind = "overall" THEN b ELSE batch[b].parent
             new == DumpBatch(batch[b].obj.next, overall)
             old == [batch[b] EXCEPT !.step = "ack", !.obj = NoObject]
  <2>1. batch[b].step = "push" /\ batch[b].kind # "free" /\ batch[b].kind # "dump"
    BY <1>2, <1>9 DEF JobPushNext, BatchOK, FreeBatch, LoadsFull
  <2>2. PICK n \in Bid : /\ batch[n].kind = "free"
                         /\ batch' = [batch EXCEPT ![b].step = "ack", ![b].obj = NoObject, ![n] = new]
    BY <1>9, NewBidFree DEF JobPushNext
  <2>3. batch'[n] = new /\ batch'[b] = old /\ \A c \in Bid : c # b /\ c # n => batch'[c] = batch[c]
    BY <1>1, <2>1, <2>2 DEF TypeOK
  <2>4. batch[b].obj.next \in RecentFullDump
    BY <1>2, <2>1 DEF NothingDone
  <2>5. Begins(new)
    BY <2>4 DEF Begins, DumpBatch, FreeBatch, NothingDone, NoObject, EmptyRow
  <2>6. old.kind = batch[b].kind /\ old.step = "ack" /\ old.obj = NoObject
    BY <1>2 DEF Batch
  <2> HIDE DEF new, old
  <2>7. Begins(old)
    BY <2>1, <2>6 DEF Begins, NothingDone, NoObject, EmptyRow
  <2>8. row' = row /\ caller' = caller
    BY <1>9 DEF JobPushNext
  <2> QED
    BY <1>1, <2>3, <2>5, <2>7, <2>8, StartingStays
<1>10. CASE Ack(b)
  BY <1>1, <1>3, <1>4, <1>10 DEF Ack
<1>11. CASE IndexedRemaining(b)
  <2> DEFINE obj == [NoObject EXCEPT !.base = row]
             x == [batch[b] EXCEPT !.step = "closing", !.obj = obj]
  <2>1. batch' = [batch EXCEPT ![b] = x] /\ row' = row /\ caller' = caller
    BY <1>1, <1>11 DEF IndexedRemaining, TypeOK
  <2>2. obj.base = row /\ obj.last = NoDump
    BY DEF NoObject
  <2> HIDE DEF obj
  <2>3. x.kind = batch[b].kind /\ x.step = "closing" /\ x.obj = obj /\ batch[b].kind = "overall"
    BY <1>2, <1>11 DEF Batch, IndexedRemaining
  <2> HIDE DEF x
  <2>4. Begins(x)
    BY <1>1, <2>2, <2>3 DEF Begins, NothingDone
  <2> QED
    BY <1>1, <1>3, <2>1, <2>4
<1>12. CASE CloseRemaining(b)
  <2>1. row'.last = NoDump
    BY <1>1, <1>2, <1>12 DEF CloseRemaining, Save, NothingDone, Batch, Object, Row
  <2> QED
    BY <1>3, <1>4, <1>12, <2>1 DEF CloseRemaining
<1>13. CASE CrashJob(b)
  <2>1. batch' = [batch EXCEPT ![b] = Restarted(batch[b])] /\ row' = row /\ caller' = caller
        /\ batch[b].step # "queued"
    BY <1>13 DEF CrashJob
  <2>2. batch[b].kind # "dump"
    BY <1>2, <2>1 DEF LoadsFull
  <2>3. Begins(Restarted(batch[b]))
    <3>1. CASE batch[b].step = "closing"
      BY <1>4, <3>1 DEF Restarted
    <3>2. CASE batch[b].step # "closing"
      <4> DEFINE x == Restarted(batch[b])
      <4>1. x.kind = batch[b].kind /\ x.step = "queued" /\ x.obj = NoObject
        BY <1>2, <3>2 DEF Restarted, Batch
      <4> HIDE DEF x
      <4>2. Begins(x)
        BY <2>2, <4>1 DEF Begins, NothingDone, NoObject, EmptyRow
      <4> QED
        BY <4>2 DEF x
    <3> QED
      BY <3>1, <3>2
  <2> QED
    BY <1>1, <1>3, <2>1, <2>3
<1> QED
  BY <1>5, <1>6, <1>7, <1>8, <1>9, <1>10, <1>11, <1>12, <1>13 DEF JobStep, Crash

LEMMA FullInvStep ==
    ASSUME FullInv, "reindex" \notin Ops, DistinctFulls, [Next]_vars
    PROVE  FullInv'
<1>1. IInv' /\ FullsThere'
  BY NextInv, FullsStay DEF FullInv
<1>2. CASE FullIn
  BY <1>1, <1>2, FullInStays DEF FullInv
<1>3. CASE Starting /\ ~FullIn
  <2>1. ASSUME UNCHANGED <<row, batch, caller>> PROVE Starting'
    BY <1>3, <2>1, StartingStays DEF Starting
  <2>2. ASSUME NEW d \in Dump, DumpStep(d) PROVE Starting'
    BY <2>1, <2>2 DEF DumpStep, CreateDump, AttachDumpFile
  <2>3. ASSUME NEW c \in Caller, CallerStarts(c) \/ CallerContinues(c) PROVE Starting'
    BY <1>3, <2>3, CallerStarting
  <2>4. ASSUME NEW b \in Bid, JobStep(b) \/ Crash(b) PROVE Starting'
    BY <1>3, <2>4, JobStarting
  <2>5. ASSUME UNCHANGED vars PROVE Starting'
    BY <2>1, <2>5 DEF vars
  <2> QED
    BY <1>1, <2>2, <2>3, <2>4, <2>5 DEF Next, FullInv
<1> QED
  BY <1>2, <1>3 DEF FullInv

\* The manager does not claim a dump before the full dump is in: with the full dumps imported
\* and nobody wiping the collection, last_dump_completed is set only once every record of the
\* recent full dump is in Solr, whatever workflows overlap, are repeated or are pushed by hand.
THEOREM FullDumpFirst ==
    ASSUME "reindex" \notin Ops, Full \subseteq Preloaded, DistinctFulls
    PROVE  Spec => []FullDumpIsIn
<1>1. Init => FullInv
  BY InitInv, FullInvStarts DEF FullInv
<1>2. FullInv /\ [Next]_vars => FullInv'
  BY FullInvStep
<1>3. FullInv => FullDumpIsIn
  BY DEF FullInv, FullIn, Starting, FullDumpIsIn
<1> QED
  BY <1>1, <1>2, <1>3, PTL DEF Spec

=============================================================================
