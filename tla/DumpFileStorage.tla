-------------------------- MODULE DumpFileStorage --------------------------
(***************************************************************************)
(* The file of a DumpFile on disk (app/models/dump_file.rb) and the        *)
(* Index::DumpFileJobs that index it, one for each Solr collection.  A     *)
(* SCSB file is kept zipped: a job unzips it in place, runs traject on it  *)
(* and zips it again; each time it deletes the old copy and then saves the *)
(* new path.  An Alma archive is only read.  A job that raises is tried    *)
(* again by Sidekiq, MaxRetries times; one whose process is killed is put  *)
(* back by super_fetch.  What traject does is left to FileIndexing.        *)
(***************************************************************************)
EXTENDS Naturals

CONSTANTS
    Job,            \* the jobs that index the file
    MaxRetries,     \* bound: the times Sidekiq tries a job again
    MaxKills        \* bound: the processes that die under a job

ASSUME StorageAssumption == MaxRetries \in Nat /\ MaxKills \in Nat

VARIABLES
    row,        \* the path the DumpFile's row holds: the plain file, its .gz, or a .tar.gz
    plain,      \* the plain file on disk: missing, torn or whole
    gz,         \* the zipped file
    job,        \* how far each job is
    tries,      \* how often it has been tried again
    kills,
    shared,     \* two jobs have worked on the file at the same time
    parted      \* a job ended after it had deleted a copy, before it had saved the new path

storageVars == <<row, plain, gz, job, tries, kills, shared, parted>>

Content == {"missing", "torn", "whole"}

Unzipping == {"unzip", "unzipping", "unzipped", "cut"}
Zipping   == {"zip", "zipping", "zipped", "removed"}
Reading   == {"open", "openTar", "traject"}
Running   == Unzipping \cup Zipping \cup Reading
Ended     == {"done", "dead"}

StorageTypeOK ==
    /\ row \in {"plain", "gz", "tar"}
    /\ plain \in Content /\ gz \in Content
    /\ job \in [Job -> Running \cup Ended \cup {"waiting"}]
    /\ tries \in [Job -> 0 .. MaxRetries]
    /\ kills \in 0 .. MaxKills
    /\ shared \in BOOLEAN /\ parted \in BOOLEAN

StorageInit ==
    /\ row \in {"gz", "tar"}
    /\ plain = "missing" /\ gz = "whole"
    /\ job = [j \in Job |-> "waiting"]
    /\ tries = [j \in Job |-> 0]
    /\ kills = 0 /\ shared = FALSE /\ parted = FALSE

---------------------------------------------------------------------------

\* Only j moves on, to pc.
Goes(j, pc) == job' = [job EXCEPT ![j] = pc] /\ UNCHANGED <<tries, kills, shared, parted>>

\* An exception ends the job: Sidekiq tries it again later, or gives it up.
Raises(j) ==
    /\ IF tries[j] < MaxRetries
       THEN /\ job' = [job EXCEPT ![j] = "waiting"]
            /\ tries' = [tries EXCEPT ![j] = @ + 1]
       ELSE job' = [job EXCEPT ![j] = "dead"] /\ UNCHANGED tries
    /\ UNCHANGED <<kills, shared>>

Fails(j) == Raises(j) /\ UNCHANGED parted

\* DumpFile.find, and the test of the path: only a .gz is unzipped.
Take(j) ==
    /\ job[j] = "waiting"
    /\ job' = [job EXCEPT ![j] = CASE row = "gz" -> "unzip" [] row = "plain" -> "open"
                                   [] row = "tar" -> "openTar"]
    /\ shared' = (shared \/ \E k \in Job : job[k] \in Running)
    /\ UNCHANGED <<row, plain, gz, tries, kills, parted>>

\* unzip opens the .gz, then the plain file, which it empties.
OpenPlain(j) ==
    /\ job[j] = "unzip"
    /\ IF gz = "missing" THEN Fails(j) /\ UNCHANGED plain
                         ELSE Goes(j, "unzipping") /\ plain' = "torn"
    /\ UNCHANGED <<row, gz>>

\* A .gz that breaks off raises.
WritePlain(j) ==
    /\ job[j] = "unzipping"
    /\ IF gz = "torn" THEN Fails(j) /\ UNCHANGED plain
       ELSE /\ Goes(j, "unzipped")
            /\ plain' = IF plain = "missing" THEN "missing" ELSE "whole"
    /\ UNCHANGED <<row, gz>>

DeleteGz(j) ==
    /\ job[j] = "unzipped"
    /\ IF gz = "missing" THEN Fails(j) ELSE Goes(j, "cut")
    /\ gz' = "missing"
    /\ UNCHANGED <<row, plain>>

SavePlain(j) ==
    /\ job[j] = "cut"
    /\ Goes(j, "open")
    /\ row' = "plain"
    /\ UNCHANGED <<plain, gz>>

\* File.open, and traject is started.
Open(j) ==
    /\ job[j] = "open"
    /\ IF plain = "missing" THEN Fails(j) ELSE Goes(j, "traject")
    /\ UNCHANGED <<row, plain, gz>>

\* tar_decompress_file: the entry is copied to a temporary file, which traject reads.
OpenTar(j) ==
    /\ job[j] = "openTar"
    /\ Goes(j, "traject")
    /\ UNCHANGED <<row, plain, gz>>

\* Traject has ended, and index_file raises if it ended fatally.
TrajectEnds(j, fatal) ==
    /\ job[j] = "traject"
    /\ IF fatal THEN Fails(j)
       ELSE Goes(j, IF row = "tar" THEN "done" ELSE "zip")
    /\ UNCHANGED <<row, plain, gz>>

\* Mutant: the plain file goes as soon as the .gz is open.
OpenGzDeletes(j) ==
    /\ job[j] = "zip"
    /\ gz' = "torn"
    /\ IF plain = "missing" THEN Fails(j) ELSE Goes(j, "zipping")
    /\ plain' = "missing"
    /\ UNCHANGED row

\* zip opens, and empties, the .gz before it opens the plain file.
OpenGz(j) ==
    /\ job[j] = "zip"
    /\ gz' = "torn"
    /\ IF plain = "missing" THEN Fails(j) ELSE Goes(j, "zipping")
    /\ UNCHANGED <<row, plain>>

WriteGz(j) ==
    /\ job[j] = "zipping"
    /\ gz' = IF gz = "missing" \/ plain = "missing" THEN gz ELSE plain
    /\ Goes(j, "zipped")
    /\ UNCHANGED <<row, plain>>

DeletePlain(j) ==
    /\ job[j] = "zipped"
    /\ IF plain = "missing" THEN Fails(j) ELSE Goes(j, "removed")
    /\ plain' = "missing"
    /\ UNCHANGED <<row, gz>>

\* Mutant: zip does not save the path it has changed.
SaveGzNot(j) ==
    /\ job[j] = "removed"
    /\ Goes(j, "done")
    /\ UNCHANGED <<row, plain, gz>>

SaveGz(j) ==
    /\ job[j] = "removed"
    /\ Goes(j, "done")
    /\ row' = "gz"
    /\ UNCHANGED <<plain, gz>>

\* The database is away when the new path is to be saved.
SaveFails(j) ==
    /\ job[j] \in {"cut", "removed"}
    /\ Raises(j) /\ parted' = TRUE
    /\ UNCHANGED <<row, plain, gz>>

\* The process dies; super_fetch puts the job back, and no retry is counted.
Kill(j) ==
    /\ kills < MaxKills
    /\ job[j] \in Running
    /\ job' = [job EXCEPT ![j] = "waiting"]
    /\ kills' = kills + 1
    /\ parted' = (parted \/ job[j] \in {"cut", "removed"})
    /\ UNCHANGED <<row, plain, gz, tries, shared>>

\* The steps of the job outside traject.
Step(j) ==
    \/ OpenPlain(j) \/ WritePlain(j) \/ DeleteGz(j) \/ SavePlain(j)
    \/ Open(j) \/ OpenTar(j)
    \/ OpenGz(j) \/ WriteGz(j) \/ DeletePlain(j) \/ SaveGz(j)
    \/ SaveFails(j)

---------------------------------------------------------------------------

\* As long as no two jobs have worked on a SCSB file at once, a whole copy of it is always
\* on disk, zipped or not, whatever raises and wherever a process is killed: neither zip nor
\* unzip deletes one copy before the other is written.
FileKept == ~shared => plain = "whole" \/ gz = "whole"

\* Between the jobs the row names a whole file, so the next job can read it: retries, errors
\* of traject and kills do not break that, only a kill between the deletion of the old copy
\* and the save of the new path, or an error of that save, does, and two jobs at once.
RowNamesFile ==
    ~shared /\ ~parted /\ (\A j \in Job : job[j] \notin Running) =>
        IF row = "plain" THEN plain = "whole" ELSE gz = "whole"

---------------------------------------------------------------------------
(* Why FileKept and RowNamesFile hold. *)

\* At most one job works.
Alone == \A j, k \in Job : job[j] \in Running /\ job[k] \in Running => j = k

\* Whatever the row names is whole, or it is gone and the other copy is whole.
RowOrOther ==
    IF row = "plain" THEN plain = "whole" \/ (plain = "missing" /\ gz = "whole")
                     ELSE gz = "whole" \/ (gz = "missing" /\ plain = "whole")

RowWhole == IF row = "plain" THEN plain = "whole" ELSE gz = "whole"

\* The row and the disk as a job at pc expects them.
Expects(pc) ==
    /\ pc = "unzip" => row = "gz"
    /\ pc = "unzipping" => row = "gz" /\ gz = "whole" /\ plain = "torn"
    /\ pc = "unzipped" => row = "gz" /\ gz = "whole" /\ plain = "whole"
    /\ pc = "cut" => row = "gz" /\ gz = "missing" /\ plain = "whole"
    /\ pc = "open" => row = "plain"
    /\ pc = "openTar" => row = "tar"
    /\ pc = "traject" => row = "tar" \/ (row = "plain" /\ plain = "whole")
    /\ pc = "zip" => row = "plain" /\ plain = "whole"
    /\ pc = "zipping" => row = "plain" /\ plain = "whole" /\ gz = "torn"
    /\ pc = "zipped" => row = "plain" /\ plain = "whole" /\ gz = "whole"
    /\ pc = "removed" => row = "plain" /\ plain = "missing" /\ gz = "whole"

\* Only the gap between the deletion and the save parts the row from its file.
PartedInTheGap ==
    ~parted => RowWhole \/ \E j \in Job : job[j] \in {"cut", "removed"}

StorageInv ==
    /\ StorageTypeOK
    /\ ~shared => Alone /\ RowOrOther /\ PartedInTheGap /\ \A j \in Job : Expects(job[j])
=============================================================================
