----------------------------- MODULE GeoUpdate -----------------------------
(***************************************************************************)
(* GeoDatabase (src/services/geoip.py): geo.db, the table of located       *)
(* hosts, and the update that downloads the shared dataset to the staging  *)
(* directory tmp/, checks it and merges it.  Updates are asked for by the  *)
(* start of the application, by the dashboards' hourly timers and by a     *)
(* button; meanwhile the lookup thread saves what ip-api.com answers.  The *)
(* process may be killed, and an operator may remove geo.db.               *)
(***************************************************************************)
EXTENDS Integers, FiniteSets

CONSTANTS
  Updaters,    \* the threads that run update
  Hosts,       \* the hosts that may be located
  Datasets,    \* the datasets a download may yield: sets of hosts
  MayRemove,   \* whether the operator removes geo.db
  MaxCrashes   \* bound: how often the process is killed

ASSUME GeoUpdateAssumption ==
  /\ "free" \notin Updaters /\ IsFiniteSet(Updaters) /\ IsFiniteSet(Hosts)
  /\ Datasets \subseteq SUBSET Hosts
  /\ MayRemove \in BOOLEAN /\ MaxCrashes \in Nat

VARIABLES
  file,     \* geo.db: "missing", "bare" (a file without the table), "table"
  rows,     \* where each host's row comes from: "none", "dataset", "api"
  lock,     \* the holder of _update_lock, or "free"
  pc,       \* where each updater is
  staged,   \* each updater's staging file: "none", "partial" or "complete"
  remote,   \* the hosts in an updater's staging file
  before,   \* an updater's count of the rows before the merge
  added,    \* history: the entries the last merge reported as new
  inserted, \* history: the entries it inserted
  strays,   \* staging files that no thread owns
  running,  \* whether the process is up
  crashes   \* how often it was killed

dbVars     == <<file, rows>>
updateVars == <<lock, pc, staged, remote, before, added, inserted>>
vars == <<file, rows, lock, pc, staged, remote, before, added, inserted,
          strays, running, crashes>>

Located == {h \in Hosts : rows[h] # "none"}
Count   == Cardinality(Located)
NoRows  == [h \in Hosts |-> "none"]

-----------------------------------------------------------------------------
Init ==
  /\ file = "missing" /\ rows = NoRows
  /\ lock = "free" /\ pc = [u \in Updaters |-> "idle"]
  /\ staged = [u \in Updaters |-> "none"]
  /\ remote = [u \in Updaters |-> {}]
  /\ before = [u \in Updaters |-> 0]
  /\ added = 0 /\ inserted = 0
  /\ strays = 0 /\ running = FALSE /\ crashes = 0

\* initialize: the staging directory is cleared, the table created.
Initialize ==
  /\ ~running /\ running' = TRUE
  /\ strays' = 0
  /\ file' = "table"
  /\ UNCHANGED <<rows, updateVars, crashes>>

(***************************************************************************)
(* update.                                                                 *)
(***************************************************************************)

\* Mutant: the update waits for no other.
AlwaysFree == TRUE

\* acquire(blocking=False) succeeds; if not, "already in progress".
LockIsFree == lock = "free"

Begin(u) ==
  /\ running /\ pc[u] = "idle" /\ LockIsFree
  /\ lock' = u
  /\ pc' = [pc EXCEPT ![u] = "request"]
  /\ UNCHANGED <<dbVars, staged, remote, before, added, inserted, strays,
                 running, crashes>>

\* A status other than 200, a Content-Length too large, no answer at all.
RequestFails(u) ==
  /\ pc[u] = "request"
  /\ pc' = [pc EXCEPT ![u] = "finally"]
  /\ UNCHANGED <<dbVars, lock, staged, remote, before, added, inserted,
                 strays, running, crashes>>

\* NamedTemporaryFile(delete=False).
CreateStaged(u) ==
  /\ pc[u] = "request"
  /\ staged' = [staged EXCEPT ![u] = "partial"]
  /\ pc' = [pc EXCEPT ![u] = "download"]
  /\ UNCHANGED <<dbVars, lock, remote, before, added, inserted, strays,
                 running, crashes>>

\* Mutant: a download that broke is asked for again.
AskAgain == "request"

\* Whatever was raised is turned into the answer.
AfterBreak == "finally"

\* The stream breaks, exceeds the limit, or the disk is full.
DownloadFails(u) ==
  /\ pc[u] = "download"
  /\ pc' = [pc EXCEPT ![u] = AfterBreak]
  /\ UNCHANGED <<dbVars, lock, staged, remote, before, added, inserted,
                 strays, running, crashes>>

DownloadEnds(u) ==
  /\ pc[u] = "download"
  /\ staged' = [staged EXCEPT ![u] = "complete"]
  /\ \E d \in Datasets : remote' = [remote EXCEPT ![u] = d]
  /\ pc' = [pc EXCEPT ![u] = "check"]
  /\ UNCHANGED <<dbVars, lock, before, added, inserted, strays, running,
                 crashes>>

\* quick_check, the columns, and that there are rows at all.
CheckFails(u) ==
  /\ pc[u] = "check"
  /\ pc' = [pc EXCEPT ![u] = "finally"]
  /\ UNCHANGED <<dbVars, lock, staged, remote, before, added, inserted,
                 strays, running, crashes>>

\* self.path.exists() decides how the dataset gets in.
CheckSucceeds(u) ==
  /\ pc[u] = "check" /\ remote[u] # {}
  /\ pc' = [pc EXCEPT ![u] = IF file = "missing" THEN "replace" ELSE "count"]
  /\ UNCHANGED <<dbVars, lock, staged, remote, before, added, inserted,
                 strays, running, crashes>>

\* temporary_path.replace(self.path), whatever is there by now.
ReplaceFile(u) ==
  /\ pc[u] = "replace"
  /\ file' = "table"
  /\ rows' = [h \in Hosts |-> IF h \in remote[u] THEN "dataset" ELSE "none"]
  /\ staged' = [staged EXCEPT ![u] = "none"]
  /\ pc' = [pc EXCEPT ![u] = "finally"]
  /\ UNCHANGED <<lock, remote, before, added, inserted, strays, running,
                 crashes>>

\* The file cannot be moved; that too is turned into the answer.
ReplaceFails(u) ==
  /\ pc[u] = "replace"
  /\ pc' = [pc EXCEPT ![u] = "finally"]
  /\ UNCHANGED <<dbVars, lock, staged, remote, before, added, inserted,
                 strays, running, crashes>>

\* What sqlite3.connect leaves where geo.db should be.
Connected == IF file = "missing" THEN "bare" ELSE file

\* SELECT COUNT(*) outside a transaction; without the table it raises.
CountRows(u) ==
  /\ pc[u] = "count"
  /\ file' = Connected
  /\ IF file = "table"
       THEN /\ before' = [before EXCEPT ![u] = Count]
            /\ pc' = [pc EXCEPT ![u] = "merge"]
       ELSE /\ pc' = [pc EXCEPT ![u] = "finally"]
            /\ UNCHANGED before
  /\ UNCHANGED <<rows, lock, staged, remote, added, inserted, strays, running,
                 crashes>>

\* Mutant: rows of the dataset replace those already there.
InsertOrReplace(d) ==
  [h \in Hosts |-> IF h \in d THEN "dataset" ELSE rows[h]]

\* INSERT OR IGNORE.
Merged(d) ==
  [h \in Hosts |-> IF h \in d /\ rows[h] = "none" THEN "dataset" ELSE rows[h]]

\* Mutant: the total is counted before the rows are inserted.
TotalTooEarly(d) == Count

\* The total counted in the transaction that inserted the rows.
Total(d) == Cardinality({h \in Hosts : Merged(d)[h] # "none"})

MergeRows(u) ==
  /\ pc[u] = "merge"
  /\ rows' = Merged(remote[u])
  /\ added' = Total(remote[u]) - before[u]
  /\ inserted' = Cardinality(remote[u] \ Located)
  /\ pc' = [pc EXCEPT ![u] = "finally"]
  /\ UNCHANGED <<file, lock, staged, remote, before, strays, running, crashes>>

\* The database stays locked for longer than the timeout, or the disk is full.
MergeFails(u) ==
  /\ pc[u] = "merge"
  /\ pc' = [pc EXCEPT ![u] = "finally"]
  /\ UNCHANGED <<dbVars, lock, staged, remote, before, added, inserted,
                 strays, running, crashes>>

\* Mutant: only a download that was checked is removed.
UnlinkComplete(u) == IF staged[u] = "complete"
                     THEN [staged EXCEPT ![u] = "none"] ELSE staged

\* temporary_path.unlink(missing_ok=True)
Unlinked(u) == [staged EXCEPT ![u] = "none"]

\* The finally clause, first line: the staging file, if there is one.
Unlink(u) ==
  /\ pc[u] = "finally"
  /\ staged' = Unlinked(u)
  /\ pc' = [pc EXCEPT ![u] = "release"]
  /\ UNCHANGED <<dbVars, lock, remote, before, added, inserted, strays,
                 running, crashes>>

\* The thread has left update; its locals are gone.
Left(u) ==
  /\ pc' = [pc EXCEPT ![u] = "idle"]
  /\ remote' = [remote EXCEPT ![u] = {}]
  /\ before' = [before EXCEPT ![u] = 0]

\* Unlinking raises (an OSError): the exception leaves the finally clause,
\* and the release is never reached.
UnlinkFails(u) ==
  /\ pc[u] = "finally" /\ staged[u] # "none"
  /\ Left(u)
  /\ UNCHANGED <<dbVars, lock, staged, added, inserted, strays, running,
                 crashes>>

\* Mutant: an update that downloaded nothing returns without releasing.
ReleaseIfDownloaded(u) == IF remote[u] = {} THEN lock ELSE "free"

\* _update_lock.release()
Released(u) == "free"

\* The finally clause, second line, and the answer.
Release(u) ==
  /\ pc[u] = "release"
  /\ lock' = Released(u)
  /\ Left(u)
  /\ UNCHANGED <<dbVars, staged, added, inserted, strays, running, crashes>>

Update(u) == \/ RequestFails(u) \/ CreateStaged(u) \/ DownloadFails(u)
             \/ DownloadEnds(u) \/ CheckFails(u) \/ CheckSucceeds(u)
             \/ ReplaceFile(u) \/ ReplaceFails(u) \/ CountRows(u)
             \/ MergeRows(u) \/ MergeFails(u)
             \/ Unlink(u) \/ UnlinkFails(u) \/ Release(u)

(***************************************************************************)
(* The lookup thread, the operator and the end of the process.             *)
(***************************************************************************)

\* Mutant: the missing table goes unnoticed.
SavedAnyway(h) == [rows EXCEPT ![h] = "api"]

\* An upsert; without the table it is reported, and nothing is saved.
Saved(h) == IF file = "table" THEN [rows EXCEPT ![h] = "api"] ELSE rows

\* save; one that finds the database locked too long does nothing.
Save(h) ==
  /\ running
  /\ file' = Connected
  /\ rows' = Saved(h)
  /\ UNCHANGED <<updateVars, strays, running, crashes>>

\* The operator removes geo.db, but not under an open connection.
Remove ==
  /\ MayRemove /\ \A u \in Updaters : pc[u] # "merge"
  /\ file' = "missing" /\ rows' = NoRows
  /\ UNCHANGED <<updateVars, strays, running, crashes>>

Kill ==
  /\ running /\ crashes < MaxCrashes
  /\ running' = FALSE /\ crashes' = crashes + 1
  /\ strays' = strays + Cardinality({u \in Updaters : staged[u] # "none"})
  /\ lock' = "free" /\ pc' = [u \in Updaters |-> "idle"]
  /\ staged' = [u \in Updaters |-> "none"]
  /\ remote' = [u \in Updaters |-> {}]
  /\ before' = [u \in Updaters |-> 0]
  /\ UNCHANGED <<dbVars, added, inserted>>

Next == \/ Initialize \/ Remove \/ Kill
        \/ \E h \in Hosts : Save(h)
        \/ \E u \in Updaters : Begin(u) \/ Update(u)

Spec == Init /\ [][Next]_vars

\* The request has a timeout and the download a limit: an update goes on.
FairSpec == Spec /\ \A u \in Updaters : WF_vars(Update(u))

-----------------------------------------------------------------------------
(***************************************************************************)
(* Properties.                                                             *)
(***************************************************************************)
TypeOK ==
  /\ file \in {"missing", "bare", "table"}
  /\ rows \in [Hosts -> {"none", "dataset", "api"}]
  /\ lock \in Updaters \cup {"free"}
  /\ pc \in [Updaters -> {"idle", "request", "download", "check", "replace",
                          "count", "merge", "finally", "release"}]
  /\ staged \in [Updaters -> {"none", "partial", "complete"}]
  /\ remote \in [Updaters -> SUBSET Hosts]
  /\ before \in [Updaters -> Nat]
  /\ added \in Int /\ inserted \in Nat
  /\ strays \in Nat /\ running \in BOOLEAN /\ crashes \in Nat
  /\ file # "table" => rows = NoRows

\* While an update is at work it holds the lock.  The lock outlives its update
\* only together with the staging file that could not be unlinked: every other
\* end of an update, however early, gives it back, since otherwise all later
\* updates would be refused.
LockIsHeldByUpdate ==
  \A u \in Updaters :
    /\ pc[u] # "idle" => lock = u
    /\ lock = u /\ pc[u] = "idle" => staged[u] # "none"

\* The staging directory of a running application holds one file at most, that
\* of the update that has the lock, whatever the process left behind when it
\* was killed and whichever file could not be unlinked.
StagingIsTidy ==
  running => strays = 0 /\ \A u \in Updaters : staged[u] # "none" => lock = u

\* A row is lost, or replaced by the dataset's, only with the whole file:
\* what ip-api.com answered is newer than the dataset.
RowsAreKept ==
  [][\A h \in Hosts :
       /\ rows[h] = "api" /\ rows'[h] # "api" => file' = "missing"
       /\ rows[h] = "dataset" /\ rows'[h] = "none" => file' = "missing"]_vars

\* "Already up to date" is said only when nothing was inserted.  The converse
\* is not so: rows the lookup thread saves between the count and the merge are
\* counted among the "+N new entries".
UpToDateMeansNothingNew == added = 0 => inserted = 0

\* Every update ends.
UpdateEnds == \A u \in Updaters : pc[u] # "idle" ~> pc[u] = "idle"
=============================================================================
