-------------------------- MODULE GeoUpdateProofs --------------------------
(***************************************************************************)
(* Theorems about GeoUpdate, for any number of updaters, hosts, datasets   *)
(* and kills of the process.                                               *)
(***************************************************************************)
EXTENDS GeoUpdate, FiniteSetTheorems, TLAPS

USE DEF vars, updateVars, dbVars

-----------------------------------------------------------------------------
(***************************************************************************)
(* Types, and that a merge finds its table: geo.db is not removed under    *)
(* the connection that counted its rows.                                   *)
(***************************************************************************)
TypeInv ==
  /\ TypeOK
  /\ \A u \in Updaters : pc[u] = "merge" => file = "table"

LEMMA InitType == Init => TypeInv
<1> SUFFICES ASSUME Init PROVE TypeInv
  OBVIOUS
<1>1. /\ rows \in [Hosts -> {"none", "dataset", "api"}]
      /\ staged \in [Updaters -> {"none", "partial", "complete"}]
      /\ remote \in [Updaters -> SUBSET Hosts]
      /\ before \in [Updaters -> Nat]
  BY DEF Init, NoRows
<1>2. /\ pc = [u \in Updaters |-> "idle"]
      /\ rows = NoRows
  BY DEF Init
<1>3. /\ file \in {"missing", "bare", "table"}
      /\ lock \in Updaters \cup {"free"}
      /\ added \in Int /\ inserted \in Nat
      /\ strays \in Nat /\ crashes \in Nat
  BY DEF Init
<1>4. running \in BOOLEAN
  BY DEF Init
<1> QED BY <1>1, <1>2, <1>3, <1>4 DEF TypeInv, TypeOK

\* The counts are numbers, since the hosts are finitely many.
LEMMA CountsAreNumbers ==
  /\ Count \in Nat
  /\ \A d : Total(d) \in Nat
  /\ \A d \in SUBSET Hosts : Cardinality(d \ Located) \in Nat
<1>1. ASSUME NEW S \in SUBSET Hosts PROVE Cardinality(S) \in Nat
  BY FS_Subset, FS_CardinalityType, GeoUpdateAssumption
<1>2. Located \in SUBSET Hosts
  BY DEF Located
<1>3. \A d : {h \in Hosts : Merged(d)[h] # "none"} \in SUBSET Hosts
  OBVIOUS
<1> QED BY <1>1, <1>2, <1>3 DEF Count, Total

\* A step of an update keeps the types.
LEMMA UpdateType ==
  ASSUME TypeInv, NEW u \in Updaters, Update(u)
  PROVE  TypeInv'
<1> USE GeoUpdateAssumption DEF TypeOK, TypeInv
<1>1. CASE RequestFails(u) BY <1>1 DEF RequestFails
<1>2. CASE CreateStaged(u) BY <1>2 DEF CreateStaged
<1>3. CASE DownloadFails(u) BY <1>3 DEF DownloadFails, AfterBreak
<1>4. CASE DownloadEnds(u) BY <1>4 DEF DownloadEnds
<1>5. CASE CheckFails(u) BY <1>5 DEF CheckFails
<1>6. CASE CheckSucceeds(u) BY <1>6 DEF CheckSucceeds
<1>7. CASE ReplaceFile(u) BY <1>7 DEF ReplaceFile
<1>8. CASE CountRows(u)
  BY <1>8, CountsAreNumbers DEF CountRows, Connected
<1>9. CASE MergeRows(u)
  <2>1. file = "table" /\ remote[u] \in SUBSET Hosts /\ before[u] \in Nat
    BY <1>9 DEF MergeRows
  <2>2. added' \in Int /\ inserted' \in Nat
    <3> HIDE DEF TypeOK, TypeInv
    <3>1. /\ Total(remote[u]) \in Nat
          /\ Cardinality(remote[u] \ Located) \in Nat
      BY <2>1, CountsAreNumbers
    <3>2. /\ added' = Total(remote[u]) - before[u]
          /\ inserted' = Cardinality(remote[u] \ Located)
      BY <1>9 DEF MergeRows
    <3> QED BY <2>1, <3>1, <3>2
  <2>3. rows' \in [Hosts -> {"none", "dataset", "api"}]
    BY <1>9 DEF MergeRows, Merged
  <2> QED BY <1>9, <2>1, <2>2, <2>3 DEF MergeRows
<1>10. CASE MergeFails(u) BY <1>10 DEF MergeFails
<1>11. CASE Unlink(u) BY <1>11 DEF Unlink, Unlinked
<1>12. CASE UnlinkFails(u) BY <1>12 DEF UnlinkFails, Left
<1>13. CASE Release(u) BY <1>13 DEF Release, Left, Released
<1>14. CASE ReplaceFails(u) BY <1>14 DEF ReplaceFails
<1> QED BY <1>1, <1>2, <1>3, <1>4, <1>5, <1>6, <1>7, <1>8, <1>9, <1>10, <1>11,
           <1>12, <1>13, <1>14
        DEF Update

LEMMA NextType == TypeInv /\ [Next]_vars => TypeInv'
<1> SUFFICES ASSUME TypeInv, [Next]_vars PROVE TypeInv'
  OBVIOUS
<1> USE GeoUpdateAssumption DEF TypeOK, TypeInv
<1>1. CASE Initialize BY <1>1 DEF Initialize
<1>2. CASE Remove BY <1>2 DEF Remove, NoRows
<1>3. CASE Kill
  <2>1. Cardinality({u \in Updaters : staged[u] # "none"}) \in Nat
    BY FS_Subset, FS_CardinalityType,
       {u \in Updaters : staged[u] # "none"} \in SUBSET Updaters
  <2>2. strays' \in Nat /\ crashes' \in Nat
    BY <1>3, <2>1 DEF Kill
  <2> QED BY <1>3, <2>2 DEF Kill
<1>4. ASSUME NEW h \in Hosts, Save(h) PROVE TypeInv'
  BY <1>4 DEF Save, Saved, Connected
<1>5. ASSUME NEW u \in Updaters, Begin(u) PROVE TypeInv'
  BY <1>5 DEF Begin
<1>6. ASSUME NEW u \in Updaters, Update(u) PROVE TypeInv'
  BY <1>6, UpdateType
<1>7. CASE UNCHANGED vars BY <1>7
<1> QED BY <1>1, <1>2, <1>3, <1>4, <1>5, <1>6, <1>7 DEF Next

\* Every variable stays in its domain; there are no rows without a table.
THEOREM TypeCorrect == Spec => []TypeOK
<1>1. TypeInv => TypeOK BY DEF TypeInv
<1> QED BY <1>1, InitType, NextType, PTL DEF Spec

LEMMA TypeInvariant == Spec => []TypeInv
BY InitType, NextType, PTL DEF Spec

-----------------------------------------------------------------------------
(***************************************************************************)
(* The lock and the staging files: what is staged belongs to the thread    *)
(* that holds the lock, at work or not, and only a process that is up has  *)
(* any; at the release the file is gone.                                   *)
(***************************************************************************)
LockInv ==
  /\ LockIsHeldByUpdate
  /\ StagingIsTidy
  /\ \A u \in Updaters : staged[u] # "none" => lock = u /\ pc[u] # "release"
  /\ lock # "free" => running

LEMMA InitLock == Init => LockInv
BY GeoUpdateAssumption DEF Init, LockInv, LockIsHeldByUpdate, StagingIsTidy

LEMMA NextLock == TypeInv /\ LockInv /\ [Next]_vars => LockInv'
<1> SUFFICES ASSUME TypeInv, LockInv, [Next]_vars PROVE LockInv'
  OBVIOUS
<1> USE GeoUpdateAssumption
        DEF TypeInv, TypeOK, LockInv, LockIsHeldByUpdate, StagingIsTidy
<1>1. CASE Initialize BY <1>1 DEF Initialize
<1>2. CASE Remove BY <1>2 DEF Remove
<1>3. CASE Kill BY <1>3 DEF Kill
<1>4. ASSUME NEW h \in Hosts, Save(h) PROVE LockInv'
  BY <1>4 DEF Save
<1>5. ASSUME NEW u \in Updaters, Begin(u) PROVE LockInv'
  BY <1>5 DEF Begin, LockIsFree
<1>6. ASSUME NEW u \in Updaters, Update(u) PROVE LockInv'
  <2>1. CASE Unlink(u) BY <2>1 DEF Unlink, Unlinked
  <2>2. CASE UnlinkFails(u) BY <2>2 DEF UnlinkFails, Left
  <2>3. CASE Release(u) BY <2>3 DEF Release, Left, Released
  <2>4. ASSUME ~(Unlink(u) \/ UnlinkFails(u) \/ Release(u))
        PROVE  /\ pc[u] # "idle" /\ pc'[u] \notin {"idle", "release"}
               /\ \A v \in Updaters \ {u} :
                    pc'[v] = pc[v] /\ staged'[v] = staged[v]
               /\ UNCHANGED <<lock, strays, running>>
    BY <1>6, <2>4 DEF Update, RequestFails, CreateStaged, DownloadFails,
         AfterBreak, DownloadEnds, CheckFails, CheckSucceeds, ReplaceFile,
         ReplaceFails, CountRows, MergeRows, MergeFails
  <2>5. CASE ~(Unlink(u) \/ UnlinkFails(u) \/ Release(u)) BY <2>4, <2>5
  <2> QED BY <2>1, <2>2, <2>3, <2>5
<1>7. CASE UNCHANGED vars BY <1>7
<1> QED BY <1>1, <1>2, <1>3, <1>4, <1>5, <1>6, <1>7 DEF Next

LEMMA LockInvariant == Spec => []LockInv
BY InitLock, NextLock, TypeInvariant, PTL DEF Spec

\* An update holds the lock while it works, and whichever of its branches it
\* ends by, it has given the lock back, or its staging file is still there
\* because unlinking it raised.
THEOREM LockGivenBack == Spec => []LockIsHeldByUpdate
<1>1. LockInv => LockIsHeldByUpdate BY DEF LockInv
<1> QED BY <1>1, LockInvariant, PTL

\* The staging directory holds one file at most, that of the lock's holder.
THEOREM StagingStaysTidy == Spec => []StagingIsTidy
<1>1. LockInv => StagingIsTidy BY DEF LockInv
<1> QED BY <1>1, LockInvariant, PTL

-----------------------------------------------------------------------------
(***************************************************************************)
(* Rows.  geo.db is replaced by the download only if it was missing when   *)
(* the update looked, and until then a save can create no more than a file *)
(* without the table: the replacement destroys nothing.                    *)
(***************************************************************************)
ReplaceInv == \A u \in Updaters : pc[u] = "replace" => file # "table"

LEMMA InitReplace == Init => ReplaceInv
BY DEF Init, ReplaceInv

LEMMA NextReplace ==
  TypeInv /\ LockInv /\ ReplaceInv /\ [Next]_vars => ReplaceInv'
<1> SUFFICES ASSUME TypeInv, LockInv, ReplaceInv, [Next]_vars PROVE ReplaceInv'
  OBVIOUS
<1> USE GeoUpdateAssumption
        DEF TypeInv, TypeOK, LockInv, LockIsHeldByUpdate, ReplaceInv
<1>1. CASE Initialize BY <1>1 DEF Initialize
<1>2. CASE Remove BY <1>2 DEF Remove
<1>3. CASE Kill BY <1>3 DEF Kill
<1>4. ASSUME NEW h \in Hosts, Save(h) PROVE ReplaceInv'
  BY <1>4 DEF Save, Connected
<1>5. ASSUME NEW u \in Updaters, Begin(u) PROVE ReplaceInv'
  BY <1>5 DEF Begin
<1>6. ASSUME NEW u \in Updaters, Update(u) PROVE ReplaceInv'
  <2>1. CASE ReplaceFile(u)
    BY <2>1 DEF ReplaceFile
  <2>2. CASE CountRows(u)
    BY <2>2 DEF CountRows, Connected
  <2>3. CASE CheckSucceeds(u)
    BY <2>3 DEF CheckSucceeds
  <2>4. CASE ~(ReplaceFile(u) \/ CountRows(u) \/ CheckSucceeds(u))
    BY <1>6, <2>4 DEF Update, RequestFails, CreateStaged, DownloadFails,
       AfterBreak, DownloadEnds, CheckFails, MergeRows, MergeFails,
       ReplaceFails, Unlink, UnlinkFails, Release, Left
  <2> QED BY <2>1, <2>2, <2>3, <2>4
<1>7. CASE UNCHANGED vars BY <1>7
<1> QED BY <1>1, <1>2, <1>3, <1>4, <1>5, <1>6, <1>7 DEF Next

LEMMA ReplaceInvariant == Spec => []ReplaceInv
BY InitReplace, NextReplace, TypeInvariant, LockInvariant, PTL DEF Spec

\* What a step may do to the row of a host.
RowKept(h) ==
  /\ rows[h] = "api" /\ rows'[h] # "api" => file' = "missing"
  /\ rows[h] = "dataset" /\ rows'[h] = "none" => file' = "missing"

LEMMA StepKeepsRows ==
  ASSUME TypeInv, ReplaceInv, [Next]_vars, NEW h \in Hosts
  PROVE  RowKept(h)
<1> USE DEF TypeInv, TypeOK, RowKept
<1>1. CASE Initialize BY <1>1 DEF Initialize
<1>2. CASE Remove BY <1>2 DEF Remove
<1>3. CASE Kill BY <1>3 DEF Kill
<1>4. ASSUME NEW i \in Hosts, Save(i) PROVE RowKept(h)
  BY <1>4 DEF Save, Saved
<1>5. ASSUME NEW u \in Updaters, Begin(u) PROVE RowKept(h)
  BY <1>5 DEF Begin
<1>6. ASSUME NEW u \in Updaters, Update(u) PROVE RowKept(h)
  <2>1. CASE ReplaceFile(u)
    BY <2>1 DEF ReplaceFile, ReplaceInv, NoRows
  <2>2. CASE MergeRows(u)
    BY <2>2 DEF MergeRows, Merged
  <2>3. CASE ~(ReplaceFile(u) \/ MergeRows(u))
    BY <1>6, <2>3 DEF Update, RequestFails, CreateStaged, DownloadFails,
       DownloadEnds, CheckFails, CheckSucceeds, CountRows, MergeFails,
       ReplaceFails, Unlink, UnlinkFails, Release, Left
  <2> QED BY <2>1, <2>2, <2>3
<1>7. CASE UNCHANGED vars BY <1>7
<1> QED BY <1>1, <1>2, <1>3, <1>4, <1>5, <1>6, <1>7 DEF Next

\* No update overwrites or drops a row that geo.db holds.
THEOREM RowsSurviveUpdates == Spec => RowsAreKept
<1>1. TypeInv /\ ReplaceInv /\ [Next]_vars
        => [\A h \in Hosts :
              /\ rows[h] = "api" /\ rows'[h] # "api" => file' = "missing"
              /\ rows[h] = "dataset" /\ rows'[h] = "none"
                   => file' = "missing"]_vars
  BY StepKeepsRows DEF RowKept
<1> QED BY <1>1, TypeInvariant, ReplaceInvariant, PTL DEF Spec, RowsAreKept

-----------------------------------------------------------------------------
(***************************************************************************)
(* What an update reports.  Between its count and its merge rows are only  *)
(* added, so the count it took is at most the number of rows now: if the   *)
(* total equals it, the merge inserted nothing.                            *)
(***************************************************************************)
CountInv ==
  /\ UpToDateMeansNothingNew
  /\ \A u \in Updaters : pc[u] = "merge" => before[u] <= Count

LEMMA InitCount == Init => CountInv
BY DEF Init, CountInv, UpToDateMeansNothingNew

LEMMA LocatedGrows ==
  ASSUME TypeInv, ReplaceInv, [Next]_vars, file' # "missing"
  PROVE  Count <= Count' /\ Count \in Nat /\ Count' \in Nat
<1>1. Located' \in SUBSET Hosts
  BY DEF Located
<1>2. TypeInv'
  BY NextType
<1>3. Located \in SUBSET Located'
  BY StepKeepsRows, <1>2 DEF RowKept, Located, TypeInv, TypeOK
<1>4. IsFiniteSet(Located')
  BY <1>1, FS_Subset, GeoUpdateAssumption
<1>5. Cardinality(Located') \in Nat
  BY <1>4, FS_CardinalityType
<1> QED BY <1>3, <1>4, <1>5, FS_Subset, CountsAreNumbers DEF Count

LEMMA NextCount ==
  TypeInv /\ LockInv /\ ReplaceInv /\ CountInv /\ [Next]_vars => CountInv'
<1> SUFFICES ASSUME TypeInv, LockInv, ReplaceInv, CountInv, [Next]_vars
             PROVE  CountInv'
  OBVIOUS
<1>1. UpToDateMeansNothingNew'
  <2>1. CASE UNCHANGED <<added, inserted>>
    BY <2>1 DEF CountInv, UpToDateMeansNothingNew
  <2>2. ASSUME NEW u \in Updaters, MergeRows(u) PROVE UpToDateMeansNothingNew'
    <3> DEFINE After == {h \in Hosts : Merged(remote[u])[h] # "none"}
    <3>1. /\ pc[u] = "merge" /\ remote[u] \in SUBSET Hosts
          /\ before[u] \in Nat /\ before[u] <= Count
          /\ rows \in [Hosts -> {"none", "dataset", "api"}]
      BY <2>2 DEF MergeRows, TypeInv, TypeOK, CountInv
    <3>2. After = Located \cup remote[u]
      BY <3>1 DEF Located, Merged
    <3>3. IsFiniteSet(After) /\ Cardinality(After) \in Nat
      BY FS_Subset, FS_CardinalityType, GeoUpdateAssumption, After \in SUBSET Hosts
    <3>4. Located \in SUBSET After
      BY <3>2
    <3>5. /\ Count <= Cardinality(After) /\ Count \in Nat
          /\ Cardinality(After) = Count => After = Located
      BY <3>3, <3>4, FS_Subset, CountsAreNumbers DEF Count
    <3>6. added' = Cardinality(After) - before[u]
      BY <2>2 DEF MergeRows, Total
    <3> HIDE DEF After
    <3>7. added' = 0 => Cardinality(After) = Count
      BY <3>1, <3>3, <3>5, <3>6
    <3>8. added' = 0 => remote[u] \ Located = {}
      BY <3>2, <3>5, <3>7
    <3>9. added' = 0 => inserted' = 0
      BY <2>2, <3>8, FS_EmptySet DEF MergeRows
    <3> QED BY <3>9 DEF UpToDateMeansNothingNew
  <2> QED
    BY <2>1, <2>2 DEF Next, Update, Initialize, Remove, Kill, Save, Begin,
       RequestFails, CreateStaged, DownloadFails, DownloadEnds, CheckFails,
       CheckSucceeds, ReplaceFile, CountRows, MergeFails,
       ReplaceFails, Unlink, UnlinkFails, Release, Left
<1>2. ASSUME NEW u \in Updaters, pc'[u] = "merge"
      PROVE  before'[u] <= Count'
  <2>1. file' # "missing"
    BY <1>2, NextType DEF TypeInv
  <2>2. Count <= Count' /\ Count \in Nat /\ Count' \in Nat
    BY <2>1, LocatedGrows
  <2>3. CASE pc[u] = "merge" /\ before'[u] = before[u]
    <3>1. before[u] <= Count /\ before[u] \in Nat
      BY <2>3 DEF CountInv, TypeInv, TypeOK
    <3> QED BY <2>2, <2>3, <3>1
  <2>4. CASE CountRows(u)
    <3>1. before'[u] = Count
      BY <1>2, <2>4 DEF CountRows, TypeInv, TypeOK
    <3> QED BY <2>2, <3>1
  <2>5. CASE ~CountRows(u)
    <3>1. ASSUME NEW v \in Updaters, Update(v)
          PROVE  pc[u] = "merge" /\ before'[u] = before[u]
      BY <1>2, <2>5, <3>1 DEF Update, RequestFails, CreateStaged,
         DownloadFails, AfterBreak, DownloadEnds, CheckFails, CheckSucceeds,
         ReplaceFile, CountRows, MergeRows, MergeFails,
       ReplaceFails, Unlink, UnlinkFails, Release, Left, TypeInv, TypeOK
    <3>2. ASSUME ~\E v \in Updaters : Update(v)
          PROVE  pc[u] = "merge" /\ before'[u] = before[u]
      BY <1>2, <3>2 DEF Next, Initialize, Remove, Kill, Save, Begin, TypeInv,
         TypeOK
    <3> QED BY <2>3, <3>1, <3>2
  <2> QED BY <2>4, <2>5
<1> QED BY <1>1, <1>2 DEF CountInv

LEMMA CountInvariant == Spec => []CountInv
BY InitCount, NextCount, TypeInvariant, LockInvariant, ReplaceInvariant, PTL
   DEF Spec

\* An update that reports "already up to date" has inserted nothing.
THEOREM UpToDateIsTrue == Spec => []UpToDateMeansNothingNew
<1>1. CountInv => UpToDateMeansNothingNew BY DEF CountInv
<1> QED BY <1>1, CountInvariant, PTL
=============================================================================
