------------------------- MODULE PreferencesProofs -------------------------
(***************************************************************************)
(* Proofs about Preferences, for any set of togglers and any number of     *)
(* kills.  The switch is flipped outside the lock, so the file may lag     *)
(* behind memory; it catches up because every flip is followed by a save   *)
(* of the same thread that reads memory under the lock (SaveInv).          *)
(***************************************************************************)
EXTENDS Preferences, TLAPS

\* A file about to replace settings.json is complete.
CompleteInv == \A t \in Threads : pc[t] = "replace" => temp[t] \in Settings

TypeInv == TypeOK /\ CompleteInv

\* The lock is held by the thread that is inside save, and by no other.
MutexInv ==
  \A t \in Threads :
    pc[t] \in {"create", "dump", "replace", "release", "raised"} <=> lock = t

\* Only the start of the application runs the starter.
StartInv == pc[Starter] # "idle" => phase = "starting"

\* A save is coming that has not read the switch yet.
Coming == \E t \in Threads : pc[t] \in {"lock", "create", "dump"}

\* With no such save to come, what is about to be written is the switch, and
\* what is on disk is the switch unless a write is about to happen or raised.
SaveInv ==
  phase \in {"starting", "up"} /\ ~Coming
    => /\ \A t \in Threads : pc[t] = "replace" => temp[t] = mem
       /\ \/ disk = mem
          \/ unsaved
          \/ \E t \in Threads : pc[t] = "replace"

\* A process that was killed at rest left its switch on disk.
KilledInv == phase = "down" /\ atKill # "unknown" => disk = atKill

-----------------------------------------------------------------------------
LEMMA InitType == Init => TypeInv
<1> SUFFICES ASSUME Init PROVE TypeInv
  OBVIOUS
<1>1. mem \in Settings /\ disk \in Foreign /\ strays \in Nat /\ crashes \in Nat
  BY DEF Init, Settings, Foreign
<1>2. /\ temp \in [Threads -> Settings \cup {"none", "torn"}]
      /\ seen \in [Threads -> Settings]
  BY DEF Init, Settings
<1>3. unsaved \in BOOLEAN
  BY DEF Init
<1> QED BY <1>1, <1>2, <1>3 DEF Init, TypeInv, TypeOK, CompleteInv

\* The steps of one thread, request or start.
LEMMA ThreadType ==
  ASSUME TypeInv, NEW t \in Threads, ReadSwitch(t) \/ Thread(t)
  PROVE  TypeInv'
<1> USE DEF TypeInv, TypeOK, CompleteInv, threadVars, history
<1>1. CASE ReadSwitch(t)
  BY <1>1 DEF ReadSwitch
<1>2. CASE WriteSwitch(t)
  BY <1>2 DEF WriteSwitch, Not, Settings
<1>3. CASE Acquire(t)
  BY <1>3 DEF Acquire
<1>4. CASE CreateTemp(t)
  BY <1>4 DEF CreateTemp
<1>5. CASE DumpTemp(t)
  BY <1>5 DEF DumpTemp, Dumped
<1>6. CASE Replace(t)
  <2>1. disk' \in Settings
    BY <1>6 DEF Replace
  <2> QED BY <1>6, <2>1 DEF Replace
<1>7. CASE SaveFails(t)
  BY <1>7 DEF SaveFails, Unlinked
<1>8. CASE Release(t)
  BY <1>8 DEF Release, Freed
<1> QED BY <1>1, <1>2, <1>3, <1>4, <1>5, <1>6, <1>7, <1>8 DEF Thread

LEMMA TypeInvHolds == Spec => []TypeInv
<1>1. TypeInv /\ [Next]_vars => TypeInv'
  <2> SUFFICES ASSUME TypeInv, [Next]_vars PROVE TypeInv'
    OBVIOUS
  <2> USE DEF TypeInv, TypeOK, CompleteInv, threadVars, history
  <2>1. CASE Load
    <3>1. mem' \in Settings /\ override' \in {"unset"} \cup Settings
      BY <2>1, PreferencesAssumption DEF Load, Effective, Loaded, Settings
    <3> QED BY <2>1, <3>1 DEF Load
  <2>2. CASE Kill
    BY <2>2 DEF Kill, Settings
  <2>3. CASE Edit
    BY <2>3, PreferencesAssumption DEF Edit, Foreign
  <2>4. CASE UNCHANGED vars
    BY <2>4 DEF vars
  <2> QED BY <2>1, <2>2, <2>3, <2>4, ThreadType DEF Next
<1> QED BY InitType, <1>1, PTL DEF Spec

\* Every variable stays in its domain, and what replaces the file is complete.
THEOREM TypeCorrect == Spec => []TypeOK
<1>1. TypeInv => TypeOK
  BY DEF TypeInv
<1> QED BY TypeInvHolds, <1>1, PTL

-----------------------------------------------------------------------------
(* The file catches up with memory.                                        *)
FileInv == StartInv /\ MutexInv /\ SaveInv /\ KilledInv

LEMMA ThreadStart ==
  ASSUME TypeInv, StartInv, NEW t \in Threads, ReadSwitch(t) \/ Thread(t)
  PROVE  StartInv'
<1> USE DEF TypeInv, TypeOK, StartInv
<1>0. Starter \in Threads
  BY DEF Threads
<1>1. CASE ReadSwitch(t)
  BY <1>1, PreferencesAssumption DEF ReadSwitch, Starter
<1>2. CASE Release(t)
  BY <1>2 DEF Release
<1>3. CASE WriteSwitch(t) \/ Acquire(t) \/ CreateTemp(t)
  BY <1>0, <1>3 DEF WriteSwitch, Acquire, CreateTemp
<1>4. CASE DumpTemp(t) \/ Replace(t) \/ SaveFails(t)
  BY <1>0, <1>4 DEF DumpTemp, Replace, SaveFails
<1> QED BY <1>1, <1>2, <1>3, <1>4 DEF Thread

\* One step of a thread; only Acquire and Release touch the lock.
LEMMA ThreadMutex ==
  ASSUME TypeInv, MutexInv, NEW t \in Threads, ReadSwitch(t) \/ Thread(t)
  PROVE  MutexInv'
<1>1. "free" \notin Threads
  BY PreferencesAssumption DEF Threads, Starter
<1> USE DEF TypeInv, TypeOK, MutexInv
<1>2. CASE Acquire(t)
  BY <1>1, <1>2 DEF Acquire
<1>3. CASE Release(t)
  BY <1>1, <1>3 DEF Release, Freed
<1>4. CASE ReadSwitch(t) \/ WriteSwitch(t)
  BY <1>4 DEF ReadSwitch, WriteSwitch
<1>5. CASE CreateTemp(t) \/ DumpTemp(t) \/ Replace(t) \/ SaveFails(t)
  BY <1>5 DEF CreateTemp, DumpTemp, Replace, SaveFails
<1> QED BY <1>2, <1>3, <1>4, <1>5 DEF Thread

LEMMA ThreadSave ==
  ASSUME TypeInv, StartInv, MutexInv, SaveInv, NEW t \in Threads,
         ReadSwitch(t) \/ Thread(t)
  PROVE  SaveInv'
<1> USE DEF TypeInv, TypeOK, SaveInv
<1>1. CASE ReadSwitch(t)
  <2>1. /\ pc[t] = "idle" /\ pc'[t] = "write"
        /\ \A u \in Threads : u # t => pc'[u] = pc[u]
    BY <1>1 DEF ReadSwitch
  <2>2. Coming' <=> Coming
    BY <2>1 DEF Coming
  <2>3. \A u \in Threads : pc'[u] = "replace" <=> pc[u] = "replace"
    BY <2>1
  <2> QED BY <1>1, <2>2, <2>3 DEF ReadSwitch, history
<1>2. CASE WriteSwitch(t)
  <2>1. pc'[t] = "lock"
    BY <1>2 DEF WriteSwitch
  <2> QED BY <2>1 DEF Coming
<1>3. CASE Acquire(t)
  <2>1. pc'[t] = "create"
    BY <1>3 DEF Acquire
  <2> QED BY <2>1 DEF Coming
<1>4. CASE CreateTemp(t)
  <2>1. pc'[t] = "dump"
    BY <1>4 DEF CreateTemp
  <2> QED BY <2>1 DEF Coming
<1>5. CASE DumpTemp(t)
  <2>1. \A u \in Threads : pc'[u] = "replace" => u = t
    BY <1>5 DEF DumpTemp, MutexInv
  <2>2. pc'[t] = "replace" /\ temp'[t] = mem'
    BY <1>5 DEF DumpTemp, Dumped
  <2> QED BY <2>1, <2>2
<1>6. CASE Replace(t)
  <2>1. \A u \in Threads : pc'[u] # "replace"
    BY <1>6 DEF Replace, MutexInv
  <2>3. Coming => Coming'
    BY <1>6 DEF Replace, Coming
  <2> QED BY <1>6, <2>1, <2>3 DEF Replace
<1>7. CASE SaveFails(t)
  <2>1. \A u \in Threads : pc'[u] # "replace"
    BY <1>7 DEF SaveFails, MutexInv
  <2> QED BY <1>7, <2>1 DEF SaveFails
<1>8. CASE Release(t)
  <2>1. phase' \in {"starting", "up"} => phase \in {"starting", "up"}
    BY <1>8 DEF Release, StartInv
  <2>2. /\ pc[t] \in {"release", "raised"} /\ pc'[t] = "idle"
        /\ \A u \in Threads : u # t => pc'[u] = pc[u]
    BY <1>8 DEF Release
  <2>3. Coming' <=> Coming
    BY <2>2 DEF Coming
  <2>4. \A u \in Threads : pc'[u] = "replace" <=> pc[u] = "replace"
    BY <2>2
  <2> QED BY <1>8, <2>1, <2>3, <2>4 DEF Release, history
<1> QED BY <1>1, <1>2, <1>3, <1>4, <1>5, <1>6, <1>7, <1>8 DEF Thread

\* Threads work only between a load and a kill, and neither touches atKill.
LEMMA ThreadKilled ==
  ASSUME StartInv, KilledInv, NEW t \in Threads, ReadSwitch(t) \/ Thread(t),
         phase = "down" => \A u \in Threads : pc[u] = "idle"
  PROVE  KilledInv' /\ phase' # "down"
BY DEF KilledInv, StartInv, ReadSwitch, Thread, WriteSwitch, Acquire,
       CreateTemp, DumpTemp, Replace, SaveFails, Release, threadVars, history

DownInv == phase = "down" => \A u \in Threads : pc[u] = "idle"

LEMMA FileInvInit == Init => FileInv /\ DownInv
BY PreferencesAssumption
   DEF Init, FileInv, StartInv, MutexInv, SaveInv, KilledInv, DownInv,
       Threads, Starter

LEMMA FileInvStep ==
  TypeInv /\ FileInv /\ DownInv /\ [Next]_vars => FileInv' /\ DownInv'
<1> SUFFICES ASSUME TypeInv, FileInv, DownInv, [Next]_vars
             PROVE  FileInv' /\ DownInv'
  OBVIOUS
<1> USE DEF FileInv
<1>1. CASE Load
  <2>1. \/ pc' = pc /\ phase' = "failed"
        \/ pc' = [pc EXCEPT ![Starter] = "lock"] /\ phase' = "starting"
    BY <1>1 DEF Load
  <2>2. MutexInv'
    BY <1>1, <2>1 DEF Load, MutexInv, DownInv, Starter, Threads, TypeInv,
                      TypeOK
  <2>3. SaveInv'
    BY <2>1 DEF SaveInv, Coming, Starter, Threads, TypeInv, TypeOK
  <2>4. StartInv'
    BY <1>1, <2>1 DEF Load, StartInv, DownInv, Threads
  <2> QED BY <2>1, <2>2, <2>3, <2>4 DEF KilledInv, DownInv
<1>2. CASE Kill
  <2>1. MutexInv' /\ SaveInv' /\ StartInv' /\ DownInv'
    BY <1>2, PreferencesAssumption
       DEF Kill, MutexInv, SaveInv, StartInv, DownInv, Threads, Starter
  <2>2. KilledInv'
    BY <1>2 DEF Kill, KilledInv, SaveInv, Coming, Quiet
  <2> QED BY <2>1, <2>2
<1>3. CASE Edit
  BY <1>3 DEF Edit, StartInv, MutexInv, SaveInv, KilledInv, DownInv,
              threadVars
<1>4. ASSUME NEW t \in Threads, ReadSwitch(t) \/ Thread(t)
      PROVE  FileInv' /\ DownInv'
  BY <1>4, ThreadStart, ThreadMutex, ThreadSave, ThreadKilled DEF DownInv
<1>5. CASE UNCHANGED vars
  BY <1>5 DEF vars, threadVars, history, StartInv, MutexInv, SaveInv, Coming,
              KilledInv, DownInv
<1> QED BY <1>1, <1>2, <1>3, <1>4, <1>5 DEF Next

LEMMA FileInvHolds == Spec => [](FileInv /\ DownInv)
BY FileInvInit, FileInvStep, TypeInvHolds, PTL DEF Spec

\* Once every request is done the file holds the switch as memory has it,
\* for any number of concurrent toggles.
THEOREM FileCatchesUp == Spec => []DiskCatchesUp
<1>1. FileInv => DiskCatchesUp
  BY DEF FileInv, SaveInv, Coming, DiskCatchesUp, Quiet
<1> QED BY FileInvHolds, <1>1, PTL

\* A process killed at rest comes back with the switch it had, unless the
\* environment overrides it.
THEOREM SwitchSurvives == Spec => SurvivesRestart
<1>1. TypeInv /\ FileInv /\ [Next]_vars
        => (Load /\ atKill # "unknown" /\ phase' = "starting"
              => mem' = IF override' = "unset" THEN atKill ELSE override')
  BY DEF TypeInv, TypeOK, FileInv, KilledInv, Load, Effective, Loaded
<1> QED BY <1>1, FileInvHolds, TypeInvHolds, PTL DEF Spec, SurvivesRestart

\* Whenever the process is killed, settings.json is the old file or the new
\* one, never a part of one.
THEOREM FileNeverTorn == Spec => []NeverTorn
<1>1. Init => NeverTorn
  BY DEF Init, NeverTorn
<1>2. TypeInv /\ NeverTorn /\ [Next]_vars => NeverTorn'
  <2> SUFFICES ASSUME TypeInv, NeverTorn, [Next]_vars PROVE NeverTorn'
    OBVIOUS
  <2>1. CASE disk' = disk
    BY <2>1 DEF NeverTorn
  <2>2. ASSUME NEW t \in Threads, Replace(t) PROVE NeverTorn'
    BY <2>2 DEF Replace, TypeInv, CompleteInv, NeverTorn, Settings
  <2>3. CASE Edit
    BY <2>3, PreferencesAssumption DEF Edit, NeverTorn
  <2> QED BY <2>1, <2>2, <2>3 DEF Next, Load, Kill, Edit, ReadSwitch, Thread,
             WriteSwitch, Acquire, CreateTemp, DumpTemp, SaveFails, Release,
             vars
<1> QED BY <1>1, <1>2, TypeInvHolds, PTL DEF Spec
=============================================================================
