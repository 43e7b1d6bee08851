---------------------------- MODULE Preferences ----------------------------
(***************************************************************************)
(* The one mutable preference, geoip_auto_update, and settings.json        *)
(* (src/preferences.py, and AppRuntime's constructor, start and            *)
(* toggle_geoip_auto_update in src/runtime.py).  The toggle route runs in  *)
(* a thread pool: the switch is flipped in memory without a lock, only the *)
(* save holds the store's lock.  The process may be killed between any two *)
(* steps and is started again.                                             *)
(***************************************************************************)
EXTENDS Naturals

CONSTANTS
  Togglers,    \* the threads that serve POST /api/geodb/toggle-auto-update
  Overrides,   \* what BPM_GEOIP_AUTO_UPDATE may be: "unset" or a setting
  Edits,       \* what an operator may leave in settings.json, "array" or "other"
  MaxCrashes   \* bound: how often the process is killed

Settings == {"true", "false"}
\* What a settings.json may hold besides: nothing, as it is not there; part of
\* what save writes; a JSON value that is no object; anything else without a
\* usable switch.
Foreign  == {"absent", "torn", "array", "other"}

ASSUME PreferencesAssumption ==
  /\ {"free", "starter"} \cap Togglers = {}
  /\ Overrides \subseteq {"unset"} \cup Settings
  /\ Edits \subseteq {"array", "other"}
  /\ MaxCrashes \in Nat

VARIABLES
  mem,      \* preferences.geoip_auto_update
  disk,     \* the content of settings.json
  temp,     \* the content of each thread's temporary file; "none": no file
  strays,   \* temporary files that no thread owns
  pc,       \* where each thread is
  seen,     \* the switch as the thread read it
  lock,     \* the holder of PreferenceStore._lock, or "free"
  override, \* geoip_auto_update_override of this run of the process
  phase,    \* "starting", "up", "down" or "failed"
  crashes,  \* how often the process was killed
  unsaved,  \* history: the last save raised
  atKill    \* history: the switch when the process was killed, if no thread
            \* was at work and the last save had succeeded, else "unknown"

threadVars == <<temp, pc, seen, lock>>
history    == <<unsaved, atKill>>
vars == <<mem, disk, strays, threadVars, override, phase, crashes, history>>

\* AppRuntime.start saves too, before any request is served.
Starter == "starter"
Threads == Togglers \cup {Starter}

Not(s) == IF s = "true" THEN "false" ELSE "true"

Quiet == \A t \in Threads : pc[t] = "idle"

-----------------------------------------------------------------------------
Init ==
  /\ mem = "true" /\ disk = "absent"
  /\ temp = [t \in Threads |-> "none"] /\ strays = 0
  /\ pc = [t \in Threads |-> "idle"]
  /\ seen = [t \in Threads |-> "true"]
  /\ lock = "free"
  /\ override = "unset" /\ phase = "down" /\ crashes = 0
  /\ unsaved = FALSE /\ atKill = "unknown"

(***************************************************************************)
(* Starting: PreferenceStore.load, the override, AppRuntime.start.         *)
(***************************************************************************)

\* Mutant: what the file holds is taken as it is.
LoadedAsIs(d) == d

\* The default is on.
Loaded(d) == IF d \in Settings THEN d ELSE "true"

\* data.get is not defined on a JSON value that is no object.
Loadable(d) == d # "array"

\* Mutant: a setting once saved wins over the environment.
SavedWins(d, o) == IF d \in Settings \/ o = "unset" THEN Loaded(d) ELSE o

\* geoip_auto_update_override wins over the saved setting.
Effective(d, o) == IF o = "unset" THEN Loaded(d) ELSE o

Load ==
  /\ phase = "down"
  /\ override' \in Overrides
  /\ IF Loadable(disk)
       THEN /\ mem' = Effective(disk, override')
            /\ phase' = "starting"
            /\ pc' = [pc EXCEPT ![Starter] = "lock"]
       ELSE phase' = "failed" /\ UNCHANGED <<mem, pc>>
  /\ unsaved' = FALSE
  /\ UNCHANGED <<disk, temp, strays, seen, lock, crashes, atKill>>

(***************************************************************************)
(* toggle_geoip_auto_update.                                               *)
(***************************************************************************)
ReadSwitch(t) ==
  /\ phase = "up" /\ t \in Togglers /\ pc[t] = "idle"
  /\ seen' = [seen EXCEPT ![t] = mem]
  /\ pc' = [pc EXCEPT ![t] = "write"]
  /\ UNCHANGED <<mem, disk, temp, strays, lock, override, phase,
                 crashes, history>>

WriteSwitch(t) ==
  /\ pc[t] = "write"
  /\ mem' = Not(seen[t])
  /\ pc' = [pc EXCEPT ![t] = "lock"]
  /\ UNCHANGED <<disk, temp, strays, seen, lock, override, phase,
                 crashes, history>>

(***************************************************************************)
(* PreferenceStore.save.                                                   *)
(***************************************************************************)
Acquire(t) ==
  /\ pc[t] = "lock" /\ lock = "free"
  /\ lock' = t
  /\ pc' = [pc EXCEPT ![t] = "create"]
  /\ UNCHANGED <<mem, disk, temp, strays, seen, override, phase,
                 crashes, history>>

\* Mutant: the settings file itself is opened for writing.
CreateInPlace(t) ==
  /\ pc[t] = "create"
  /\ temp' = [temp EXCEPT ![t] = "torn"] /\ disk' = "torn"
  /\ pc' = [pc EXCEPT ![t] = "dump"]
  /\ UNCHANGED <<mem, strays, seen, lock, override, phase, crashes, history>>

\* mkstemp, and the file is opened: it is empty.
CreateTemp(t) ==
  /\ pc[t] = "create"
  /\ temp' = [temp EXCEPT ![t] = "torn"]
  /\ pc' = [pc EXCEPT ![t] = "dump"]
  /\ UNCHANGED <<mem, disk, strays, seen, lock, override, phase,
                 crashes, history>>

\* Mutant: what the thread itself wrote is saved, not what the switch is now.
OwnSetting(t) == IF t = Starter THEN mem ELSE Not(seen[t])

\* asdict reads the switch while the lock is held.
Dumped(t) == mem

\* json.dump, flush and fsync.
DumpTemp(t) ==
  /\ pc[t] = "dump"
  /\ temp' = [temp EXCEPT ![t] = Dumped(t)]
  /\ pc' = [pc EXCEPT ![t] = "replace"]
  /\ UNCHANGED <<mem, disk, strays, seen, lock, override, phase,
                 crashes, history>>

\* chmod and replace.
Replace(t) ==
  /\ pc[t] = "replace"
  /\ disk' = temp[t]
  /\ temp' = [temp EXCEPT ![t] = "none"]
  /\ unsaved' = FALSE
  /\ pc' = [pc EXCEPT ![t] = "release"]
  /\ UNCHANGED <<mem, strays, seen, lock, override, phase, crashes, atKill>>

\* The finally clause: unlink(missing_ok=True).
Unlinked(t) == [temp EXCEPT ![t] = "none"]

\* Any file operation of save may raise.
SaveFails(t) ==
  /\ pc[t] \in {"create", "dump", "replace"}
  /\ temp' = Unlinked(t)
  /\ unsaved' = TRUE
  /\ pc' = [pc EXCEPT ![t] = "raised"]
  /\ UNCHANGED <<mem, disk, strays, seen, lock, override, phase, crashes,
                 atKill>>

\* The with statement releases the lock however save ends.
Freed(t) == "free"

\* The lock is released and the request answered; an exception of the first
\* save ends the start of the application.
Release(t) ==
  /\ pc[t] \in {"release", "raised"}
  /\ lock' = Freed(t)
  /\ pc' = [pc EXCEPT ![t] = "idle"]
  /\ phase' = IF t # Starter THEN phase
              ELSE IF pc[t] = "raised" THEN "failed" ELSE "up"
  /\ UNCHANGED <<mem, disk, temp, strays, seen, override, crashes, history>>

Thread(t) == \/ WriteSwitch(t) \/ Acquire(t) \/ CreateTemp(t) \/ DumpTemp(t)
             \/ Replace(t) \/ SaveFails(t) \/ Release(t)

(***************************************************************************)
(* The process dies, and is started again by Load.                         *)
(***************************************************************************)
Owned == {t \in Threads : temp[t] # "none"}

Kill ==
  /\ phase # "down" /\ crashes < MaxCrashes
  /\ crashes' = crashes + 1
  /\ strays' = IF Owned = {} THEN strays ELSE strays + 1
  /\ atKill' = IF phase = "up" /\ Quiet /\ ~unsaved THEN mem ELSE "unknown"
  /\ temp' = [t \in Threads |-> "none"]
  /\ pc' = [t \in Threads |-> "idle"]
  /\ seen' = [t \in Threads |-> "true"]
  /\ lock' = "free" /\ phase' = "down"
  /\ UNCHANGED <<mem, disk, override, unsaved>>

\* An operator edits the file while the application is down.
Edit ==
  /\ phase = "down"
  /\ \E d \in Edits : disk' = d
  /\ atKill' = "unknown"
  /\ UNCHANGED <<mem, strays, threadVars, override, phase, crashes, unsaved>>

Next == \/ Load \/ Kill \/ Edit
        \/ \E t \in Threads : ReadSwitch(t) \/ Thread(t)

Spec == Init /\ [][Next]_vars

\* No thread is held up for ever, and whoever waits for the lock gets it.
FairSpec == /\ Spec
            /\ \A t \in Threads : WF_vars(Thread(t)) /\ SF_vars(Acquire(t))

-----------------------------------------------------------------------------
(***************************************************************************)
(* Properties.                                                             *)
(***************************************************************************)
TypeOK ==
  /\ mem \in Settings /\ disk \in Settings \cup Foreign
  /\ temp \in [Threads -> Settings \cup {"none", "torn"}]
  /\ strays \in Nat
  /\ pc \in [Threads -> {"idle", "write", "lock", "create", "dump",
                         "replace", "release", "raised"}]
  /\ seen \in [Threads -> Settings]
  /\ lock \in Threads \cup {"free"}
  /\ phase \in {"starting", "up", "down", "failed"}
  /\ override \in {"unset"} \cup Settings
  /\ crashes \in Nat /\ unsaved \in BOOLEAN
  /\ atKill \in Settings \cup {"unknown"}

\* However the togglers interleave, once they are done the file holds the
\* switch as it is in memory, unless the last save raised.
DiskCatchesUp == phase = "up" /\ Quiet /\ ~unsaved => disk = mem

\* "dashboard preferences that must survive restarts" (README.md): a process
\* killed when no request was in progress comes back with the same switch,
\* unless the environment overrides it.
SurvivesRestart ==
  [][Load /\ atKill # "unknown" /\ phase' = "starting"
       => mem' = IF override' = "unset" THEN atKill ELSE override']_vars

\* The application itself never leaves an unusable settings.json behind: a
\* kill in the middle of a save leaves the old file or the new one.
NeverTorn == disk # "torn"

=============================================================================
