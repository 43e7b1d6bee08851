\* Two requests toggle at once, the environment may pin the switch, the
\* process is killed up to twice and the file edited while it is down.
\* A process that has used up its kills may have nothing left to do.
CONSTANTS
  t1 = t1
  t2 = t2
  Togglers = {t1, t2}
  Overrides = {"unset", "false"}
  Edits = {"array", "other"}
  MaxCrashes = 2
SPECIFICATION FairSpec
INVARIANTS
  TypeOK
  DiskCatchesUp
  NeverTorn
PROPERTIES
  SurvivesRestart
CHECK_DEADLOCK FALSE
