SPECIFICATION Spec
CONSTANTS
  Configs <- MCConfigs
  DefaultWait = 2
  DrainingWait = 1
  BusyWait = 1
  Outcomes = {"ok", "early", "late", "held"}
  MaxTime = 6
  MaxExits = 4
INVARIANTS RestartsBounded LaunchesBounded NeverLate
PROPERTY ArmedInTime
