\* Two callers: a Release overlapping a Trigger.
CONSTANTS
  Callers = {c1, c2}
  MaxStamp = 2
SPECIFICATION Spec
INVARIANT HaltSurvivesRestart
