\* Two callers whose Triggers overlap; a Release runs alone.
CONSTANTS
  Callers = {c1, c2}
  MaxStamp = 3
SPECIFICATION FairAloneSpec
INVARIANT TypeOK
INVARIANT RecordedBeforeActing
INVARIANT AcknowledgedHaltHolds
INVARIANT HaltSurvivesRestart
PROPERTY ReleaseResumes
