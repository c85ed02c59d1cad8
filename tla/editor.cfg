\* Three steps on the canvas and any edges between them.
SPECIFICATION EditorSpec
CONSTANTS
  s1 = s1
  s2 = s2
  s3 = s3
  NoStep = NoStep
  StepIds = {s1, s2, s3}
  FirstStep = s1
  StepNumbers <- TypedNumbers
  NameLengths = {0, 12}
  RunStatuses = {"completed"}
  MaxSteps = 3
  MaxEdges = 3
  MaxUnfit = 1
SYMMETRY AlikeSteps
INVARIANT ValidatorMirrors
PROPERTY SentGraphIsAccepted
