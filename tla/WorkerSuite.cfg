\* Two cases, workers that answer, flood, crash or hang, deadlines and cancellation;
\* every resolution of an input; every expectation against every outcome.
SPECIFICATION MCSpec
CONSTANTS
  MaxCases = 2
  MaxResultBytes = 2
  MaxAnswerBytes = 4
  Names = {"f", "g"}
  MaxReads = 6
  MaxBytes = 2
  MaxWrites = 2
  Requests <- MCRequests
  Disks <- MCDisks
  Others <- MCOthers
  MaxValues = 5
INVARIANTS
  NoRunaway
  NotBlamed
  KilledByName
  FieldsFromLast
  ImportsClosed
  ExpectationMeans
PROPERTY SuiteEnds
CHECK_DEADLOCK FALSE
