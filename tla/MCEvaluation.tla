----------------------------- MODULE MCEvaluation -----------------------------
\* What run and test do with a mapping: the input it gets, the subprocess it runs
\* in, and what is made of its outcome, one of them at a time.
EXTENDS MCSamples, MappingWorker

-----------------------------------------------------------------------------
\* Nothing is run.
NoSuite ==
  /\ suite = "canceled" /\ ctx = "canceled" /\ pc = "ended"
  /\ worker = "none" /\ killed = FALSE /\ unsent = 0 /\ output = 0 /\ copied = TRUE
  /\ result = NoResult /\ results = <<>>

-----------------------------------------------------------------------------
(* The expectation *)

CONSTANT MaxValues
VARIABLES document, expect, outcome, checking, expected, answer

caseVars == <<document, expect, outcome, checking, expected, answer>>

\* The sets of MCFixtures, which do not depend on the constants they stand for.
Values == INSTANCE MCFixtures WITH
  stage <- checking, result <- answer,
  Documents <- {}, Expects <- {}, Outcomes <- {}, NumberOf <- <<>>, Reads <- <<>>

MCDocuments == Values!MCDocuments
MCExpects == Values!MCExpects
MCOutcomes == Values!MCOutcomes
MCNumberOf == Values!MCNumberOf
MCReads == Values!MCReads

Cases == INSTANCE Fixtures WITH
  stage <- checking, result <- answer,
  Documents <- MCDocuments, Expects <- MCExpects, Outcomes <- MCOutcomes,
  NumberOf <- MCNumberOf, Reads <- MCReads

\* Nothing is expected.
NoCase ==
  /\ document = <<>> /\ expect = <<>> /\ outcome = <<>> /\ checking = "none"
  /\ expected = <<>> /\ answer = <<>>

-----------------------------------------------------------------------------
\* Nothing is resolved.
NoInput ==
  /\ request = <<>> /\ disk = <<>> /\ writes = 0 /\ stage = "failed"
  /\ line = 1 /\ sample = <<>> /\ seen = {} /\ siblings = {}
  /\ imports = <<>> /\ todo = <<>> /\ reads = 0 /\ applied = <<>>

MCInit ==
  \/ SuiteInit /\ NoInput /\ NoCase
  \/ NoSuite /\ Init /\ NoCase
  \/ NoSuite /\ NoInput /\ Cases!Init

MCNext ==
  \/ SuiteNext /\ UNCHANGED <<vars, caseVars>>
  \/ Next /\ UNCHANGED <<suiteVars, caseVars>>
  \/ Cases!Next /\ UNCHANGED <<suiteVars, vars>>

\* The fairness of MappingWorker.
MCSpec ==
  /\ MCInit /\ [][MCNext]_<<suiteVars, vars, caseVars>>
  /\ Fairness

-----------------------------------------------------------------------------
\* ExpectationMeans of Fixtures: a case passes exactly when its outcome is what
\* the document says.
ExpectationMeans == Cases!ExpectationMeans
=============================================================================
