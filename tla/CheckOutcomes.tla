---------------------------- MODULE CheckOutcomes ----------------------------
(***************************************************************************)
(* What requirements.py makes of a manifest and of the tools its checks    *)
(* start: which manifests load, the outcome of a pytest, unittest or       *)
(* command_status check, the outcome of a requirement and the aggregate.   *)
(* A tool run is what the provider can see of it: whether its target is    *)
(* there, how it exited, the marks in its result file in order, the state  *)
(* of that file, whether a test was counted, and whether a subtest failed. *)
(***************************************************************************)
EXTENDS Naturals, Sequences, FiniteSets

CONSTANT SubTests   \* suites with failing subtests are among the tool runs

Success == "passed"
Exits == {"expected", "failed", "broken", "timeout"}
Files == {"whole", "missing", "malformed", "collection"}
JunitMarks == {"passed", "failed", "error", "skipped"}
RunnerMarks == JunitMarks \cup {"expected_failure", "unexpected_success"}

SeqsUpTo2(S) == {<<>>} \cup {<<a>> : a \in S} \cup (S \X S)
Marks(run) == {run.marks[i] : i \in DOMAIN run.marks}
\* A class or module fixture that errs or skips marks a suite whose tests are not counted.
ToolRuns(provider) ==
    {run \in [exit : Exits,
              marks : SeqsUpTo2(CASE provider = "pytest" -> JunitMarks
                                  [] provider = "unittest" -> RunnerMarks
                                  [] OTHER -> {}),
              file : Files,
              target : BOOLEAN,
              counted : IF provider = "unittest" THEN BOOLEAN ELSE {TRUE},
              subtest : IF provider = "unittest" /\ SubTests THEN BOOLEAN ELSE {FALSE}] :
       run.counted \/ Marks(run) \subseteq {"error", "skipped"}}

Passes(run) == Cardinality({i \in DOMAIN run.marks : run.marks[i] = Success})

-----------------------------------------------------------------------------
(* Manifests.                                                              *)

\* check is a provider's name or "none"; least is minimum_tests, 0 when it is
\* not declared; badLeast, that it is declared and not a positive integer.
WellFormed(req) ==
    /\ req.manual => req.check = "none"
    /\ ~req.manual => req.check # "none"
    /\ ~req.smuggles
    /\ ~req.badLeast

LoadableManifest(manifest) ==
    /\ manifest # <<>>
    /\ \A i \in DOMAIN manifest : WellFormed(manifest[i])
    /\ \A i, j \in DOMAIN manifest : manifest[i].id = manifest[j].id => i = j

-----------------------------------------------------------------------------
(* Providers.                                                              *)

\* Mutant: what was skipped beside passes is not counted.
PytestSkipsAside(run) ==
    IF run.exit # "expected" \/ run.file # "whole" \/ run.marks = <<>> THEN "error"
    ELSE IF Marks(run) \cap {"failed", "error"} # {} THEN "failed"
    ELSE IF Success \in Marks(run) THEN Success
    ELSE "skipped"

PytestOutcome(run) ==
    IF run.exit = "timeout" \/ run.file # "whole" THEN "error"
    ELSE IF run.exit = "broken" \/ run.marks = <<>> THEN "error"
    ELSE IF "failed" \in Marks(run) THEN "failed"
    ELSE IF "error" \in Marks(run) THEN "error"
    ELSE IF Marks(run) = {"skipped"} THEN "skipped"
    ELSE IF "skipped" \in Marks(run) THEN "unverified"
    ELSE IF run.exit # "expected" THEN "failed"
    ELSE Success

CommandOutcome(run) ==
    CASE run.exit = "timeout" -> "error"
      [] run.exit = "expected" -> Success
      [] OTHER -> "failed"

\* The runner records a mark in addSuccess, addFailure, addError, addSkip and
\* the two expected-failure calls; a failing subtest reaches none of them.
UnittestOutcome(run) ==
    IF run.exit = "timeout" \/ run.file # "whole" \/ run.marks = <<>> \/ ~run.counted THEN "error"
    ELSE IF "error" \in Marks(run) THEN "error"
    ELSE IF "failed" \in Marks(run) THEN "failed"
    ELSE IF Marks(run) \cap {"unexpected_success", "expected_failure"} # {} THEN "unverified"
    ELSE IF Marks(run) = {"skipped"} THEN "skipped"
    ELSE IF "skipped" \in Marks(run) THEN "unverified"
    ELSE IF run.exit = "expected" THEN Success
    ELSE "unverified"

ProviderOutcome(req, run) ==
    IF ~run.target THEN "error"
    ELSE CASE req.check = "pytest" -> PytestOutcome(run)
           [] req.check = "unittest" -> UnittestOutcome(run)
           [] req.check = "command_status" -> CommandOutcome(run)
           [] OTHER -> "error"

\* The artifact a provider reports: the junit file, or the runner's stream.
HasArtifact(req, run) ==
    /\ run.target /\ run.exit # "timeout"
    /\ \/ req.check = "pytest" /\ run.file # "missing"
       \/ req.check = "unittest" /\ run.file \in {"whole", "collection"}

\* Missing evidence, or too few passing tests, turn a pass into a failure.
RequirementOutcome(req, run) ==
    LET outcome == ProviderOutcome(req, run)
        short == (req.evidence /\ ~HasArtifact(req, run)) \/ Passes(run) < req.least
    IN  IF outcome = Success /\ short THEN "failed" ELSE outcome

\* Only a source that did not move and nothing but passes are a pass.
Aggregate(outcomes, sourceMoved) ==
    IF sourceMoved THEN "unverified"
    ELSE IF outcomes \cap {"failed", "error"} # {} THEN "failed"
    ELSE IF outcomes = {Success} THEN Success
    ELSE "unverified"

-----------------------------------------------------------------------------
\* What it means, of the tool alone, that a requirement is met: it exited as
\* expected, some test ran, every test and subtest passed, and no less than
\* was asked for.
TrulyMet(req, run) ==
    /\ run.target /\ run.exit = "expected"
    /\ req.check \in {"pytest", "unittest"} =>
         run.file = "whole" /\ Marks(run) = {Success} /\ ~run.subtest
    /\ req.evidence => HasArtifact(req, run)
    /\ Passes(run) >= req.least
=============================================================================
