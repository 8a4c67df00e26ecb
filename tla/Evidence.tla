------------------------------- MODULE Evidence -------------------------------
(***************************************************************************)
(* Evidence of one run: requirements checks that execute under the         *)
(* workspace lease and publish a report outside it, the postflight that    *)
(* binds a report into the receipt, and a freshness evaluation that reads  *)
(* report, receipt and workspace one after the other, while somebody edits *)
(* the workspace and any command may be killed (requirements.py,           *)
(* freshness.py, cli_expansion.py, postflight.py 203-226).                 *)
(*                                                                         *)
(* A part of the workspace is a version: 1 is what was approved or bound,  *)
(* 0 is missing.  A report stands for its digest; it keeps the versions of *)
(* its inputs that were seen, and of its outcomes the aggregate.  Every    *)
(* requirement declares the one input.                                     *)
(***************************************************************************)
EXTENDS CheckOutcomes

CONSTANTS
    Checkers,    \* requirements check commands
    Manifests,   \* sequences of requirements, loadable or not
    MaxChecks,   \* checks begun in a behaviour
    MaxEdits     \* edits of the workspace, or ends of an approval, in a behaviour

VARIABLES
    manifest,     \* the contract-bound manifest
    parts,        \* version of each part of the workspace
    valid,        \* the approval is still valid
    phase,        \* open (any phase between approval and postflight), postflighted or abandoned
    lease,        \* the command that holds the workspace lease
    checker,      \* each requirements check
    captures,     \* reports preserved under evidence_captures
    pointer, attestation,  \* the report each of the two files names
    binder,       \* the postflight
    certificate,      \* the receipt: the report it binds
    moved,        \* history: the pointer was written during or after postflight
    reader,       \* the freshness evaluation
    edits, checks

evidenceVars == <<manifest, parts, valid, phase, lease, checker, captures, pointer,
                  attestation, binder, certificate, moved, reader, edits, checks>>
evidenceFiles == <<captures, pointer, attestation, certificate, moved>>
workspaceVars == <<manifest, parts, valid, edits>>

Parts == {"source", "runtime", "policy", "manifest", "input"}
None == [aggregate |-> "none"]     \* no report
NoReceipt == [issued |-> FALSE, binds |-> None]
\* A manifest is a list of requirements, each with the number of passes it asks for.
Requirements == UNION {{m[i] : i \in DOMAIN m} : m \in Manifests}
ASSUME ManifestsAssumption ==
    Manifests \subseteq Seq(Requirements) /\ \A req \in Requirements : req.least \in Nat

NoLease == "free"
Postflight == "postflight"

Idle == [pc |-> "idle", before |-> 1, runtime |-> 1, inputs |-> {}, outs |-> {},
         judged |-> 0, ran |-> TRUE, missing |-> FALSE, met |-> TRUE, report |-> None]
NotBinding == [pc |-> "idle", loaded |-> None]
NotReading == [pc |-> "idle", report |-> None, todo |-> <<>>, edited |-> FALSE]

Binding(pc) == binder.pc = pc
At(c, pc) == checker[c].pc = pc
Goes(c, pc) == checker' = [checker EXCEPT ![c].pc = pc]

-----------------------------------------------------------------------------
(* requirements check.                                                     *)

Approved == valid /\ parts["source"] = 1 /\ phase # "abandoned"

\* Everything it is refused for is looked at before the lease is taken.
Authorize(c) ==
    /\ At(c, "idle") /\ checks < MaxChecks /\ checks' = checks + 1
    /\ LoadableManifest(manifest) /\ parts["manifest"] = 1 /\ Approved
    /\ checker' = [checker EXCEPT ![c] = [Idle EXCEPT !.pc = "authorized"]]
    /\ UNCHANGED <<workspaceVars, phase, lease, evidenceFiles, binder, reader>>

Begin(c) ==
    /\ At(c, "authorized")
    /\ IF lease = NoLease
       THEN /\ lease' = c
            /\ checker' = [checker EXCEPT ![c].pc = "checking", ![c].before = parts["source"],
                                          ![c].runtime = parts["runtime"]]
       ELSE Goes(c, "idle") /\ UNCHANGED lease
    /\ UNCHANGED <<workspaceVars, phase, evidenceFiles, binder, reader, checks>>

Current(c) == manifest[checker[c].judged]
\* The aggregate of the outcomes so far stands for them.
Adds(c, outcome, met) ==
    checker' = [checker EXCEPT ![c].outs = {Aggregate(@ \cup {outcome}, FALSE)}, ![c].ran = TRUE,
                               ![c].met = @ /\ met]

Fingerprint(c) ==
    /\ At(c, "checking") /\ checker[c].ran /\ checker[c].judged < Len(manifest)
    /\ checker' = [checker EXCEPT ![c].inputs = @ \cup {parts["input"]}, ![c].missing = parts["input"] = 0,
                                  ![c].judged = @ + 1, ![c].ran = FALSE]
    /\ UNCHANGED <<workspaceVars, phase, lease, evidenceFiles, binder, reader, checks>>

\* What any run of its tool can make of a requirement, and what is true.
Verdicts ==
    [req \in Requirements |->
       {[outcome |-> RequirementOutcome(req, run), met |-> TrulyMet(req, run)] :
          run \in ToolRuns(req.check)}]

\* A missing input is an error and nothing is run; a manual requirement has
\* nothing to run; otherwise the provider runs its tool.
RunCheck(c) ==
    /\ At(c, "checking") /\ ~checker[c].ran
    /\ IF checker[c].missing THEN Adds(c, "error", FALSE)
       ELSE IF Current(c).manual THEN Adds(c, "manual_unverifiable", FALSE)
       ELSE \E v \in Verdicts[Current(c)] : Adds(c, v.outcome, v.met)
    /\ UNCHANGED <<workspaceVars, phase, lease, evidenceFiles, binder, reader, checks>>

Report(c) ==
    LET k == checker[c]
        moves == k.before # parts["source"]
    IN  [aggregate |-> Aggregate(k.outs, moves), certifiable |-> ~moves,
         source |-> parts["source"], runtime |-> k.runtime, inputs |-> k.inputs]

End(c) ==
    /\ At(c, "checking") /\ checker[c].ran /\ checker[c].judged = Len(manifest)
    /\ checker' = [checker EXCEPT ![c] = [Idle EXCEPT !.pc = "reported", !.report = Report(c),
                                                     !.met = checker[c].met]]
    /\ lease' = NoLease
    /\ UNCHANGED <<workspaceVars, phase, evidenceFiles, binder, reader, checks>>

\* The report is published without the lease: a capture named by its digest,
Capture(c) ==
    /\ At(c, "reported") /\ Goes(c, "captured")
    /\ captures' = captures \cup {checker[c].report}
    /\ UNCHANGED <<workspaceVars, phase, lease, pointer, attestation, certificate, moved, binder, reader, checks>>

\* Mutant: the pointer is written before the capture.
PointFirst(c) ==
    /\ At(c, "reported") /\ Goes(c, "pointed")
    /\ pointer' = checker[c].report /\ moved' = (~Binding("idle") \/ phase = "postflighted")
    /\ UNCHANGED <<workspaceVars, phase, lease, captures, attestation, certificate, binder, reader, checks>>

\* the pointer,
Point(c) ==
    /\ At(c, "captured") /\ Goes(c, "pointed")
    /\ pointer' = checker[c].report /\ moved' = (~Binding("idle") \/ phase = "postflighted")
    /\ UNCHANGED <<workspaceVars, phase, lease, captures, attestation, certificate, binder, reader, checks>>

\* and the attestation, if it was asked for.
Attest(c) ==
    /\ At(c, "pointed") /\ Goes(c, "attested")
    /\ attestation' = checker[c].report
    /\ UNCHANGED <<workspaceVars, phase, lease, captures, pointer, certificate, moved, binder, reader, checks>>

\* The answer is read back from the pointer; the command's end and its death
\* leave the same: nothing but the files, and a free lease.
CheckEnds(c) ==
    /\ ~At(c, "idle") /\ checker' = [checker EXCEPT ![c] = Idle]
    /\ lease' = IF lease = c THEN NoLease ELSE lease
    /\ UNCHANGED <<workspaceVars, phase, evidenceFiles, binder, reader, checks>>

-----------------------------------------------------------------------------
(* postflight, abandon.                                                    *)

PostflightBegins ==
    /\ Binding("idle") /\ lease = NoLease /\ phase = "open"
    /\ lease' = Postflight /\ binder' = [NotBinding EXCEPT !.pc = "held"]
    /\ UNCHANGED <<workspaceVars, phase, checker, evidenceFiles, reader, checks>>

ReadAttestation ==
    /\ Binding("held") /\ binder' = [pc |-> "loaded", loaded |-> attestation]
    /\ UNCHANGED <<workspaceVars, phase, lease, checker, evidenceFiles, reader, checks>>

\* Mutant: any attestation that is there is bound.
BindsAnyReport(loaded, current) == loaded # None

\* An attestation is bound only if it is of the current capture.
BindsReport(loaded, current) == loaded # None /\ loaded = current

CompareCurrent ==
    /\ Binding("loaded")
    /\ binder' = [pc |-> "compared",
                  loaded |-> IF BindsReport(binder.loaded, pointer) THEN binder.loaded ELSE None]
    /\ UNCHANGED <<workspaceVars, phase, lease, checker, evidenceFiles, reader, checks>>

WriteReceipt ==
    /\ Binding("compared") /\ certificate' = [issued |-> TRUE, binds |-> binder.loaded]
    /\ binder' = [binder EXCEPT !.pc = "issued"]
    /\ UNCHANGED <<workspaceVars, phase, lease, checker, captures, pointer, attestation, moved, reader, checks>>

Postflighted ==
    /\ Binding("issued") /\ phase' = "postflighted" /\ lease' = NoLease /\ binder' = NotBinding
    /\ UNCHANGED <<workspaceVars, checker, evidenceFiles, reader, checks>>

PostflightDies ==
    /\ ~Binding("idle") /\ lease' = NoLease /\ binder' = NotBinding /\ moved' = FALSE
    /\ UNCHANGED <<workspaceVars, phase, checker, captures, pointer, attestation, certificate, reader, checks>>

AbandonRun ==
    /\ phase = "open" /\ lease = NoLease /\ phase' = "abandoned"
    /\ UNCHANGED <<workspaceVars, lease, checker, evidenceFiles, binder, reader, checks>>

-----------------------------------------------------------------------------
(* freshness: no lease; the report first, its authenticity next, then the  *)
(* workspace part by part.  The first change makes the verdict stale: what *)
(* is read after it only lengthens the list of changes.                    *)

\* Mutant: declared inputs are not compared.
ReadOrderNoInputs == <<"source", "runtime", "policy", "manifest">>
ReadOrder == <<"source", "runtime", "policy", "manifest", "input">>

LoadReport ==
    /\ reader.pc = "idle" /\ pointer # None
    /\ reader' = [NotReading EXCEPT !.pc = "loaded", !.report = pointer]
    /\ UNCHANGED <<workspaceVars, phase, lease, checker, evidenceFiles, binder, checks>>

ReadAuthenticity ==
    /\ reader.pc = "loaded"
    /\ reader' = IF certificate.issued /\ certificate.binds = reader.report /\ reader.report.certifiable
                 THEN [reader EXCEPT !.pc = "reading", !.todo = ReadOrder] ELSE NotReading
    /\ UNCHANGED <<workspaceVars, phase, lease, checker, evidenceFiles, binder, checks>>

SourceDiffers(report, v) == report.source # v
\* A field of the fingerprint that was empty when it was taken (0) is compared with nothing.
RuntimeDiffers(report, v) == report.runtime # 0 /\ report.runtime # v
\* Missing now, or not the one version that every requirement saw.
InputsDiffer(report, v) == v = 0 \/ report.inputs # {v}
\* The contract names the digest of its policy and of its manifest.
PolicyDiffers(v) == v # 1
ManifestDiffers(v) == v # 1

\* A part as it is now differs from the report.
Changed(report, p, v) ==
    \/ p = "source" /\ SourceDiffers(report, v)
    \/ p = "runtime" /\ RuntimeDiffers(report, v)
    \/ p = "input" /\ InputsDiffer(report, v)
    \/ p = "policy" /\ PolicyDiffers(v)
    \/ p = "manifest" /\ ManifestDiffers(v)

ReadPart ==
    /\ reader.pc = "reading" /\ reader.todo # <<>>
    /\ LET p == Head(reader.todo)
       IN  reader' = IF Changed(reader.report, p, parts[p]) THEN NotReading
                     ELSE [reader EXCEPT !.todo = Tail(@)]
    /\ UNCHANGED <<workspaceVars, phase, lease, checker, evidenceFiles, binder, checks>>

Conclude ==
    /\ reader.pc = "reading" /\ reader.todo = <<>>
    /\ reader' = [reader EXCEPT !.pc = "applicable"]
    /\ UNCHANGED <<workspaceVars, phase, lease, checker, evidenceFiles, binder, checks>>

ForgetVerdict ==
    /\ reader.pc = "applicable" /\ reader' = NotReading
    /\ UNCHANGED <<workspaceVars, phase, lease, checker, evidenceFiles, binder, checks>>

-----------------------------------------------------------------------------
\* Only of an input and of the runtime, missing is told apart from changed.
Versions(p) == IF p \in {"input", "runtime"} THEN {0, 1, 2} ELSE {1, 2}

EditPart(p, v) ==
    /\ edits < MaxEdits /\ edits' = edits + 1
    /\ parts[p] # v /\ parts' = [parts EXCEPT ![p] = v]
    /\ reader' = [reader EXCEPT !.edited = reader.pc # "idle"]
    /\ UNCHANGED <<manifest, valid, phase, lease, checker, evidenceFiles, binder, checks>>

ApprovalEnds ==
    /\ edits < MaxEdits /\ edits' = edits + 1
    /\ valid /\ valid' = FALSE
    /\ UNCHANGED <<manifest, parts, phase, lease, checker, evidenceFiles, binder, reader, checks>>

EvidenceInit ==
    /\ manifest \in Manifests
    /\ parts = [p \in Parts |-> 1] /\ valid = TRUE /\ phase = "open" /\ lease = NoLease
    /\ checker = [c \in Checkers |-> Idle]
    /\ captures = {} /\ pointer = None /\ attestation = None
    /\ binder = NotBinding /\ certificate = NoReceipt /\ moved = FALSE
    /\ reader = NotReading /\ edits = 0 /\ checks = 0

EvidenceNext ==
    \/ \E c \in Checkers :
         \/ Authorize(c) \/ Begin(c) \/ Fingerprint(c) \/ RunCheck(c) \/ End(c)
         \/ Capture(c) \/ Point(c) \/ Attest(c) \/ CheckEnds(c)
    \/ PostflightBegins \/ ReadAttestation \/ CompareCurrent \/ WriteReceipt
    \/ Postflighted \/ PostflightDies \/ AbandonRun
    \/ LoadReport \/ ReadAuthenticity \/ ReadPart \/ Conclude \/ ForgetVerdict
    \/ \E p \in Parts : \E v \in Versions(p) : EditPart(p, v)
    \/ ApprovalEnds

EvidenceSpec == EvidenceInit /\ [][EvidenceNext]_evidenceVars

-----------------------------------------------------------------------------
(* Properties.                                                             *)

\* A report says passed only if every requirement was met: none of them manual or
\* without its inputs, and every tool did exit as expected with at least one test, all
\* tests and subtests passing, nothing skipped, and the evidence and passes asked for
\* (requirements.py 333-498, 545-600, 855-935, 948-982, 1241-1300).
PassedMeansTrue ==
    \A c \in Checkers :
        checker[c].report.aggregate = Success => checker[c].met /\ checker[c].report.certifiable

\* A receipt that binds evidence binds the report the pointer names, whoever
\* wrote the two files, unless a later check moved the pointer
\* (postflight.py 203-226, certificate.py 298-326).
BindsWhatStood ==
    phase = "postflighted" /\ certificate.binds # None /\ ~moved => pointer = certificate.binds

\* What the pointer, the attestation and the receipt name is preserved,
\* through kills (requirements.py 1351-1394, 1527-1539).
EvidenceStands ==
    {pointer, attestation, certificate.binds} \subseteq captures \cup {None}

\* Evidence called applicable is that of the receipt, of a source that stood
\* still, and of the workspace as it is if nobody edits it meanwhile
\* (freshness.py 100-368, 439-455).
ApplicableHolds ==
    reader.pc = "applicable" =>
        /\ reader.report.certifiable /\ reader.report \in captures
        /\ ~reader.edited => \A p \in Parts : ~Changed(reader.report, p, parts[p])
=============================================================================
