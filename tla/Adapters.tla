------------------------------ MODULE Adapters ------------------------------
(***************************************************************************)
(* EngineAdapter.evaluate of the four adapters (opa, conftest, checkov,    *)
(* semgrep), run by several threads at once while policies and tool        *)
(* binaries come and go, disks fill up and tools hang.  The tools are      *)
(* external: a run of one ends in any way subprocess.run can report.       *)
(***************************************************************************)
EXTENDS Sarif, FiniteSets

CONSTANTS
    Evaluations,     \* calls of evaluate
    Denials,         \* reports of opa and conftest: numbers of deny entries
    SarifDocs,       \* reports of checkov and semgrep, see Sarif
    MinLevel,        \* the min_level option
    NotJson,         \* output that is not JSON
    NoFile,          \* no results.sarif
    EmptyObject,     \* JSON, but {}
    OddObject,       \* JSON, but an object with unexpected keys only
    NotAnObject,     \* JSON, but neither an object nor a list of objects
    MaxChanges       \* bound on the changes of the environment

ASSUME ChangesAssumption == MaxChanges \in Nat

Kinds == {"opa", "conftest", "checkov", "semgrep"}
\* A path, a parsed document, a tree of [path, content] items, a value
\* json.dump refuses; semgrep takes neither of the second and the last.
Artifacts == {"path", "document", "tree", "opaque"}

Odd == {EmptyObject, OddObject, NotAnObject}
Verdicts == {"pass", "fail", "error", "raised"}
\* What is no output, or not JSON, is no report, and None is no verdict.
ASSUME OutputsAssumption ==
    /\ \A x \in {None, NoFile, NotJson} : x \notin Denials /\ x \notin SarifDocs /\ x \notin Odd
    /\ None \notin Verdicts /\ None # NoFile /\ None # NotJson
\* Reports are JSON documents, read into lists, and no level is None.
ASSUME DocumentsAssumption ==
    (\A doc \in SarifDocs : IsDocument(doc)) /\ None \notin DOMAIN LevelOrder
Reports(k) == IF k \in {"opa", "conftest"} THEN Denials ELSE SarifDocs

VARIABLES
    policy, binaries, changes,   \* is the policy there; tools on PATH
    temps,                       \* evaluations whose temp file or tree exists
    orphans,                     \* is there a temp file whose path is forgotten
    rundirs,                     \* run directory -> its results.sarif
    pc, local,                   \* per evaluation: control; kind, artifact,
                                 \* temp (its path is set), code and out of the tool
    verdict,                     \* of the last evaluation of a thread
    told                         \* history: what the tool wrote in the current one

environment == <<policy, binaries, changes>>
files == <<temps, orphans, rundirs>>
vars == <<environment, files, pc, local, verdict, told>>

Init == /\ policy = TRUE /\ binaries = Kinds /\ changes = 0
        /\ temps = {} /\ orphans = FALSE
        /\ rundirs = [d \in {} |-> NoFile]
        /\ pc = [e \in Evaluations |-> "idle"]
        /\ local = [e \in Evaluations |-> None]
        /\ verdict = [e \in Evaluations |-> None]
        /\ told = [e \in Evaluations |-> None]

Change == /\ changes < MaxChanges
          /\ changes' = changes + 1
          /\ \/ policy' = ~policy /\ UNCHANGED binaries
             \/ UNCHANGED policy /\ \E k \in Kinds :
                   binaries' = (binaries \ {k}) \cup ({k} \ binaries)
          /\ UNCHANGED <<files, pc, local, verdict, told>>

----------------------------------------------------------------------------

Goes(e, to) == /\ pc' = [pc EXCEPT ![e] = to]
               /\ UNCHANGED verdict

\* The return, or the exception, of an evaluation.
Leaves(e, v) ==
    /\ pc' = [pc EXCEPT ![e] = "idle"]
    /\ local' = [local EXCEPT ![e] = None]
    /\ verdict' = [verdict EXCEPT ![e] = v]
    /\ told' = [told EXCEPT ![e] = None]

Begin(e) ==
    /\ pc[e] = "idle"
    /\ \E k \in Kinds, a \in Artifacts :
          local' = [local EXCEPT ![e] = [kind |-> k, artifact |-> a, temp |-> FALSE,
                                         code |-> 0, out |-> NoFile]]
    /\ pc' = [pc EXCEPT ![e] = "policy"]
    /\ verdict' = [verdict EXCEPT ![e] = None]
    /\ UNCHANGED <<environment, files, told>>

CheckPolicy(e) ==
    /\ pc[e] = "policy"
    /\ \/ policy /\ Goes(e, "binary") /\ UNCHANGED <<local, told>>
       \/ ~policy /\ Leaves(e, "error")
    /\ UNCHANGED <<environment, files>>

Installed(e) == local[e].kind \in binaries

CheckBinary(e) ==
    /\ pc[e] = "binary"
    /\ \/ Installed(e) /\ Goes(e, "materialise") /\ UNCHANGED <<local, told>>
       \/ ~Installed(e) /\ Leaves(e, "error")
    /\ UNCHANGED <<environment, files>>

\* opa and conftest dump anything, a path too; checkov scans a path where it
\* is and dumps the rest; semgrep writes out trees and knows nothing else.
ScansInPlace(k, a) == a = "path" /\ k \in {"checkov", "semgrep"}
Writes(k, a) == IF k = "semgrep" THEN a = "tree" ELSE a # "opaque" /\ ~ScansInPlace(k, a)

Materialise(e) ==
    LET k == local[e].kind
        a == local[e].artifact
    IN  /\ pc[e] = "materialise"
        /\ Writes(k, a) \/ ScansInPlace(k, a)
        /\ local' = [local EXCEPT ![e].temp = Writes(k, a), ![e].artifact = None]
        /\ temps' = IF Writes(k, a) THEN temps \cup {e} ELSE temps
        /\ Goes(e, IF k = "checkov" THEN "rundir" ELSE "run")
        /\ UNCHANGED <<environment, orphans, rundirs, told>>

\* The artifact is of no use to the adapter, or a write fails.  opa and
\* conftest raise, the others report an error.  The temp file may exist before
\* json.dump fails on it, and its path is then forgotten; semgrep removes its tree.
MaterialiseFails(e) ==
    LET k == local[e].kind
    IN  /\ pc[e] = "materialise"
        /\ ~ScansInPlace(k, local[e].artifact)
        /\ Leaves(e, IF k \in {"opa", "conftest"} THEN "raised" ELSE "error")
        /\ \/ UNCHANGED orphans
           \/ k # "semgrep" /\ orphans' = TRUE
        /\ UNCHANGED <<environment, temps, rundirs>>

\* A temp file or tree whose path is set is unlinked in a finally clause.
Unlinked(e) == temps \ {e}

\* Mutant of RunDir: every run has the server's working directory.
RunDirOfServer(e) == "cwd"

\* A fresh TemporaryDirectory per run of checkov, its working directory.
RunDir(e) == e
Removed(e) == [d \in DOMAIN rundirs \ {RunDir(e)} |-> rundirs[d]]

MakeRunDir(e) ==
    /\ pc[e] = "rundir"
    /\ rundirs' = [d \in DOMAIN rundirs \cup {RunDir(e)} |->
                      IF d = RunDir(e) THEN NoFile ELSE rundirs[d]]
    /\ Goes(e, "run")
    /\ UNCHANGED <<environment, temps, orphans, local, told>>

\* Without a directory to create one in, FileNotFoundError is raised again, for
\* a caller that does not catch it; any other failure is an error.
RunDirFails(e) ==
    /\ pc[e] = "rundir"
    /\ \E v \in {"error", "raised"} : Leaves(e, v)
    /\ temps' = Unlinked(e)
    /\ UNCHANGED <<environment, orphans, rundirs>>

\* subprocess.run finds no binary or times out, which all four turn into an
\* error, or fails otherwise (not executable, output that does not decode),
\* which only checkov catches.
ToolMissing(e) == ~Installed(e) /\ Leaves(e, "error")
ToolHangs(e) == Installed(e) /\ Leaves(e, "error")
ToolUnusable(e) == /\ Installed(e)
                   /\ Leaves(e, IF local[e].kind = "checkov" THEN "error" ELSE "raised")

\* Mutant of RunFails: the run directory is removed only when the tool ends.
RunFailsUntidily(e) ==
    /\ pc[e] = "run"
    /\ ToolMissing(e) \/ ToolHangs(e) \/ ToolUnusable(e)
    /\ temps' = Unlinked(e)
    /\ UNCHANGED <<environment, orphans, rundirs>>

\* The run directory goes with its with-block, before the temp file.
RunFails(e) ==
    /\ pc[e] = "run"
    /\ ToolMissing(e) \/ ToolHangs(e) \/ ToolUnusable(e)
    /\ temps' = Unlinked(e)
    /\ rundirs' = Removed(e)
    /\ UNCHANGED <<environment, orphans>>

\* The tool ends with an exit code, which conftest and checkov ignore, and its
\* output: checkov's is a file in its working directory, the others' what they
\* printed.  opa and conftest unlink the temp file at once.
ToolEnds(e, c, o) ==
    /\ pc[e] = "run" /\ Installed(e)
    /\ told' = [told EXCEPT ![e] = o]
    /\ IF local[e].kind = "checkov"
       THEN /\ rundirs' = [rundirs EXCEPT ![RunDir(e)] = o]
            /\ UNCHANGED local
       ELSE /\ local' = [local EXCEPT ![e].code = c, ![e].out = o]
            /\ UNCHANGED rundirs
    /\ temps' = IF local[e].kind \in {"opa", "conftest"} THEN Unlinked(e) ELSE temps
    /\ Goes(e, "judge")
    /\ UNCHANGED <<environment, orphans>>

----------------------------------------------------------------------------
\* From the output to the verdict

FailIf(failed) == IF failed THEN "fail" ELSE "pass"

JudgeOpa(c, o) ==
    IF c # 0 \/ o = NotJson THEN "error" ELSE FailIf(o \notin Odd /\ o > 0)

\* The exit code is not read: conftest exits 1 on failures.  The report is
\* iterated: an object gives its keys, which have no .get, and {} nothing.
JudgeConftest(o) ==
    CASE o = NotJson                     -> "error"
      [] o \in {OddObject, NotAnObject} -> "raised"
      [] OTHER                           -> FailIf(o # EmptyObject /\ o > 0)

JudgeSarif(o) == IF o \in Odd THEN "pass" ELSE ComputeResult(ParseSarif(o), MinLevel)

\* Nor is checkov's exit code.
JudgeCheckov(o) == IF o \in {NoFile, NotJson} THEN "error" ELSE JudgeSarif(o)

\* The paths of a temp tree are stripped before the document is looked at, by
\* a walk that, unlike the normaliser, expects objects and lists everywhere
\* (of runs, results, locations and artifacts; the last two are left out).
Walks(o) ==
    /\ o # NotAnObject
    /\ o \notin Odd =>
          \A i \in DOMAIN o : /\ o[i] # None
                              /\ o[i].results # None
                              /\ \A j \in DOMAIN o[i].results : o[i].results[j] # None
JudgeSemgrep(c, o, stripped) ==
    CASE c \notin {0, 1} \/ o = NotJson                          -> "error"
      [] c \in {0, 1} /\ o # NotJson /\ stripped /\ ~Walks(o)    -> "raised"
      [] OTHER                                                   -> JudgeSarif(o)

\* What checkov is found to have written into its working directory.
SarifFile(e) == IF RunDir(e) \in DOMAIN rundirs THEN rundirs[RunDir(e)] ELSE NoFile

Judged(e) ==
    LET l == local[e]
    IN  CASE l.kind = "opa"      -> JudgeOpa(l.code, l.out)
          [] l.kind = "conftest" -> JudgeConftest(l.out)
          [] l.kind = "checkov"  -> JudgeCheckov(SarifFile(e))
          [] l.kind = "semgrep"  -> JudgeSemgrep(l.code, l.out, l.temp)

Judge(e) ==
    /\ pc[e] = "judge"
    /\ Leaves(e, Judged(e))
    /\ temps' = Unlinked(e)
    /\ rundirs' = Removed(e)
    /\ UNCHANGED <<environment, orphans>>

Codes(k) == IF k \in {"opa", "semgrep"} THEN 0..2 ELSE {0}
Outputs(k) == Reports(k) \cup Odd \cup {NotJson} \cup (IF k = "checkov" THEN {NoFile} ELSE {})
RunTool(e) == pc[e] = "run" /\ \E c \in Codes(local[e].kind), o \in Outputs(local[e].kind) : ToolEnds(e, c, o)

Evaluate(e) == \/ CheckPolicy(e) \/ CheckBinary(e) \/ Materialise(e) \/ MaterialiseFails(e)
               \/ MakeRunDir(e) \/ RunDirFails(e) \/ RunFails(e) \/ RunTool(e) \/ Judge(e)

Next == Change \/ \E e \in Evaluations : Begin(e) \/ Evaluate(e)
Spec == Init /\ [][Next]_vars

----------------------------------------------------------------------------
\* Properties

EnvironmentTyped ==
    policy \in BOOLEAN /\ binaries \subseteq Kinds /\ changes \in 0..MaxChanges
FilesTyped ==
    temps \subseteq Evaluations /\ orphans \in BOOLEAN /\ DOMAIN rundirs \subseteq Evaluations
LocalTyped(l) ==
    /\ DOMAIN l = {"kind", "artifact", "temp", "code", "out"}
    /\ l.kind \in Kinds /\ l.artifact \in Artifacts \cup {None}
    /\ l.temp \in BOOLEAN /\ l.code \in 0..2
ThreadsTyped ==
    /\ pc \in [Evaluations -> {"idle", "policy", "binary", "materialise", "rundir", "run", "judge"}]
    /\ verdict \in [Evaluations -> Verdicts \cup {None}]
    /\ DOMAIN local = Evaluations /\ DOMAIN told = Evaluations
    /\ \A e \in Evaluations : IF pc[e] = "idle" THEN local[e] = None ELSE LocalTyped(local[e])
\* Control, files and locals are what the code's can be.
TypeOK == EnvironmentTyped /\ FilesTyped /\ ThreadsTyped

\* A temp file or tree whose path the evaluation holds, and checkov's run
\* directory, last no longer than the code that needs them, however the tool
\* ended: missing, hanging, unusable or done.  Not covered: the file whose path
\* is lost when the dump into it fails (orphans), and a removal that fails.
NothingLeftBehind ==
    /\ \A e \in temps : pc[e] \in {"rundir", "run", "judge"}
    /\ \A e \in DOMAIN rundirs : pc[e] \in {"run", "judge"}

\* What is judged is what the evaluation's own tool wrote, wherever it wrote
\* it; the working directory of checkov is there as long as it runs.
OwnOutput ==
    \A e \in Evaluations :
        /\ pc[e] = "run" /\ local[e].kind = "checkov" => e \in DOMAIN rundirs
        /\ pc[e] = "judge" =>
             /\ told[e] \in Outputs(local[e].kind)
             /\ IF local[e].kind = "checkov" THEN e \in DOMAIN rundirs /\ rundirs[e] = told[e]
                ELSE local[e].out = told[e]

\* The inductive invariant.
IInv == TypeOK /\ NothingLeftBehind /\ OwnOutput

\* The normaliser's passes find what a document reports.
NormaliserIsExact ==
    \A doc \in SarifDocs : ComputeResult(ParseSarif(doc), MinLevel) = "fail" <=> Reported(doc, MinLevel)

\* A fail is the finding of this evaluation's own tool and a pass is its
\* silence, in JSON, after it ended: never a report of an evaluation running
\* next to it, of another run of the document, nor a finding lost between two
\* results that are malformed or dropped.
VerdictIsWhatItsToolReported ==
    [][\A e \in Evaluations : verdict'[e] # verdict[e] /\ verdict'[e] \in {"pass", "fail"} =>
         /\ told[e] \notin {None, NotJson, NoFile}
         /\ (verdict'[e] = "fail") <=>
               /\ told[e] \notin Odd
               /\ IF local[e].kind \in {"opa", "conftest"} THEN told[e] > 0
                  ELSE Reported(told[e], MinLevel)]_vars
=============================================================================
