-------------------------- MODULE Adapters_proofs --------------------------
(***************************************************************************)
(* The adapters are well typed and tidy for any number of concurrent       *)
(* evaluations, whatever the tools report and however they end, and their  *)
(* verdicts are what their own tools reported.                             *)
(***************************************************************************)
EXTENDS Adapters, Documents_proofs

Inv == TypeOK /\ NothingLeftBehind

\* Whatever the output of a tool, judging it gives a verdict or an exception.
LEMMA JudgedIsVerdict ==
    ASSUME TypeOK, NEW e \in Evaluations, pc[e] = "judge"
    PROVE  Judged(e) \in Verdicts
<1> USE DEF Verdicts, FailIf
<1>1. local[e].kind \in Kinds
  BY DEF TypeOK, ThreadsTyped, LocalTyped
<1>2. \A o : JudgeSarif(o) \in Verdicts
  BY DEF JudgeSarif, ComputeResult
<1>3. JudgeOpa(local[e].code, local[e].out) \in Verdicts
  BY DEF JudgeOpa
<1>4. JudgeConftest(local[e].out) \in Verdicts
  BY DEF JudgeConftest
<1>5. JudgeCheckov(SarifFile(e)) \in Verdicts
  BY <1>2 DEF JudgeCheckov
<1>6. JudgeSemgrep(local[e].code, local[e].out, local[e].temp) \in Verdicts
  BY <1>2 DEF JudgeSemgrep
<1>7. QED
  BY <1>1, <1>3, <1>4, <1>5, <1>6 DEF Judged, Kinds

\* An evaluation that returns or raises leaves its thread idle.
LEMMA LeavingIsTyped ==
    ASSUME TypeOK, NEW e \in Evaluations, NEW v \in Verdicts, Leaves(e, v)
    PROVE  ThreadsTyped' /\ pc' = [pc EXCEPT ![e] = "idle"]
  BY DEF TypeOK, ThreadsTyped, Leaves

\* An evaluation that goes on keeps its thread typed if its locals are.
LEMMA GoingIsTyped ==
    ASSUME TypeOK, NEW e \in Evaluations,
           NEW to \in {"policy", "binary", "materialise", "rundir", "run", "judge"}, Goes(e, to),
           DOMAIN local' = Evaluations, DOMAIN told' = Evaluations,
           LocalTyped(local'[e]), \A f \in Evaluations \ {e} : local'[f] = local[f]
    PROVE  ThreadsTyped' /\ pc' = [pc EXCEPT ![e] = to]
<1>1. pc' = [pc EXCEPT ![e] = to] /\ verdict' = verdict
  BY DEF Goes
<1>2. pc \in [Evaluations -> {"idle", "policy", "binary", "materialise", "rundir", "run", "judge"}]
  BY DEF TypeOK, ThreadsTyped
<1>3. ASSUME NEW f \in Evaluations
      PROVE  IF pc'[f] = "idle" THEN local'[f] = None ELSE LocalTyped(local'[f])
  BY <1>1, <1>2 DEF TypeOK, ThreadsTyped
<1>4. QED
  BY <1>1, <1>2, <1>3 DEF TypeOK, ThreadsTyped

\* The environment changes beside the evaluations.
LEMMA ChangeKeepsInv == ASSUME Inv, Change PROVE Inv'
<1> USE DEF Inv, TypeOK, Change, files
<1>1. changes' \in 0..MaxChanges
  BY ChangesAssumption DEF EnvironmentTyped
<1>2. policy' \in BOOLEAN
  <2>1. CASE policy' = ~policy
    BY <2>1, Zenon
  <2>2. CASE UNCHANGED policy
    BY <2>2, Zenon DEF EnvironmentTyped
  <2>3. QED
    BY <2>1, <2>2
<1>3. binaries' \subseteq Kinds
  BY DEF EnvironmentTyped
<1>4. FilesTyped' /\ ThreadsTyped' /\ NothingLeftBehind'
  BY DEF FilesTyped, ThreadsTyped, NothingLeftBehind
<1>5. QED
  BY <1>1, <1>2, <1>3, <1>4 DEF EnvironmentTyped

\* Up to the run of the tool, nothing is left by an evaluation that gives up.
LEMMA StartKeepsInv ==
    ASSUME Inv, NEW e \in Evaluations,
           Begin(e) \/ CheckPolicy(e) \/ CheckBinary(e) \/ MaterialiseFails(e)
    PROVE  Inv'
<1> USE DEF Inv, TypeOK, environment, files
<1>1. CASE Begin(e)
  <2> DEFINE Fresh(k, a) == [kind |-> k, artifact |-> a, temp |-> FALSE,
                             code |-> 0, out |-> NoFile]
  <2>1. PICK k \in Kinds, a \in Artifacts : local' = [local EXCEPT ![e] = Fresh(k, a)]
    BY <1>1, Zenon DEF Begin
  <2>2. Fresh(k, a).temp \in BOOLEAN
    BY Zenon
  <2>3. LocalTyped(Fresh(k, a))
    BY <2>2, SMT DEF LocalTyped
  <2> HIDE DEF Fresh
  <2>4. ThreadsTyped'
    BY <1>1, <2>1, <2>3 DEF Begin, ThreadsTyped
  <2>5. EnvironmentTyped' /\ FilesTyped' /\ NothingLeftBehind'
    BY <1>1 DEF Begin, EnvironmentTyped, FilesTyped, ThreadsTyped, NothingLeftBehind
  <2>6. QED
    BY <2>4, <2>5
<1>2. CASE CheckPolicy(e) \/ CheckBinary(e)
  <2>1. EnvironmentTyped' /\ FilesTyped' /\ temps' = temps /\ rundirs' = rundirs
    BY <1>2 DEF CheckPolicy, CheckBinary, EnvironmentTyped, FilesTyped
  <2>2. pc[e] \in {"policy", "binary"}
    BY <1>2 DEF CheckPolicy, CheckBinary
  <2>3. CASE Leaves(e, "error")
    <3>1. ThreadsTyped' /\ pc' = [pc EXCEPT ![e] = "idle"]
      BY <2>3, LeavingIsTyped DEF Verdicts
    <3>2. NothingLeftBehind'
      BY <2>1, <2>2, <3>1 DEF NothingLeftBehind, ThreadsTyped, FilesTyped
    <3>3. QED
      BY <2>1, <3>1, <3>2
  <2>4. CASE ~Leaves(e, "error")
    <3>1. PICK to \in {"binary", "materialise"} : Goes(e, to)
      BY <1>2, <2>4 DEF CheckPolicy, CheckBinary
    <3>2. local' = local /\ told' = told
      BY <1>2, <2>4 DEF CheckPolicy, CheckBinary
    <3>3. ThreadsTyped' /\ pc' = [pc EXCEPT ![e] = to]
      BY <2>2, <3>1, <3>2, GoingIsTyped DEF ThreadsTyped
    <3>4. NothingLeftBehind'
      BY <2>1, <2>2, <3>3 DEF NothingLeftBehind, ThreadsTyped, FilesTyped
    <3>5. QED
      BY <2>1, <3>3, <3>4
  <2>5. QED
    BY <2>3, <2>4
<1>3. CASE MaterialiseFails(e)
  <2>1. PICK v \in {"raised", "error"} : Leaves(e, v)
    BY <1>3 DEF MaterialiseFails
  <2>2. ThreadsTyped' /\ pc' = [pc EXCEPT ![e] = "idle"]
    BY <2>1, LeavingIsTyped DEF Verdicts
  <2>3. EnvironmentTyped' /\ FilesTyped'
    BY <1>3 DEF MaterialiseFails, EnvironmentTyped, FilesTyped
  <2>4. NothingLeftBehind'
    BY <1>3, <2>2 DEF MaterialiseFails, NothingLeftBehind, ThreadsTyped, FilesTyped
  <2>5. QED
    BY <2>2, <2>3, <2>4
<1>4. QED
  BY <1>1, <1>2, <1>3

\* From the temp file on, every way out of an evaluation goes through the
\* clean-up of the adapter.
LEMMA RunKeepsInv ==
    ASSUME Inv, NEW e \in Evaluations,
           Materialise(e) \/ MakeRunDir(e) \/ RunDirFails(e) \/ RunFails(e) \/ RunTool(e) \/ Judge(e)
    PROVE  Inv'
<1> USE DEF Inv, TypeOK, environment, files
<1>1. CASE Materialise(e)
  <2>1. LocalTyped(local[e]) /\ DOMAIN local = Evaluations
    BY <1>1 DEF Materialise, ThreadsTyped
  <2>2. Writes(local[e].kind, local[e].artifact) \in BOOLEAN
    BY DEF Writes, ScansInPlace
  <2>3. LocalTyped(local'[e])
    BY <1>1, <2>1, <2>2 DEF Materialise, LocalTyped
  <2>4. PICK to \in {"rundir", "run"} : Goes(e, to)
    BY <1>1 DEF Materialise
  <2>8. ThreadsTyped' /\ pc' = [pc EXCEPT ![e] = to]
    BY <1>1, <2>1, <2>3, <2>4, GoingIsTyped DEF Materialise, ThreadsTyped
  <2>5. EnvironmentTyped' /\ FilesTyped'
    BY <1>1 DEF Materialise, EnvironmentTyped, FilesTyped
  <2>6. NothingLeftBehind'
    BY <1>1, <2>8 DEF Materialise, NothingLeftBehind, ThreadsTyped, FilesTyped
  <2>7. QED
    BY <2>8, <2>5, <2>6
<1>6. CASE MakeRunDir(e)
  <2>1. LocalTyped(local[e])
    BY <1>6 DEF MakeRunDir, ThreadsTyped
  <2>2. ThreadsTyped' /\ pc' = [pc EXCEPT ![e] = "run"]
    BY <1>6, <2>1, GoingIsTyped DEF MakeRunDir, ThreadsTyped
  <2>3. EnvironmentTyped' /\ FilesTyped'
    BY <1>6 DEF MakeRunDir, EnvironmentTyped, FilesTyped, RunDir
  <2>4. NothingLeftBehind'
    BY <1>6, <2>2 DEF MakeRunDir, NothingLeftBehind, ThreadsTyped, FilesTyped, RunDir
  <2>5. QED
    BY <2>2, <2>3, <2>4
<1>2. CASE RunFails(e) \/ RunDirFails(e)
  <2>1. PICK v \in {"raised", "error"} : Leaves(e, v)
    BY <1>2 DEF RunFails, RunDirFails, ToolMissing, ToolHangs, ToolUnusable
  <2>2. ThreadsTyped' /\ pc' = [pc EXCEPT ![e] = "idle"]
    BY <2>1, LeavingIsTyped DEF Verdicts
  <2>3. EnvironmentTyped' /\ FilesTyped'
    BY <1>2 DEF RunFails, RunDirFails, Removed, RunDir, EnvironmentTyped, FilesTyped, Unlinked
  <2>4. NothingLeftBehind'
    BY <1>2, <2>2 DEF RunFails, RunDirFails, Removed, RunDir, NothingLeftBehind, ThreadsTyped,
                      FilesTyped, Unlinked
  <2>5. QED
    BY <2>2, <2>3, <2>4
<1>3. CASE RunTool(e)
  <2>1. PICK c \in Codes(local[e].kind), o \in Outputs(local[e].kind) : ToolEnds(e, c, o)
    BY <1>3 DEF RunTool
  <2>2. LocalTyped(local[e]) /\ DOMAIN local = Evaluations /\ DOMAIN told = Evaluations
    BY <2>1 DEF ToolEnds, ThreadsTyped
  <2>3. c \in 0..2
    BY <2>1 DEF Codes
  <2>4. LocalTyped(local'[e]) /\ DOMAIN local' = Evaluations /\ DOMAIN told' = Evaluations
    BY <2>1, <2>2, <2>3 DEF ToolEnds, LocalTyped
  <2>5. \A f \in Evaluations \ {e} : local'[f] = local[f]
    BY <2>1, <2>2 DEF ToolEnds
  <2>6. ThreadsTyped' /\ pc' = [pc EXCEPT ![e] = "judge"]
    BY <2>1, <2>4, <2>5, GoingIsTyped DEF ToolEnds
  <2>7. EnvironmentTyped' /\ FilesTyped'
    BY <2>1 DEF ToolEnds, EnvironmentTyped, FilesTyped, Unlinked, RunDir
  <2>8. NothingLeftBehind'
    BY <2>1, <2>6 DEF ToolEnds, NothingLeftBehind, ThreadsTyped, FilesTyped, Unlinked, RunDir
  <2>9. QED
    BY <2>6, <2>7, <2>8
<1>4. CASE Judge(e)
  <2>1. Judged(e) \in Verdicts
    BY <1>4, JudgedIsVerdict DEF Judge
  <2>2. ThreadsTyped' /\ pc' = [pc EXCEPT ![e] = "idle"]
    BY <1>4, <2>1, LeavingIsTyped DEF Judge
  <2>3. EnvironmentTyped' /\ FilesTyped'
    BY <1>4 DEF Judge, EnvironmentTyped, FilesTyped, Unlinked, Removed, RunDir
  <2>4. NothingLeftBehind'
    BY <1>4, <2>2 DEF Judge, NothingLeftBehind, ThreadsTyped, FilesTyped, Unlinked, Removed, RunDir
  <2>5. QED
    BY <2>2, <2>3, <2>4
<1>5. QED
  BY <1>1, <1>2, <1>3, <1>4, <1>6

LEMMA InitInv == Init => Inv
<1> SUFFICES ASSUME Init PROVE Inv
  OBVIOUS
<1>1. policy \in BOOLEAN /\ orphans \in BOOLEAN
  BY Zenon DEF Init
<1>2. EnvironmentTyped
  BY <1>1, ChangesAssumption DEF Init, EnvironmentTyped
<1>3. FilesTyped
  BY <1>1 DEF Init, FilesTyped
<1>4. ThreadsTyped /\ NothingLeftBehind
  BY DEF Init, ThreadsTyped, NothingLeftBehind
<1>5. QED
  BY <1>2, <1>3, <1>4 DEF Inv, TypeOK

LEMMA NextKeepsInv == Inv /\ [Next]_vars => Inv'
<1> SUFFICES ASSUME Inv, [Next]_vars PROVE Inv'
  OBVIOUS
<1>1. CASE Change
  BY <1>1, ChangeKeepsInv
<1>2. ASSUME NEW e \in Evaluations, Begin(e) \/ Evaluate(e) PROVE Inv'
  BY <1>2, StartKeepsInv, RunKeepsInv DEF Evaluate
<1>3. CASE UNCHANGED vars
  BY <1>3 DEF vars, environment, files, Inv, TypeOK, EnvironmentTyped, FilesTyped,
              ThreadsTyped, NothingLeftBehind
<1>4. QED
  BY <1>1, <1>2, <1>3 DEF Next

LEMMA InvHolds == Spec => []Inv
  BY InitInv, NextKeepsInv, PTL DEF Spec

----------------------------------------------------------------------------
\* The output that is judged

\* A step changes the thread of one evaluation, the run directory of none but
\* its own, and the environment; or nothing but the environment.
LEMMA StepsAreOfOneEvaluation ==
    ASSUME Inv, NEW e \in Evaluations, Begin(e) \/ Evaluate(e),
           NEW f \in Evaluations \ {e}
    PROVE  /\ pc'[f] = pc[f] /\ local'[f] = local[f]
           /\ told'[f] = told[f] /\ verdict'[f] = verdict[f]
           /\ f \in DOMAIN rundirs => f \in DOMAIN rundirs' /\ rundirs'[f] = rundirs[f]
<1> USE DEF Inv, TypeOK, ThreadsTyped, files
<1>1. CASE Begin(e)
  BY <1>1 DEF Begin
<1>2. CASE CheckPolicy(e) \/ CheckBinary(e)
  BY <1>2 DEF CheckPolicy, CheckBinary, Goes, Leaves
<1>3. CASE Materialise(e)
  BY <1>3 DEF Materialise, Goes
<1>4. CASE MaterialiseFails(e)
  BY <1>4 DEF MaterialiseFails, Leaves
<1>5. CASE RunFails(e) \/ RunDirFails(e)
  BY <1>5 DEF RunFails, RunDirFails, Removed, RunDir, ToolMissing, ToolHangs, ToolUnusable, Leaves
<1>6. CASE RunTool(e)
  BY <1>6 DEF RunTool, ToolEnds, RunDir, Goes
<1>7. CASE Judge(e)
  BY <1>7 DEF Judge, Removed, RunDir, Leaves
<1>8. CASE MakeRunDir(e)
  BY <1>8 DEF MakeRunDir, RunDir, Goes
<1>9. QED
  BY <1>1, <1>2, <1>3, <1>4, <1>5, <1>6, <1>7, <1>8 DEF Evaluate

\* Only the end of its tool brings an evaluation to be judged.
LEMMA JudgedAfterItsTool ==
    ASSUME Inv, NEW e \in Evaluations, Begin(e) \/ Evaluate(e), pc'[e] = "judge"
    PROVE  RunTool(e)
<1> USE DEF Inv, TypeOK, ThreadsTyped
<1>1. ~Begin(e)
  BY DEF Begin
<1>2. ~CheckPolicy(e) /\ ~CheckBinary(e)
  BY DEF CheckPolicy, CheckBinary, Goes, Leaves
<1>3. ~Materialise(e) /\ ~MaterialiseFails(e)
  BY DEF Materialise, MaterialiseFails, Goes, Leaves
<1>4. ~MakeRunDir(e) /\ ~RunDirFails(e) /\ ~RunFails(e) /\ ~Judge(e)
  BY DEF MakeRunDir, RunDirFails, RunFails, ToolMissing, ToolHangs, ToolUnusable, Judge, Goes, Leaves
<1>5. QED
  BY <1>1, <1>2, <1>3, <1>4 DEF Evaluate

Owned(e) == /\ told[e] \in Outputs(local[e].kind)
            /\ IF local[e].kind = "checkov" THEN e \in DOMAIN rundirs /\ rundirs[e] = told[e]
               ELSE local[e].out = told[e]

HasRunDir(e) == pc[e] = "run" /\ local[e].kind = "checkov" => e \in DOMAIN rundirs

\* checkov runs in a directory that exists.
LEMMA RunsInItsDir ==
    ASSUME Inv, NEW e \in Evaluations, Begin(e) \/ Evaluate(e), pc'[e] = "run"
    PROVE  HasRunDir(e)'
<1> USE DEF Inv, TypeOK, ThreadsTyped
<1>1. ~Begin(e)
  BY DEF Begin
<1>2. ~CheckPolicy(e) /\ ~CheckBinary(e) /\ ~MaterialiseFails(e)
  BY DEF CheckPolicy, CheckBinary, MaterialiseFails, Goes, Leaves
<1>3. ~RunDirFails(e) /\ ~RunFails(e) /\ ~RunTool(e) /\ ~Judge(e)
  BY DEF RunDirFails, RunFails, ToolMissing, ToolHangs, ToolUnusable, RunTool, ToolEnds, Judge,
         Goes, Leaves
<1>4. CASE Materialise(e)
  <2>1. LocalTyped(local[e])
    BY <1>4 DEF Materialise
  <2>2. local'[e].kind = local[e].kind
    BY <1>4, <2>1 DEF Materialise, LocalTyped
  <2>3. local[e].kind # "checkov"
    BY <1>4 DEF Materialise, Goes
  <2>4. QED
    BY <2>2, <2>3 DEF HasRunDir
<1>5. CASE MakeRunDir(e)
  BY <1>5 DEF MakeRunDir, RunDir, HasRunDir
<1>6. QED
  BY <1>1, <1>2, <1>3, <1>4, <1>5 DEF Evaluate

LEMMA RunToolOwns ==
    ASSUME Inv, NEW e \in Evaluations, HasRunDir(e), RunTool(e) PROVE Owned(e)'
<1>1. PICK c \in Codes(local[e].kind), o \in Outputs(local[e].kind) : ToolEnds(e, c, o)
  BY DEF RunTool
<1>2. DOMAIN local = Evaluations /\ DOMAIN told = Evaluations /\ LocalTyped(local[e])
  BY <1>1 DEF Inv, TypeOK, ThreadsTyped, ToolEnds
<1>3. told'[e] = o
  BY <1>1, <1>2 DEF ToolEnds
<1>4. CASE local[e].kind = "checkov"
  BY <1>1, <1>3, <1>4 DEF ToolEnds, RunDir, HasRunDir, Owned
<1>5. CASE local[e].kind # "checkov"
  <2>1. local'[e].kind = local[e].kind /\ local'[e].out = o
    BY <1>1, <1>2, <1>5 DEF ToolEnds, LocalTyped
  <2>2. QED
    BY <1>3, <1>5, <2>1 DEF Owned
<1>6. QED
  BY <1>4, <1>5

LEMMA NextKeepsOwnOutput == Inv /\ OwnOutput /\ [Next]_vars => OwnOutput'
<1> SUFFICES ASSUME Inv, OwnOutput, [Next]_vars PROVE OwnOutput'
  OBVIOUS
<1>1. OwnOutput <=> \A e \in Evaluations : HasRunDir(e) /\ (pc[e] = "judge" => Owned(e))
  BY DEF OwnOutput, Owned, HasRunDir
<1>2. OwnOutput' <=> \A e \in Evaluations : HasRunDir(e)' /\ (pc'[e] = "judge" => Owned(e)')
  BY DEF OwnOutput, Owned, HasRunDir
<1>3. CASE Change \/ UNCHANGED vars
  BY <1>3 DEF Change, OwnOutput, vars, files
<1>4. ASSUME NEW e \in Evaluations, Begin(e) \/ Evaluate(e) PROVE OwnOutput'
  <2> SUFFICES ASSUME NEW f \in Evaluations
               PROVE  HasRunDir(f)' /\ (pc'[f] = "judge" => Owned(f)')
    BY <1>2
  <2>1. CASE f = e
    <3>1. HasRunDir(f)'
      BY <1>4, <2>1, RunsInItsDir DEF HasRunDir
    <3>2. pc'[f] = "judge" => Owned(f)'
      BY <1>1, <1>4, <2>1, JudgedAfterItsTool, RunToolOwns
    <3>3. QED
      BY <3>1, <3>2
  <2>2. CASE f # e
    <3>1. /\ pc'[f] = pc[f] /\ local'[f] = local[f] /\ told'[f] = told[f]
          /\ f \in DOMAIN rundirs => f \in DOMAIN rundirs' /\ rundirs'[f] = rundirs[f]
      BY <1>4, <2>2, StepsAreOfOneEvaluation
    <3>2. HasRunDir(f) /\ (pc[f] = "judge" => Owned(f))
      BY <1>1
    <3>3. QED
      BY <3>1, <3>2 DEF Owned, HasRunDir
  <2>3. QED
    BY <2>1, <2>2
<1>5. QED
  BY <1>3, <1>4 DEF Next

\* The adapters' inductive invariant (engine/adapters): every adapter returns a
\* verdict or raises, its control, files and locals are typed, nothing is left
\* behind, and what is judged is the output of the evaluation's own tool.
THEOREM AdaptersInvariance == Spec => []IInv
<1>1. Init => OwnOutput
  BY DEF Init, OwnOutput
<1>2. Inv /\ OwnOutput => IInv
  BY DEF Inv, IInv
<1>3. QED
  BY <1>1, <1>2, NextKeepsOwnOutput, InvHolds, PTL DEF Spec

\* However the tool ended and whatever ran next to it, a temp file or tree
\* whose path the adapter holds, and the run directory checkov is started in,
\* exist only from their creation to the end of their evaluation (finally
\* clauses and the with-block of checkov).  It does not speak of orphans: the
\* file whose path is lost when the dump into it fails (opa.py:53) stays.
THEOREM TidyAdapters == Spec => []NothingLeftBehind
<1>1. Inv => NothingLeftBehind
  BY DEF Inv
<1>2. QED
  BY <1>1, InvHolds, PTL

\* Only its judgement gives an evaluation a verdict that is not an error.
LEMMA VerdictIsJudged ==
    ASSUME Inv, NEW e \in Evaluations, Begin(e) \/ Evaluate(e), verdict'[e] # verdict[e],
           verdict'[e] \in {"pass", "fail"}
    PROVE  pc[e] = "judge" /\ verdict'[e] = Judged(e)
<1> USE DEF Inv, TypeOK, ThreadsTyped
<1>1. ~Begin(e)
  BY OutputsAssumption DEF Begin, Verdicts
<1>2. ~CheckPolicy(e) /\ ~CheckBinary(e)
  BY DEF CheckPolicy, CheckBinary, Goes, Leaves
<1>3. ~Materialise(e) /\ ~MaterialiseFails(e)
  BY DEF Materialise, MaterialiseFails, Goes, Leaves
<1>4. ~MakeRunDir(e) /\ ~RunDirFails(e) /\ ~RunFails(e) /\ ~RunTool(e)
  BY DEF MakeRunDir, RunDirFails, RunFails, ToolMissing, ToolHangs, ToolUnusable, RunTool, ToolEnds,
         Goes, Leaves
<1>5. Judge(e)
  BY <1>1, <1>2, <1>3, <1>4 DEF Evaluate
<1>6. QED
  BY <1>5 DEF Judge, Leaves

\* What judging an output says of it: a verdict that is not an error is of
\* JSON, and a fail is a finding in it.
Finding(kind, o) == /\ o \notin Odd
                    /\ IF kind \in {"opa", "conftest"} THEN o > 0
                       ELSE ComputeResult(ParseSarif(o), MinLevel) = "fail"

LEMMA JudgedByOwnOutput ==
    ASSUME IInv, NEW e \in Evaluations, pc[e] = "judge", Judged(e) \in {"pass", "fail"}
    PROVE  /\ told[e] \in Outputs(local[e].kind) /\ told[e] \notin {None, NotJson, NoFile}
           /\ Judged(e) = "fail" <=> Finding(local[e].kind, told[e])
<1>1. local[e].kind \in Kinds
  BY DEF IInv, TypeOK, ThreadsTyped, LocalTyped
<1>2. /\ told[e] \in Outputs(local[e].kind)
      /\ IF local[e].kind = "checkov" THEN rundirs[e] = told[e] ELSE local[e].out = told[e]
  BY DEF IInv, OwnOutput
<1>3. JudgeSarif(told[e]) = "fail" <=>
        told[e] \notin Odd /\ ComputeResult(ParseSarif(told[e]), MinLevel) = "fail"
  BY DEF JudgeSarif
<1>4. CASE local[e].kind = "opa"
  BY <1>2, <1>4, OutputsAssumption DEF Judged, JudgeOpa, FailIf, Finding, Outputs, Reports
<1>5. CASE local[e].kind = "conftest"
  BY <1>2, <1>5, OutputsAssumption DEF Judged, JudgeConftest, FailIf, Finding, Outputs, Reports, Odd
<1>6. CASE local[e].kind = "checkov"
  BY <1>2, <1>3, <1>6, OutputsAssumption DEF Judged, JudgeCheckov, SarifFile, RunDir, Finding, Outputs, Reports
<1>7. CASE local[e].kind = "semgrep"
  BY <1>2, <1>3, <1>7, OutputsAssumption DEF Judged, JudgeSemgrep, Finding, Outputs, Reports
<1>8. QED
  BY <1>1, <1>4, <1>5, <1>6, <1>7 DEF Kinds

\* A verdict that is not an error is the one the evaluation's own tool earned.
VerdictOfOwnTool ==
    \A e \in Evaluations : verdict'[e] # verdict[e] /\ verdict'[e] \in {"pass", "fail"} =>
        /\ told[e] \in Outputs(local[e].kind) /\ told[e] \notin {None, NotJson, NoFile}
        /\ verdict'[e] = "fail" <=> Finding(local[e].kind, told[e])

LEMMA StepsGiveOwnVerdicts == IInv /\ [Next]_vars => VerdictOfOwnTool
<1> SUFFICES ASSUME IInv, [Next]_vars, NEW e \in Evaluations, verdict'[e] # verdict[e],
                    verdict'[e] \in {"pass", "fail"}
             PROVE  /\ told[e] \in Outputs(local[e].kind) /\ told[e] \notin {None, NotJson, NoFile}
                    /\ verdict'[e] = "fail" <=> Finding(local[e].kind, told[e])
  BY DEF VerdictOfOwnTool
<1>1. Inv
  BY DEF IInv, Inv
<1>2. PICK f \in Evaluations : Begin(f) \/ Evaluate(f)
  BY DEF Next, Change, vars
<1>3. f = e
  BY <1>1, <1>2, StepsAreOfOneEvaluation
<1>4. pc[e] = "judge" /\ verdict'[e] = Judged(e)
  BY <1>1, <1>2, <1>3, VerdictIsJudged
<1>5. QED
  BY <1>4, JudgedByOwnOutput

\* A pass or a fail is read out of what the evaluation's own tool wrote, and
\* never out of a report of an evaluation next to it (the run directory of
\* checkov, the standard output of the others); of SARIF it is what the
\* normaliser makes of it.
THEOREM VerdictsAreOfTheirTool == Spec => [][VerdictOfOwnTool]_vars
<1>1. IInv /\ [Next]_vars => [VerdictOfOwnTool]_vars
  BY StepsGiveOwnVerdicts
<1>2. QED
  BY <1>1, AdaptersInvariance, PTL DEF Spec

\* The normaliser finds what a report says, in every report a tool may write.
THEOREM NormaliserIsExactEverywhere == NormaliserIsExact
<1>1. None \notin Levels
  BY DocumentsAssumption DEF LevelOrder, Levels
<1>2. \A doc \in SarifDocs : ComputeResult(ParseSarif(doc), MinLevel) = "fail" <=> Reported(doc, MinLevel)
  BY <1>1, DocumentsAssumption, NormaliserReads, Zenon
<1>3. QED
  BY <1>2, Zenon DEF NormaliserIsExact

\* So, whatever the tools report and however their runs interleave, a fail is a
\* finding the tool reported and a pass its silence (evaluate of all adapters).
THEOREM VerdictsAreWhatToolsReported == Spec => VerdictIsWhatItsToolReported
<1> DEFINE Told == \A e \in Evaluations : verdict'[e] # verdict[e] /\ verdict'[e] \in {"pass", "fail"} =>
             /\ told[e] \notin {None, NotJson, NoFile}
             /\ (verdict'[e] = "fail") <=>
                   /\ told[e] \notin Odd
                   /\ IF local[e].kind \in {"opa", "conftest"} THEN told[e] > 0
                      ELSE Reported(told[e], MinLevel)
<1>1. VerdictOfOwnTool => Told
  <2> SUFFICES ASSUME VerdictOfOwnTool, NEW e \in Evaluations, verdict'[e] # verdict[e],
                      verdict'[e] \in {"pass", "fail"}
               PROVE  /\ told[e] \notin {None, NotJson, NoFile}
                      /\ (verdict'[e] = "fail") <=>
                            /\ told[e] \notin Odd
                            /\ IF local[e].kind \in {"opa", "conftest"} THEN told[e] > 0
                               ELSE Reported(told[e], MinLevel)
    OBVIOUS
  <2>1. /\ told[e] \in Outputs(local[e].kind) /\ told[e] \notin {None, NotJson, NoFile}
        /\ verdict'[e] = "fail" <=> Finding(local[e].kind, told[e])
    BY DEF VerdictOfOwnTool
  <2>2. ASSUME local[e].kind \notin {"opa", "conftest"}, told[e] \notin Odd
        PROVE  ComputeResult(ParseSarif(told[e]), MinLevel) = "fail" <=> Reported(told[e], MinLevel)
    <3>1. told[e] \in SarifDocs
      BY <2>1, <2>2 DEF Outputs, Reports
    <3>2. QED
      BY <3>1, NormaliserIsExactEverywhere, Zenon DEF NormaliserIsExact
  <2>3. QED
    BY <2>1, <2>2 DEF Finding
<1>2. [][VerdictOfOwnTool]_vars => [][Told]_vars
  BY <1>1, PTL
<1>3. [][Told]_vars => VerdictIsWhatItsToolReported
  BY PTL DEF VerdictIsWhatItsToolReported
<1>4. QED
  BY <1>2, <1>3, VerdictsAreOfTheirTool, PTL
=============================================================================
