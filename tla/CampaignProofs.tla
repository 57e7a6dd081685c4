--------------------------- MODULE CampaignProofs ---------------------------
(***************************************************************************)
(* Proofs about Campaign for any number of tasks and workers, any timeouts *)
(* with the margins of campaign.py and any log: who reaps gem5, and what   *)
(* the classes in the results mean.                                        *)
(***************************************************************************)
EXTENDS Campaign, TLAPS

Evidence ==
    [marker : Markers, stream : {"stdout", "stderr"}, rc : Int, timedOut : BOOLEAN,
     silent : BOOLEAN, answer : Answers, landed : BOOLEAN, faults : Nat, pa : Marks]

Results == NineClasses \cup {"", "Unknown"}

(* The part of the state the argument is about; a task has a result when   *)
(* it is done and not before.                                              *)
CampaignType ==
    /\ phase \in [Tasks -> Phases]
    /\ gem5 \in [Tasks -> {"none", "running", "exited", "killed"}]
    /\ age \in [Tasks -> Nat] /\ spawnedAt \in [Tasks -> Nat]
    /\ evidence \in [Tasks -> Evidence]
    /\ result \in [Tasks -> Results]
    /\ protected \in BOOLEAN /\ outer \in [Tasks -> BOOLEAN]
    /\ \A t \in Tasks : phase[t] # "done" => result[t] = ""

(* gem5 runs under its runner from the moment it is started until it is    *)
(* reaped, and only a task that is done can have left it behind.           *)
RunnerOwnsGem5 ==
    \A t \in Tasks :
      /\ phase[t] \in {"queued", "starting"} =>
           gem5[t] = "none" /\ spawnedAt[t] = 0 /\ evidence[t] = NoEvidence
      /\ phase[t] = "scoring" => gem5[t] # "running"

(* Neither timeout is ever overrun.                                        *)
Deadlines ==
    \A t \in Tasks :
      /\ Busy(t) => age[t] <= OuterTimeout
      /\ phase[t] = "queued" => age[t] = 0
      /\ phase[t] = "simulating" =>
           spawnedAt[t] <= age[t] /\ simAge(t) <= RunnerTimeout

(* The program's answer differs from the golden one after a fault only,    *)
(* counted or not, and a fault that was counted has landed.                *)
WrongAfterFault ==
    \A t \in Tasks :
      evidence[t].answer = "other" \/ evidence[t].faults > 0 => evidence[t].landed

CampaignInv ==
    /\ CampaignType /\ RunnerOwnsGem5 /\ Deadlines /\ WrongAfterFault
    /\ PromptRunnerReaps /\ SDCExact /\ NoFaultNoVerdict

-----------------------------------------------------------------------------
(* The classifier *)

(* The six-class classifier says SDC or Masked of faulty runs with a       *)
(* verdict only, and SDC of all those with a wrong one that gem5 survived. *)
LEMMA SixMeaning ==
    ASSUME NEW e \in Evidence
    PROVE  /\ classify_run(e) \in SixClasses
           /\ classify_run(e) = "SDC" => Wrong(e) /\ ~is_simerr(e)
           /\ Wrong(e) => classify_run(e) = "SDC" \/ Outranks(classify_run(e), e)
           /\ classify_run(e) = "Masked" => e.faults > 0
BY DEF classify_run, Evidence, Answers, SixClasses, Wrong, Outranks

(* So does the nine-class classifier, where a contained error may outrank  *)
(* the verdict.                                                            *)
LEMMA NineMeaning ==
    ASSUME NEW e \in Evidence, protected
    PROVE  LET c == classify_run_pa(e)
           IN  /\ c \in NineClasses
               /\ c = "SDC" => Wrong(e) /\ ~is_simerr(e)
               /\ Wrong(e) => c = "SDC" \/ Outranks(c, e)
               /\ c \in {"Masked", "SDC", "Corrected", "Latent"} => e.faults > 0
<1> DEFINE c == classify_run_pa(e)
<1>1. c \in NineClasses
  BY DEF classify_run_pa, Marks, SixClasses, NineClasses
<1>4. c \in {"Masked", "SDC", "Corrected", "Latent"} => e.faults > 0
  BY DEF classify_run_pa, Evidence
<1>2. c = "SDC" => Wrong(e) /\ ~is_simerr(e)
  BY DEF classify_run_pa, Evidence, Answers, Wrong
<1>3. Wrong(e) => c = "SDC" \/ Outranks(c, e)
  BY DEF classify_run_pa, Evidence, Wrong, Outranks
<1> QED
  BY <1>1, <1>2, <1>3, <1>4

(* The two lists of tests against each other.                              *)
LEMMA NineSplitsSix ==
    ASSUME NEW e \in Evidence
    PROVE  Splits(classify_run_pa(e), classify_run(e), e)
<1>1. CASE is_simerr(e) \/ (e.timedOut /\ e.answer = "none")
  BY <1>1 DEF Splits, classify_run_pa, classify_run
<1>2. CASE ~is_simerr(e) /\ ~(e.timedOut /\ e.answer = "none") /\ Crashed(e)
  BY <1>2 DEF Splits, classify_run_pa, classify_run, Evidence, Answers
<1>3. CASE ~is_simerr(e) /\ ~(e.timedOut /\ e.answer = "none") /\ ~Crashed(e)
  BY <1>3 DEF Splits, classify_run_pa, classify_run, Evidence, Answers
<1> QED
  BY <1>1, <1>2, <1>3

(* Under every oracle and protection model a class that speaks of a        *)
(* fault's effect needs a fault, and SDC is a wrong answer that nothing    *)
(* outranks.                                                               *)
LEMMA ClassMeaning ==
    ASSUME NEW e \in Evidence, protected \in BOOLEAN
    PROVE  LET c == Classification(oracle, protected, e)
           IN  /\ c \in NineClasses
               /\ c = "SDC" => Wrong(e) /\ ~is_simerr(e)
               /\ Wrong(e) => c = "SDC" \/ Outranks(c, e)
               /\ c \in {"Masked", "SDC", "Corrected", "Latent"} => e.faults > 0
<1>1. CASE oracle = "fail_count"
  BY <1>1 DEF Classification, fail_count, Evidence, NineClasses, SixClasses, Wrong, Outranks
<1>2. CASE oracle # "fail_count" /\ protected
  BY <1>2, NineMeaning DEF Classification
<1>3. CASE oracle # "fail_count" /\ ~protected
  BY <1>3, SixMeaning DEF Classification, NineClasses, SixClasses, Wrong
<1> QED
  BY <1>1, <1>2, <1>3

-----------------------------------------------------------------------------
(* The inductive invariant *)

LEMMA Timeouts ==
    /\ OuterTimeout \in Nat /\ RunnerTimeout \in Nat
    /\ OuterTimeout <= RunnerTimeout + Head
    /\ RunnerTimeout + Head <= OuterTimeout
BY CampaignAssumption, MarginAssumption DEF OuterTimeout, RunnerTimeout

LEMMA NothingPrinted == NoEvidence.answer = "none" /\ NoEvidence.faults = 0
BY DEF NoEvidence

LEMMA InitCampaign == Init => CampaignInv
<1> SUFFICES ASSUME Init PROVE CampaignInv
  OBVIOUS
<1>1. NoEvidence \in Evidence
  BY DEF NoEvidence, Evidence, Answers, Marks, Markers
<1>2. CampaignType
  BY <1>1, CampaignAssumption DEF Init, CampaignType, Phases, Results, NineClasses
<1>3. RunnerOwnsGem5 /\ Deadlines /\ PromptRunnerReaps
  BY DEF Init, RunnerOwnsGem5, Deadlines, Busy, PromptRunnerReaps
<1>4. WrongAfterFault /\ SDCExact /\ NoFaultNoVerdict
  <2>1. \A t \in Tasks : /\ evidence[t].answer = "none" /\ evidence[t].faults = 0
                         /\ result[t] = "" /\ phase[t] = "queued"
    BY NothingPrinted DEF Init
  <2>2. WrongAfterFault
    <3>0. ~(0 > 0)
      OBVIOUS
    <3>1. \A t \in Tasks : ~(evidence[t].answer = "other" \/ evidence[t].faults > 0)
      BY <2>1, <3>0, Zenon
    <3> QED
      BY <3>1, Zenon DEF WrongAfterFault
  <2>3. SDCExact
    BY <2>1 DEF SDCExact, ExactCount, Wrong
  <2>4. NoFaultNoVerdict
    BY <2>1 DEF NoFaultNoVerdict
  <2> QED
    BY <2>2, <2>3, <2>4
<1> QED
  BY <1>2, <1>3, <1>4 DEF CampaignInv

(* A step changes what is known of one task only.                          *)
OthersKept(t) ==
    /\ UNCHANGED <<oracle, protected>>
    /\ \A u \in Tasks \ {t} :
         /\ phase'[u] = phase[u] /\ evidence'[u] = evidence[u]
         /\ result'[u] = result[u] /\ outer'[u] = outer[u]

(* Then only that task's count has to be shown exact, which is nothing to  *)
(* show while it has no result.                                            *)
LEMMA ExactByTask ==
    ASSUME SDCExact, NEW t \in Tasks, OthersKept(t), ExactCount(t)'
    PROVE  SDCExact'
<1> SUFFICES ASSUME NEW u \in Tasks, u # t PROVE ExactCount(u)'
  BY DEF SDCExact
<1>1. /\ phase'[u] = phase[u] /\ evidence'[u] = evidence[u]
      /\ result'[u] = result[u] /\ outer'[u] = outer[u]
      /\ oracle' = oracle /\ protected' = protected
  BY DEF OthersKept
<1>2. ExactCount(u)
  BY DEF SDCExact
<1> QED
  BY <1>1, <1>2 DEF ExactCount, Wrong, Outranks, is_simerr, is_arch_trap, Crashed

LEMMA PendingExact ==
    ASSUME SDCExact, NEW t \in Tasks, OthersKept(t), phase'[t] # "done", result'[t] = ""
    PROVE  SDCExact'
<1>1. ExactCount(t)'
  BY DEF ExactCount
<1> QED
  BY <1>1, ExactByTask

(* A worker takes a task. *)
LEMMA SubmitKeeps ==
    ASSUME CampaignInv, NEW t \in Tasks, Submit(t)
    PROVE  CampaignInv'
<1> USE DEF CampaignInv
<1>1. CampaignType'
  BY CampaignAssumption DEF Submit, CampaignType, Phases, Evidence, Results, NineClasses, SixClasses
<1>2. RunnerOwnsGem5'
  BY DEF Submit, CampaignType, RunnerOwnsGem5
<1>3. Deadlines'
  <2>1. age[t] = 0 /\ 0 <= OuterTimeout
    BY Timeouts DEF Submit, Deadlines
  <2> QED
    BY <2>1 DEF Submit, CampaignType, Deadlines, Busy, simAge
<1>4. WrongAfterFault'
  BY DEF Submit, CampaignType, Evidence, WrongAfterFault
<1>5. PromptRunnerReaps'
  BY Timeouts DEF Submit, CampaignType, RunnerOwnsGem5, Deadlines, PromptRunnerReaps
<1>6. SDCExact'
  <2>1. OthersKept(t) /\ phase'[t] # "done" /\ result'[t] = ""
    BY DEF Submit, CampaignType, OthersKept
  <2> QED
    BY <2>1, PendingExact
<1>7. NoFaultNoVerdict'
  BY DEF Submit, CampaignType, Evidence, NoFaultNoVerdict
<1> QED
  BY <1>1, <1>2, <1>3, <1>4, <1>5, <1>6, <1>7

(* The runner starts gem5. *)
LEMMA SpawnKeeps ==
    ASSUME CampaignInv, NEW t \in Tasks, Spawn(t)
    PROVE  CampaignInv'
<1> USE DEF CampaignInv
<1>1. CampaignType'
  BY CampaignAssumption DEF Spawn, CampaignType, Phases, Evidence, Results, NineClasses, SixClasses
<1>2. RunnerOwnsGem5'
  BY DEF Spawn, CampaignType, RunnerOwnsGem5
<1>3. Deadlines'
  <2> SUFFICES ASSUME NEW u \in Tasks
               PROVE  /\ Busy(u)' => age[u] <= OuterTimeout
                      /\ phase'[u] = "queued" => age[u] = 0
                      /\ phase'[u] = "simulating" =>
                           /\ spawnedAt'[u] <= age[u]
                           /\ age[u] - spawnedAt'[u] <= RunnerTimeout
    BY DEF Spawn, Deadlines, simAge
  <2>1. CASE u = t
    <3>1. spawnedAt'[t] = age[t] /\ phase'[t] = "simulating"
      BY DEF Spawn, CampaignType
    <3>2. age[t] \in Nat /\ age[t] <= OuterTimeout /\ age[t] - age[t] <= RunnerTimeout
      <4>1. age[t] \in Nat /\ age[t] <= OuterTimeout
        BY DEF Spawn, CampaignType, Deadlines, Busy
      <4> QED
        BY <4>1, Timeouts
    <3> QED
      BY <2>1, <3>1, <3>2
  <2>2. CASE u # t
    BY <2>2 DEF Spawn, CampaignType, Deadlines, Busy, simAge
  <2> QED
    BY <2>1, <2>2
<1>4. WrongAfterFault'
  BY DEF Spawn, CampaignType, Evidence, WrongAfterFault
<1>5. PromptRunnerReaps'
  BY Timeouts DEF Spawn, CampaignType, RunnerOwnsGem5, Deadlines, PromptRunnerReaps
<1>6. SDCExact'
  <2>1. OthersKept(t) /\ phase'[t] # "done" /\ result'[t] = ""
    BY DEF Spawn, CampaignType, OthersKept
  <2> QED
    BY <2>1, PendingExact
<1>7. NoFaultNoVerdict'
  BY DEF Spawn, CampaignType, Evidence, NoFaultNoVerdict
<1> QED
  BY <1>1, <1>2, <1>3, <1>4, <1>5, <1>6, <1>7

(* A mark stays a mark.                                                    *)
LEMMA FirstMarkType == ASSUME NEW a, NEW b PROVE FirstMark(a, b) \in Marks
BY DEF FirstMark, Marks

(* A fault is logged. *)
LEMMA LogFaultKeeps ==
    ASSUME CampaignInv, NEW t \in Tasks, LogFault(t)
    PROVE  CampaignInv'
<1> USE DEF CampaignInv
<1>p. PICK m \in Marks :
         evidence' = [evidence EXCEPT
             ![t] = [evidence[t] EXCEPT !.landed = TRUE, !.faults = @ + 1,
                                        !.pa = FirstMark(@, m)]]
  BY DEF LogFault, Marks
<1>t. evidence[t] \in Evidence
  BY DEF CampaignType
<1> DEFINE mark == FirstMark(evidence[t].pa, m)
           n == evidence[t].faults + 1
           e == [evidence[t] EXCEPT !.landed = TRUE, !.faults = n, !.pa = mark]
<1>m. mark \in Marks /\ n \in Nat /\ n > 0
  BY <1>t, FirstMarkType DEF Evidence
<1>e. e \in Evidence /\ evidence' = [evidence EXCEPT ![t] = e]
  <2>1. evidence' = [evidence EXCEPT ![t] = e]
    BY <1>p
  <2> HIDE DEF mark, n
  <2>2. e \in Evidence
    BY <1>m, <1>t DEF Evidence
  <2> QED
    BY <2>1, <2>2
<1>1. CampaignType'
  BY <1>e DEF LogFault, Watched, CampaignType, Phases
<1>2. RunnerOwnsGem5'
  BY DEF LogFault, Watched, CampaignType, RunnerOwnsGem5
<1>3. Deadlines'
  BY Timeouts DEF LogFault, Watched, CampaignType, RunnerOwnsGem5, Deadlines, Busy, simAge
<1>4. WrongAfterFault'
  <2>1. e.answer = "other" \/ e.faults > 0 => e.landed
    BY <1>m, <1>t DEF Evidence
  <2> QED
    BY <1>e, <2>1 DEF CampaignType, WrongAfterFault
<1>5. PromptRunnerReaps'
  BY Timeouts DEF LogFault, Watched, CampaignType, RunnerOwnsGem5, Deadlines, PromptRunnerReaps
<1>6. SDCExact'
  <2>1. OthersKept(t) /\ phase'[t] # "done" /\ result'[t] = ""
    BY DEF LogFault, Watched, CampaignType, OthersKept
  <2> QED
    BY <2>1, PendingExact
<1>7. NoFaultNoVerdict'
  BY DEF LogFault, Watched, CampaignType, Evidence, NoFaultNoVerdict
<1> QED
  BY <1>1, <1>2, <1>3, <1>4, <1>5, <1>6, <1>7

(* A fault lands that no log the runner reads shows. *)
LEMMA UncountedFaultKeeps ==
    ASSUME CampaignInv, NEW t \in Tasks, UncountedFault(t)
    PROVE  CampaignInv'
<1> USE DEF CampaignInv
<1> DEFINE e == [evidence[t] EXCEPT !.landed = TRUE]
<1>t. evidence[t] \in Evidence
  BY DEF CampaignType
<1>e. e \in Evidence /\ evidence' = [evidence EXCEPT ![t] = e]
  <2>1. e \in Evidence
    BY <1>t DEF Evidence
  <2> QED
    BY <2>1 DEF UncountedFault
<1>1. CampaignType'
  BY <1>e DEF UncountedFault, Watched, CampaignType, Phases
<1>2. RunnerOwnsGem5'
  BY DEF UncountedFault, Watched, CampaignType, RunnerOwnsGem5
<1>3. Deadlines'
  BY Timeouts DEF UncountedFault, Watched, CampaignType, RunnerOwnsGem5, Deadlines, Busy, simAge
<1>4. WrongAfterFault'
  <2>1. e.landed
    BY <1>t DEF Evidence
  <2> QED
    BY <1>e, <2>1 DEF CampaignType, WrongAfterFault
<1>5. PromptRunnerReaps'
  BY Timeouts DEF UncountedFault, Watched, CampaignType, RunnerOwnsGem5, Deadlines, PromptRunnerReaps
<1>6. SDCExact'
  <2>1. OthersKept(t) /\ phase'[t] # "done" /\ result'[t] = ""
    BY DEF UncountedFault, Watched, CampaignType, OthersKept
  <2> QED
    BY <2>1, PendingExact
<1>7. NoFaultNoVerdict'
  BY DEF UncountedFault, Watched, CampaignType, Evidence, NoFaultNoVerdict
<1> QED
  BY <1>1, <1>2, <1>3, <1>4, <1>5, <1>6, <1>7

(* The program prints its verdict, a wrong one after a fault only. *)
LEMMA PrintAnswerKeeps ==
    ASSUME CampaignInv, NEW t \in Tasks, PrintAnswer(t)
    PROVE  CampaignInv'
<1> USE DEF CampaignInv
<1>p. PICK a \in IF evidence[t].landed THEN {"golden", "other"} ELSE {"golden"} :
         evidence' = [evidence EXCEPT ![t].answer = a]
  BY DEF PrintAnswer
<1> DEFINE e == [evidence[t] EXCEPT !.answer = a]
<1>t. evidence[t] \in Evidence
  BY DEF CampaignType
<1>e. e \in Evidence /\ evidence' = [evidence EXCEPT ![t] = e]
  <2>1. e \in Evidence
    BY <1>p, <1>t DEF Evidence, Answers
  <2> QED
    BY <1>p, <2>1 DEF PrintAnswer, Watched
<1>1. CampaignType'
  BY <1>e DEF PrintAnswer, Watched, CampaignType, Phases
<1>2. RunnerOwnsGem5'
  BY DEF PrintAnswer, Watched, CampaignType, RunnerOwnsGem5
<1>3. Deadlines'
  BY Timeouts DEF PrintAnswer, Watched, CampaignType, RunnerOwnsGem5, Deadlines, Busy, simAge
<1>4. WrongAfterFault'
  <2>1. e.answer = "other" \/ e.faults > 0 => e.landed
    BY <1>p, <1>t DEF Evidence, WrongAfterFault
  <2> QED
    BY <1>e, <2>1 DEF CampaignType, WrongAfterFault
<1>5. PromptRunnerReaps'
  BY Timeouts DEF PrintAnswer, Watched, CampaignType, RunnerOwnsGem5, Deadlines, PromptRunnerReaps
<1>6. SDCExact'
  <2>1. OthersKept(t) /\ phase'[t] # "done" /\ result'[t] = ""
    BY DEF PrintAnswer, Watched, CampaignType, OthersKept
  <2> QED
    BY <2>1, PendingExact
<1>7. NoFaultNoVerdict'
  BY DEF PrintAnswer, Watched, CampaignType, Evidence, NoFaultNoVerdict
<1> QED
  BY <1>1, <1>2, <1>3, <1>4, <1>5, <1>6, <1>7

(* gem5 ends and the runner goes on to the logs. *)
LEMMA ExitKeeps ==
    ASSUME CampaignInv, NEW t \in Tasks, NEW rc \in {0, 1}, NEW m \in ExitMarkers,
           NEW s \in {"stdout", "stderr"}, Exit(t, rc, m, s)
    PROVE  CampaignInv'
<1> USE DEF CampaignInv
<1>p. rc \in Int /\ m \in Markers
  BY CampaignAssumption
<1> DEFINE e == [evidence[t] EXCEPT !.rc = rc, !.marker = m, !.stream = s,
                                    !.silent = FALSE]
<1>t. evidence[t] \in Evidence
  BY DEF CampaignType
<1>e. e \in Evidence /\ evidence' = [evidence EXCEPT ![t] = e]
  <2>1. e \in Evidence
    BY <1>p, <1>t DEF Evidence, Answers
  <2> QED
    BY <1>p, <2>1 DEF Exit, Watched
<1>1. CampaignType'
  BY <1>e DEF Exit, Watched, CampaignType, Phases
<1>2. RunnerOwnsGem5'
  BY DEF Exit, Watched, CampaignType, RunnerOwnsGem5
<1>3. Deadlines'
  BY Timeouts DEF Exit, Watched, CampaignType, RunnerOwnsGem5, Deadlines, Busy, simAge
<1>4. WrongAfterFault'
  <2>1. e.answer = "other" \/ e.faults > 0 => e.landed
    BY <1>p, <1>t DEF Evidence, WrongAfterFault
  <2> QED
    BY <1>e, <2>1 DEF CampaignType, WrongAfterFault
<1>5. PromptRunnerReaps'
  BY Timeouts DEF Exit, Watched, CampaignType, RunnerOwnsGem5, Deadlines, PromptRunnerReaps
<1>6. SDCExact'
  <2>1. OthersKept(t) /\ phase'[t] # "done" /\ result'[t] = ""
    BY DEF Exit, Watched, CampaignType, OthersKept
  <2> QED
    BY <2>1, PendingExact
<1>7. NoFaultNoVerdict'
  BY DEF Exit, Watched, CampaignType, Evidence, NoFaultNoVerdict
<1> QED
  BY <1>1, <1>2, <1>3, <1>4, <1>5, <1>6, <1>7

(* An orphan ends. *)
LEMMA OrphanExitKeeps ==
    ASSUME CampaignInv, NEW t \in Tasks, OrphanExit(t)
    PROVE  CampaignInv'
<1> USE DEF CampaignInv
<1>1. CampaignType'
  BY CampaignAssumption DEF OrphanExit, CampaignType, Phases, Evidence, Results, NineClasses, SixClasses
<1>2. RunnerOwnsGem5'
  BY DEF OrphanExit, CampaignType, RunnerOwnsGem5
<1>3. Deadlines'
  BY Timeouts DEF OrphanExit, CampaignType, RunnerOwnsGem5, Deadlines, Busy, simAge
<1>4. WrongAfterFault'
  BY DEF OrphanExit, CampaignType, Evidence, WrongAfterFault
<1>5. PromptRunnerReaps'
  BY Timeouts DEF OrphanExit, CampaignType, RunnerOwnsGem5, Deadlines, PromptRunnerReaps
<1>6. SDCExact'
  <2>1. OthersKept(t) /\ ExactCount(t)'
    BY DEF OrphanExit, OthersKept, SDCExact, ExactCount, Wrong, Outranks, is_simerr,
       is_arch_trap, Crashed
  <2> QED
    BY <2>1, ExactByTask
<1>7. NoFaultNoVerdict'
  BY DEF OrphanExit, CampaignType, Evidence, NoFaultNoVerdict
<1> QED
  BY <1>1, <1>2, <1>3, <1>4, <1>5, <1>6, <1>7

(* The runner's timeout kills gem5. *)
LEMMA RunnerTimesOutKeeps ==
    ASSUME CampaignInv, NEW t \in Tasks, RunnerTimesOut(t)
    PROVE  CampaignInv'
<1> USE DEF CampaignInv
<1>p. PICK s \in BOOLEAN, m \in Markers, stream \in {"stdout", "stderr"} :
         evidence' = [evidence EXCEPT ![t] = [@ EXCEPT
             !.rc = -9, !.timedOut = TRUE, !.silent = s, !.marker = m, !.stream = stream]]
  BY CampaignAssumption DEF RunnerTimesOut
<1> DEFINE e == [evidence[t] EXCEPT !.rc = -9, !.timedOut = TRUE, !.silent = s,
                                    !.marker = m, !.stream = stream]
<1>t. evidence[t] \in Evidence
  BY DEF CampaignType
<1>e. e \in Evidence /\ evidence' = [evidence EXCEPT ![t] = e]
  <2>1. e \in Evidence
    <3>1. -9 \in Int
      OBVIOUS
    <3> QED
      BY <1>t, <3>1 DEF Evidence
  <2> QED
    BY <1>p, <2>1 DEF RunnerTimesOut, RunnerDue
<1>1. CampaignType'
  BY <1>e DEF RunnerTimesOut, RunnerDue, CampaignType, Phases
<1>2. RunnerOwnsGem5'
  BY DEF RunnerTimesOut, RunnerDue, CampaignType, RunnerOwnsGem5
<1>3. Deadlines'
  BY Timeouts DEF RunnerTimesOut, RunnerDue, CampaignType, RunnerOwnsGem5, Deadlines, Busy, simAge
<1>4. WrongAfterFault'
  <2>1. e.answer = "other" \/ e.faults > 0 => e.landed
    BY <1>p, <1>t DEF Evidence, WrongAfterFault
  <2> QED
    BY <1>e, <2>1 DEF CampaignType, WrongAfterFault
<1>5. PromptRunnerReaps'
  BY Timeouts DEF RunnerTimesOut, RunnerDue, CampaignType, RunnerOwnsGem5, Deadlines, PromptRunnerReaps
<1>6. SDCExact'
  <2>1. OthersKept(t) /\ phase'[t] # "done" /\ result'[t] = ""
    BY DEF RunnerTimesOut, RunnerDue, CampaignType, OthersKept
  <2> QED
    BY <2>1, PendingExact
<1>7. NoFaultNoVerdict'
  BY DEF RunnerTimesOut, RunnerDue, CampaignType, Evidence, NoFaultNoVerdict
<1> QED
  BY <1>1, <1>2, <1>3, <1>4, <1>5, <1>6, <1>7

(* The runner classifies the run. *)
LEMMA ScoreKeeps ==
    ASSUME CampaignInv, NEW t \in Tasks, Score(t)
    PROVE  CampaignInv'
<1> USE DEF CampaignInv
<1> DEFINE c == Classification(oracle, protected, evidence[t])
<1>c. /\ c \in NineClasses /\ result' = [result EXCEPT ![t] = c]
      /\ c = "SDC" => Wrong(evidence[t]) /\ ~is_simerr(evidence[t])
      /\ Wrong(evidence[t]) => c = "SDC" \/ Outranks(c, evidence[t])
      /\ c \in {"Masked", "SDC", "Corrected", "Latent"} => evidence[t].faults > 0
  BY ClassMeaning DEF Score, CampaignType
<1> HIDE DEF c
<1>1. CampaignType'
  BY <1>c DEF Score, CampaignType, Phases, Results
<1>2. RunnerOwnsGem5'
  BY DEF Score, CampaignType, RunnerOwnsGem5
<1>3. Deadlines'
  BY Timeouts DEF Score, CampaignType, RunnerOwnsGem5, Deadlines, Busy, simAge
<1>4. WrongAfterFault'
  BY DEF Score, CampaignType, Evidence, WrongAfterFault
<1>5. PromptRunnerReaps'
  BY Timeouts DEF Score, CampaignType, RunnerOwnsGem5, Deadlines, PromptRunnerReaps
<1>6. SDCExact'
  <2>1. /\ OthersKept(t) /\ result'[t] = c /\ evidence' = evidence
        /\ oracle' = oracle /\ protected' = protected
    BY <1>c DEF Score, CampaignType, OthersKept
  <2>2. ExactCount(t)'
    BY <1>c, <2>1 DEF ExactCount, Wrong, Outranks, is_simerr, is_arch_trap, Crashed
  <2> QED
    BY <2>1, <2>2, ExactByTask
<1>7. NoFaultNoVerdict'
  <2>1. /\ evidence' = evidence /\ evidence[t].faults \in Nat
        /\ \A u \in Tasks \ {t} : result'[u] = result[u] /\ phase'[u] = phase[u]
        /\ result'[t] = c
    BY <1>c DEF Score, CampaignType, Evidence
  <2>2. evidence[t].faults = 0 => c \notin {"Masked", "SDC", "Corrected", "Latent"}
    BY <1>c, <2>1
  <2> QED
    BY <2>1, <2>2 DEF NoFaultNoVerdict
<1> QED
  BY <1>1, <1>2, <1>3, <1>4, <1>5, <1>6, <1>7

(* The campaign's timeout ends the task: had gem5 been started within the  *)
(* head start, the runner's timeout would have come first.                 *)
LEMMA OuterTimesOutKeeps ==
    ASSUME CampaignInv, NEW t \in Tasks, OuterTimesOut(t)
    PROVE  CampaignInv'
<1> USE DEF CampaignInv
<1>1. CampaignType'
  BY CampaignAssumption DEF OuterTimesOut, OuterDue, CampaignType, Phases, Evidence, Results, NineClasses, SixClasses
<1>2. RunnerOwnsGem5'
  BY DEF OuterTimesOut, OuterDue, CampaignType, RunnerOwnsGem5
<1>3. Deadlines'
  BY Timeouts DEF OuterTimesOut, OuterDue, CampaignType, RunnerOwnsGem5, Deadlines, Busy, simAge
<1>4. WrongAfterFault'
  BY DEF OuterTimesOut, OuterDue, CampaignType, Evidence, WrongAfterFault
<1>5. PromptRunnerReaps'
  <2>1. gem5[t] = "running" => phase[t] = "simulating"
    BY DEF OuterTimesOut, OuterDue, Busy, RunnerOwnsGem5
  <2>2. phase[t] = "simulating" => ~(spawnedAt[t] < Head)
    <3>1. age[t] = OuterTimeout /\ age[t] \in Nat /\ spawnedAt[t] \in Nat /\ Head \in Nat
      BY CampaignAssumption DEF OuterTimesOut, OuterDue, CampaignType
    <3>2. phase[t] = "simulating" => age[t] - spawnedAt[t] <= RunnerTimeout
      BY DEF Deadlines, simAge
    <3> QED
      BY <3>1, <3>2, Timeouts
  <2> QED
    BY <2>1, <2>2 DEF OuterTimesOut, CampaignType, PromptRunnerReaps
<1>6. SDCExact'
  <2>1. OthersKept(t) /\ result'[t] = "Hang" /\ outer'[t]
    BY DEF OuterTimesOut, OuterDue, CampaignType, OthersKept
  <2>2. ExactCount(t)'
    BY <2>1 DEF ExactCount
  <2> QED
    BY <2>1, <2>2, ExactByTask
<1>7. NoFaultNoVerdict'
  BY DEF OuterTimesOut, OuterDue, CampaignType, Evidence, NoFaultNoVerdict
<1> QED
  BY <1>1, <1>2, <1>3, <1>4, <1>5, <1>6, <1>7

(* The runner dies without a result. *)
LEMMA RunnerFailsKeeps ==
    ASSUME CampaignInv, NEW t \in Tasks, RunnerFails(t)
    PROVE  CampaignInv'
<1> USE DEF CampaignInv
<1>1. CampaignType'
  BY CampaignAssumption DEF RunnerFails, CampaignType, Phases, Evidence, Results, NineClasses, SixClasses
<1>2. RunnerOwnsGem5'
  BY DEF RunnerFails, CampaignType, RunnerOwnsGem5
<1>3. Deadlines'
  BY Timeouts DEF RunnerFails, CampaignType, RunnerOwnsGem5, Deadlines, Busy, simAge
<1>4. WrongAfterFault'
  BY DEF RunnerFails, CampaignType, Evidence, WrongAfterFault
<1>5. PromptRunnerReaps'
  BY Timeouts DEF RunnerFails, CampaignType, RunnerOwnsGem5, Deadlines, PromptRunnerReaps
<1>6. SDCExact'
  <2>1. OthersKept(t) /\ result'[t] = "Unknown"
    BY DEF RunnerFails, CampaignType, OthersKept
  <2>2. ExactCount(t)'
    BY <2>1 DEF ExactCount
  <2> QED
    BY <2>1, <2>2, ExactByTask
<1>7. NoFaultNoVerdict'
  BY DEF RunnerFails, CampaignType, Evidence, NoFaultNoVerdict
<1> QED
  BY <1>1, <1>2, <1>3, <1>4, <1>5, <1>6, <1>7

(* The runner cannot be started. *)
LEMMA WorkerFailsKeeps ==
    ASSUME CampaignInv, NEW t \in Tasks, WorkerFails(t)
    PROVE  CampaignInv'
<1> USE DEF CampaignInv
<1>1. CampaignType'
  BY CampaignAssumption DEF WorkerFails, CampaignType, Phases, Evidence, Results, NineClasses, SixClasses
<1>2. RunnerOwnsGem5'
  BY DEF WorkerFails, CampaignType, RunnerOwnsGem5
<1>3. Deadlines'
  BY Timeouts DEF WorkerFails, CampaignType, RunnerOwnsGem5, Deadlines, Busy, simAge
<1>4. WrongAfterFault'
  BY DEF WorkerFails, CampaignType, Evidence, WrongAfterFault
<1>5. PromptRunnerReaps'
  BY Timeouts DEF WorkerFails, CampaignType, RunnerOwnsGem5, Deadlines, PromptRunnerReaps
<1>6. SDCExact'
  <2>1. OthersKept(t) /\ result'[t] # "SDC" /\ evidence' = evidence
    BY DEF WorkerFails, CampaignType, OthersKept
  <2>2. evidence[t].answer = "none"
    BY NothingPrinted DEF WorkerFails, RunnerOwnsGem5
  <2>3. ExactCount(t)'
    BY <2>1, <2>2 DEF ExactCount, Wrong
  <2> QED
    BY <2>1, <2>3, ExactByTask
<1>7. NoFaultNoVerdict'
  BY DEF WorkerFails, CampaignType, Evidence, NoFaultNoVerdict
<1> QED
  BY <1>1, <1>2, <1>3, <1>4, <1>5, <1>6, <1>7

(* Time passes for busy tasks that have not reached a deadline.            *)
LEMMA TickKeeps == CampaignInv /\ Tick => CampaignInv'
<1> SUFFICES ASSUME CampaignInv, Tick PROVE CampaignInv'
  OBVIOUS
<1> USE DEF CampaignInv
<1>a. \A t \in Tasks : age[t] \in Nat /\ age'[t] = IF Busy(t) THEN age[t] + 1 ELSE age[t]
  BY DEF Tick, CampaignType
<1>1. CampaignType' /\ RunnerOwnsGem5'
  <2>1. age' \in [Tasks -> Nat]
    BY <1>a DEF Tick
  <2> QED
    BY <2>1 DEF Tick, CampaignType, RunnerOwnsGem5
<1>2. Deadlines'
  <2> SUFFICES ASSUME NEW t \in Tasks
               PROVE  /\ Busy(t) => age'[t] <= OuterTimeout
                      /\ phase[t] = "queued" => age'[t] = 0
                      /\ phase[t] = "simulating" =>
                           /\ spawnedAt[t] <= age'[t]
                           /\ age'[t] - spawnedAt[t] <= RunnerTimeout
    BY DEF Tick, Deadlines, simAge, Busy
  <2>1. Busy(t) => age[t] <= OuterTimeout /\ age[t] # OuterTimeout
    BY DEF Tick, Deadlines, OuterDue
  <2>2. phase[t] = "simulating" =>
          /\ Busy(t) /\ spawnedAt[t] \in Nat /\ spawnedAt[t] <= age[t]
          /\ age[t] - spawnedAt[t] <= RunnerTimeout
          /\ age[t] - spawnedAt[t] # RunnerTimeout
    BY DEF Tick, CampaignType, Deadlines, RunnerDue, simAge, Busy
  <2>3. phase[t] = "queued" => ~Busy(t) /\ age[t] = 0
    BY DEF Deadlines, Busy
  <2> QED
    BY <1>a, <2>1, <2>2, <2>3, Timeouts
<1>3. WrongAfterFault' /\ PromptRunnerReaps' /\ SDCExact' /\ NoFaultNoVerdict'
  BY DEF Tick, WrongAfterFault, PromptRunnerReaps, SDCExact, ExactCount, Wrong, Outranks,
     is_simerr, is_arch_trap, Crashed, NoFaultNoVerdict
<1> QED
  BY <1>1, <1>2, <1>3

LEMMA NextCampaign == CampaignInv /\ [Next]_vars => CampaignInv'
<1> SUFFICES ASSUME CampaignInv, [Next]_vars PROVE CampaignInv'
  OBVIOUS
<1>1. CASE UNCHANGED vars
  BY <1>1 DEF vars, CampaignInv, CampaignType, RunnerOwnsGem5, Deadlines, Busy, simAge,
     WrongAfterFault, PromptRunnerReaps, SDCExact, ExactCount, Wrong, Outranks, is_simerr,
     is_arch_trap, Crashed, NoFaultNoVerdict
<1>2. ASSUME NEW t \in Tasks, Simulates(t) PROVE CampaignInv'
  BY <1>2, LogFaultKeeps, UncountedFaultKeeps, PrintAnswerKeeps, OrphanExitKeeps, ExitKeeps DEF Simulates
<1> QED
  BY <1>1, <1>2, SubmitKeeps, SpawnKeeps, RunnerTimesOutKeeps, ScoreKeeps,
     OuterTimesOutKeeps, RunnerFailsKeeps, WorkerFailsKeeps, TickKeeps DEF Next

-----------------------------------------------------------------------------
(* The inductive invariant holds in every campaign.                        *)
THEOREM CampaignInvariance == Spec => []CampaignInv
<1> QED
  BY InitCampaign, NextCampaign, PTL DEF Spec

(* run_one shortens the runner's timeout by a head start: a runner that    *)
(* starts gem5 within it reaps gem5 before the campaign gives up on it,    *)
(* for every --hang-timeout and any number of workers.                     *)
THEOREM RunnerReaps == Spec => []PromptRunnerReaps
<1>1. CampaignInv => PromptRunnerReaps
  BY DEF CampaignInv
<1> QED
  BY <1>1, CampaignInvariance, PTL

(* An SDC in the results is a wrong answer after a counted fault, and such *)
(* an answer is an SDC unless a report of the list in SDCExact outranks it.*)
THEOREM SDCSound == Spec => []SDCExact
<1>1. CampaignInv => SDCExact
  BY DEF CampaignInv
<1> QED
  BY <1>1, CampaignInvariance, PTL

(* A run without a logged fault is never counted as Masked, SDC, Corrected *)
(* or Latent.                                                              *)
THEOREM VerdictNeedsFault == Spec => []NoFaultNoVerdict
<1>1. CampaignInv => NoFaultNoVerdict
  BY DEF CampaignInv
<1> QED
  BY <1>1, CampaignInvariance, PTL

(* The nine-class list of tests splits the classes of the six-class list   *)
(* on every evidence the runner scores.                                    *)
THEOREM NineRefineSix == Spec => []PARefinesSix
<1>1. CampaignInv => PARefinesSix
  <2> SUFFICES ASSUME CampaignInv, NEW t \in Tasks
               PROVE  Splits(classify_run_pa(evidence[t]), classify_run(evidence[t]),
                             evidence[t])
    BY DEF PARefinesSix
  <2>1. evidence[t] \in Evidence
    BY DEF CampaignInv, CampaignType
  <2> QED
    BY <2>1, NineSplitsSix
<1> QED
  BY <1>1, CampaignInvariance, PTL
=============================================================================
