------------------------------ MODULE Campaign ------------------------------
(***************************************************************************)
(* tools/campaign.py and tools/runner.py: a pool of workers, each starting *)
(* a runner in a session of its own, which starts gem5 in another session; *)
(* two nested wall-clock timeouts with their kills; the classification of  *)
(* the evidence.                                                           *)
(*                                                                         *)
(* Time is counted in minutes of wall clock, rounded to the margins of the *)
(* code; a deadline is served before time moves past it.                   *)
(***************************************************************************)
EXTENDS Classify, FiniteSets

CONSTANTS
    Tasks,          \* the (cell, rep) runs of one cell
    Jobs,           \* --jobs
    HangTimeout,    \* --hang-timeout
    OuterMargin,    \* what main() adds to it for run_one: 120 s
    Head,           \* what run_one takes off again for the runner: 60 s
    Floor,          \* the least timeout of the runner: 60 s
    Oracles,        \* oracle.kind of the workloads considered
    Protections,    \* whether protection_model is set
    ExitMarkers,    \* the failure markers gem5 may print
    FaultCap        \* bound: injections a log may show

ASSUME CampaignAssumption ==
    /\ IsFiniteSet(Tasks)
    /\ Jobs \in Nat \ {0}
    /\ HangTimeout \in Nat /\ OuterMargin \in Nat /\ Head \in Nat /\ Floor \in Nat
    /\ Oracles \subseteq {"exact_hash", "fail_count"}
    /\ Protections \subseteq BOOLEAN /\ ExitMarkers \subseteq Markers
    /\ FaultCap \in Nat

(* campaign.py: 60 s + 60 s <= 120 s, so that the floor of the runner's    *)
(* timeout never eats up the head start.                                   *)
ASSUME MarginAssumption == Head + Floor <= OuterMargin

VARIABLES
    oracle, protected,  \* the workload's oracle; protection_model # none
    phase,      \* of a task: see Phases
    gem5,       \* its simulator: "none", "running", "exited" or "killed"
    age,        \* minutes since its runner was started
    spawnedAt,  \* the runner's age when it started gem5 (0 before)
    evidence,   \* what the simulation has produced so far
    outer,      \* the campaign's own timeout ended the task
    result,     \* its class, "" while it has none
    aborted     \* main() has ended with an exception

vars == <<oracle, protected, phase, gem5, age, spawnedAt, evidence, outer, result,
          aborted>>

Phases == {"queued", "starting", "simulating", "scoring", "done"}
NoEvidence == [marker |-> "none", stream |-> "stderr", rc |-> 0,
               timedOut |-> FALSE, silent |-> TRUE, answer |-> "none",
               landed |-> FALSE, faults |-> 0, pa |-> ""]

(* run_one's timeout, and CHAOS_HANG_TIMEOUT, which it derives from it.    *)
OuterTimeout == HangTimeout + OuterMargin
RunnerTimeoutBug == OuterTimeout
RunnerTimeout == IF OuterTimeout - Head < Floor THEN Floor ELSE OuterTimeout - Head

Busy(t) == phase[t] \in {"starting", "simulating", "scoring"}
simAge(t) == age[t] - spawnedAt[t]
RunnerDue(t) == phase[t] = "simulating" /\ simAge(t) = RunnerTimeout
OuterDue(t) == Busy(t) /\ age[t] = OuterTimeout

Init ==
    /\ oracle \in Oracles
    /\ protected \in Protections
    /\ phase = [t \in Tasks |-> "queued"]
    /\ gem5 = [t \in Tasks |-> "none"]
    /\ age = [t \in Tasks |-> 0]
    /\ spawnedAt = [t \in Tasks |-> 0]
    /\ evidence = [t \in Tasks |-> NoEvidence]
    /\ outer = [t \in Tasks |-> FALSE]
    /\ result = [t \in Tasks |-> ""]
    /\ aborted = FALSE

(***************************************************************************)
(* A worker of the pool takes a task; the runner reads its manifest for as *)
(* long as it takes and starts gem5.                                       *)
(***************************************************************************)
SubmitBug(t) ==
    /\ phase[t] = "queued"
    /\ ~aborted
    /\ Cardinality({u \in Tasks : Busy(u) \/ gem5[u] = "running"}) < Jobs
    /\ phase' = [phase EXCEPT ![t] = "starting"]
    /\ UNCHANGED <<oracle, protected, gem5, age, spawnedAt, evidence, outer, result, aborted>>
Submit(t) ==
    /\ phase[t] = "queued"
    /\ ~aborted
    /\ Cardinality({u \in Tasks : Busy(u)}) < Jobs
    /\ phase' = [phase EXCEPT ![t] = "starting"]
    /\ UNCHANGED <<oracle, protected, gem5, age, spawnedAt, evidence, outer, result, aborted>>

Spawn(t) ==
    /\ phase[t] = "starting"
    /\ phase' = [phase EXCEPT ![t] = "simulating"]
    /\ gem5' = [gem5 EXCEPT ![t] = "running"]
    /\ spawnedAt' = [spawnedAt EXCEPT ![t] = age[t]]
    /\ UNCHANGED <<oracle, protected, age, evidence, outer, result, aborted>>

(***************************************************************************)
(* gem5: the injector logs a fault with its ECC mark, the program prints   *)
(* its verdict, gem5 fails, traps or exits.  An orphan goes on by itself,  *)
(* nobody reads what it writes.                                            *)
(***************************************************************************)
Watched(t) == gem5[t] = "running" /\ phase[t] = "simulating"

(* _parse_pa_outcome looks for the labels in this order.                   *)
FirstMark(a, b) ==
    IF "Corrected" \in {a, b} THEN "Corrected"
    ELSE IF "DetectedContained" \in {a, b} THEN "DetectedContained"
    ELSE IF "Latent" \in {a, b} THEN "Latent" ELSE ""

LogFault(t) ==
    /\ Watched(t)
    /\ evidence[t].faults < FaultCap
    /\ \E m \in IF protected THEN Marks ELSE {""} :
         evidence' = [evidence EXCEPT
             ![t] = [evidence[t] EXCEPT !.landed = TRUE, !.faults = @ + 1,
                                        !.pa = FirstMark(@, m)]]
    /\ UNCHANGED <<oracle, protected, phase, gem5, age, spawnedAt, outer, result, aborted>>

(* The runner's list of logs lacks some, those of CHAOSIQ and CHAOSRAS for *)
(* example: a fault of theirs lands and is not counted.                    *)
UncountedFault(t) ==
    /\ Watched(t)
    /\ FaultCap > 0
    /\ ~evidence[t].landed
    /\ evidence' = [evidence EXCEPT ![t].landed = TRUE]
    /\ UNCHANGED <<oracle, protected, phase, gem5, age, spawnedAt, outer, result, aborted>>

(* Without a fault the program prints what the golden run printed.         *)
PrintAnswer(t) ==
    /\ Watched(t)
    /\ evidence[t].answer = "none"
    /\ \E a \in IF evidence[t].landed THEN {"golden", "other"} ELSE {"golden"} :
         evidence' = [evidence EXCEPT ![t].answer = a]
    /\ UNCHANGED <<oracle, protected, phase, gem5, age, spawnedAt, outer, result, aborted>>

(* A panic is reported on stderr; without a marker the stream says nothing *)
(* and is left as it is in NoEvidence.                                     *)
Printable(marker, stream) == marker \in {"panic", "none"} => stream = "stderr"

(* communicate() returns; the runner goes on to the logs.                  *)
Exit(t, rc, marker, stream) ==
    /\ Watched(t)
    /\ Printable(marker, stream)
    /\ marker = "panic" => rc # 0
    /\ gem5' = [gem5 EXCEPT ![t] = "exited"]
    /\ phase' = [phase EXCEPT ![t] = "scoring"]
    /\ evidence' = [evidence EXCEPT ![t] = [@ EXCEPT !.rc = rc, !.marker = marker,
                                                     !.stream = stream, !.silent = FALSE]]
    /\ UNCHANGED <<oracle, protected, age, spawnedAt, outer, result, aborted>>

(* An orphan may still end by itself.                                      *)
OrphanExit(t) ==
    /\ gem5[t] = "running"
    /\ phase[t] = "done"
    /\ gem5' = [gem5 EXCEPT ![t] = "exited"]
    /\ UNCHANGED <<oracle, protected, phase, age, spawnedAt, evidence, outer, result, aborted>>

(***************************************************************************)
(* The runner's timeout kills gem5's process group and keeps its output, a *)
(* marker printed before included; whether any of its stdout had been      *)
(* flushed is open, since the verdict may have gone to stderr.             *)
(***************************************************************************)
RunnerTimesOut(t) ==
    /\ RunnerDue(t)
    /\ gem5' = [gem5 EXCEPT ![t] = "killed"]
    /\ phase' = [phase EXCEPT ![t] = "scoring"]
    /\ \E s \in BOOLEAN, m \in ExitMarkers, stream \in {"stdout", "stderr"} :
         /\ Printable(m, stream)
         /\ m # "none" /\ stream = "stdout" => ~s
         /\ evidence' = [evidence EXCEPT ![t] = [@ EXCEPT
                !.rc = -9, !.timedOut = TRUE, !.silent = s, !.marker = m, !.stream = stream]]
    /\ UNCHANGED <<oracle, protected, age, spawnedAt, outer, result, aborted>>

(* The runner counts the log, classifies and prints its RESULT line; more  *)
(* than one fault only prints a warning.                                   *)
Score(t) ==
    /\ phase[t] = "scoring"
    /\ phase' = [phase EXCEPT ![t] = "done"]
    /\ result' = [result EXCEPT ![t] = Classification(oracle, protected, evidence[t])]
    /\ UNCHANGED <<oracle, protected, gem5, age, spawnedAt, evidence, outer, aborted>>

(* The campaign's timeout kills the runner's process group; gem5 is in a   *)
(* session of its own and survives.                                        *)
OuterTimesOut(t) ==
    /\ OuterDue(t)
    /\ phase' = [phase EXCEPT ![t] = "done"]
    /\ outer' = [outer EXCEPT ![t] = TRUE]
    /\ result' = [result EXCEPT ![t] = "Hang"]
    /\ UNCHANGED <<oracle, protected, gem5, age, spawnedAt, evidence, aborted>>

(* The runner dies without a RESULT line: a manifest it refuses, or        *)
(* output of gem5 that is not valid text, once gem5 has ended.             *)
RunnerFails(t) ==
    /\ phase[t] \in {"starting", "scoring"}
    /\ phase' = [phase EXCEPT ![t] = "done"]
    /\ result' = [result EXCEPT ![t] = "Unknown"]
    /\ UNCHANGED <<oracle, protected, gem5, age, spawnedAt, evidence, outer, aborted>>

(* run_one raises, for example because the runner could not be started:    *)
(* the pool turns that into a result, the serial loop of --jobs 1 does not *)
(* catch it.                                                               *)
WorkerFails(t) ==
    /\ phase[t] = "starting"
    /\ age[t] = 0
    /\ phase' = [phase EXCEPT ![t] = "done"]
    /\ result' = [result EXCEPT ![t] = IF Jobs > 1 THEN "SimulatorError" ELSE "Unknown"]
    /\ aborted' = (Jobs = 1)
    /\ UNCHANGED <<oracle, protected, gem5, age, spawnedAt, evidence, outer>>

Tick ==
    /\ \E t \in Tasks : Busy(t)
    /\ \A t \in Tasks : ~RunnerDue(t) /\ ~OuterDue(t)
    /\ age' = [t \in Tasks |-> IF Busy(t) THEN age[t] + 1 ELSE age[t]]
    /\ UNCHANGED <<oracle, protected, phase, gem5, spawnedAt, evidence, outer, result, aborted>>

Simulates(t) ==
    \/ LogFault(t) \/ UncountedFault(t) \/ PrintAnswer(t) \/ OrphanExit(t)
    \/ \E rc \in {0, 1}, m \in ExitMarkers, s \in {"stdout", "stderr"} : Exit(t, rc, m, s)

Next ==
    \/ \E t \in Tasks :
         \/ Submit(t) \/ Spawn(t) \/ Simulates(t) \/ RunnerTimesOut(t)
         \/ Score(t) \/ OuterTimesOut(t) \/ RunnerFails(t) \/ WorkerFails(t)
    \/ Tick

Spec == Init /\ [][Next]_vars

(* The pool hands out tasks, the timeouts fire and time passes; a runner   *)
(* may be arbitrarily slow and gem5 may never end.                         *)
FairSpec ==
    /\ Spec
    /\ WF_vars(Tick)
    /\ \A t \in Tasks : WF_vars(Submit(t)) /\ WF_vars(RunnerTimesOut(t) \/ OuterTimesOut(t))

(***************************************************************************)
(* Properties                                                              *)
(***************************************************************************)
(* Types, and the deadlines: no task outlives the campaign's timeout.      *)
TypeOK ==
    /\ oracle \in Oracles /\ protected \in Protections
    /\ phase \in [Tasks -> Phases]
    /\ gem5 \in [Tasks -> {"none", "running", "exited", "killed"}]
    /\ age \in [Tasks -> 0..OuterTimeout]
    /\ \A t \in Tasks : spawnedAt[t] \in 0..age[t]
    /\ outer \in [Tasks -> BOOLEAN]
    /\ result \in [Tasks -> NineClasses \cup {"", "Unknown"}]
    /\ aborted \in BOOLEAN
    /\ \A t \in Tasks : (result[t] # "") <=> (phase[t] = "done")

(* The runner owns gem5's process group: when it started gem5 within the   *)
(* head start that run_one leaves it, the runner's timeout comes first and *)
(* no gem5 outlives its task.                                              *)
PromptRunnerReaps ==
    \A t \in Tasks : phase[t] = "done" /\ spawnedAt[t] < Head => gem5[t] # "running"

(* The SDC count of a cell, under every oracle and protection model.  An   *)
(* SDC is a wrong verdict after a counted fault in a run without a marker  *)
(* of gem5's own, whatever the exit code: the classifiers prefer a verdict *)
(* to a later crash or kill.  And a wrong verdict after a counted fault is *)
(* in no other count but for the reports that outrank it: a simulator      *)
(* error, a contained error, no result from the runner, and a timeout,     *)
(* which is the campaign's own or, under fail_count, one without stdout.   *)
Wrong(e) == e.answer = "other" /\ e.faults > 0
Outranks(c, e) ==
    \/ c = "SimulatorError" /\ is_simerr(e)
    \/ c = "DetectedContained" /\ protected /\ Crashed(e)
    \/ c = "Hang" /\ oracle = "fail_count" /\ e.timedOut /\ e.silent
ExactCount(t) ==
    /\ result[t] = "SDC" => Wrong(evidence[t]) /\ ~is_simerr(evidence[t])
    /\ Wrong(evidence[t]) /\ phase[t] = "done" =>
         \/ result[t] \in {"SDC", "Unknown"} \/ Outranks(result[t], evidence[t])
         \/ result[t] = "Hang" /\ outer[t]
SDCExact == \A t \in Tasks : ExactCount(t)

(* A run in whose log no fault landed never enters the Masked, SDC,        *)
(* Corrected or Latent counts of a cell: its verdict says nothing about a  *)
(* fault.  (Crash and Hang are decided before the injections are counted.) *)
NoFaultNoVerdict ==
    \A t \in Tasks : phase[t] = "done" /\ evidence[t].faults = 0 =>
      result[t] \notin {"Masked", "SDC", "Corrected", "Latent"}

(* classify.py has two separate lists of ordered tests and says that the   *)
(* nine classes only split the six.  They do: the two lists agree on every *)
(* evidence a runner scores, except that a masked run may carry its mark   *)
(* (Corrected, Latent), and that a crash with the mark of a contained      *)
(* error always goes to DetectedContained, also from behind a verdict, but *)
(* never from Hang or SimulatorError.                                      *)
Splits(nine, six, e) ==
    \/ nine = six /\ ~(six = "Crash" /\ e.pa = "DetectedContained")
    \/ six = "Masked" /\ nine \in {"Corrected", "Latent"} /\ nine = e.pa
    \/ /\ nine = "DetectedContained" /\ nine = e.pa
       /\ Crashed(e) /\ six \notin {"Hang", "SimulatorError"}
PARefinesSix ==
    \A t \in Tasks :
      phase[t] = "scoring" =>
        Splits(classify_run_pa(evidence[t]), classify_run(evidence[t]), evidence[t])

(* Every task gets a result, although runners may be slow and gem5 may     *)
(* never end: the two timeouts bound each task and the pool moves on,      *)
(* unless the serial loop is ended by an exception.                        *)
AllClassified == <>(aborted \/ \A t \in Tasks : phase[t] = "done")

(***************************************************************************)
(* What the tools say of themselves and do not do.                         *)
(***************************************************************************)
(* campaign.py: on its timeout it kills the whole group, gem5 included.    *)
NoOrphans == \A t \in Tasks : outer[t] => gem5[t] # "running"

(* classify.py: a Masked or SDC run completed normally, with exit code 0.  *)
VerdictExitsNormally ==
    \A t \in Tasks : result[t] \in {"Masked", "SDC"} => evidence[t].rc = 0

(* classify.py: an architectural trap, a data abort for example, with no   *)
(* verdict of the program is a Crash.                                      *)
TrapIsCrash ==
    \A t \in Tasks :
      result[t] \in NineClasses /\ oracle = "exact_hash" /\ is_arch_trap(evidence[t])
        /\ evidence[t].answer = "none" => result[t] \in {"Crash", "DetectedContained"}
=============================================================================
