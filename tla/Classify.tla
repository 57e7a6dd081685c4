------------------------------ MODULE Classify ------------------------------
(***************************************************************************)
(* tools/classify.py and the oracle switch of tools/runner.py: from the    *)
(* evidence of one simulation to its outcome class.  The texts the code    *)
(* searches are abstracted to what the searches find in them:              *)
(*   marker    a failure marker: gem5's own ("panic") or that of a trap    *)
(*   stream    where it was printed                                        *)
(*   rc        the exit code of gem5, -9 when the runner killed it         *)
(*   timedOut  the runner's timeout expired                                *)
(*   silent    gem5's stdout is empty (it may have written to stderr)      *)
(*   answer    the program's last verdict: "none", "golden" or "other" (a  *)
(*             16-digit checksum, or the fails= count 0 or > 0)            *)
(*   landed    a fault has landed; the runner does not see this itself     *)
(*   faults    injections counted in the log                               *)
(*   pa        the ECC marker in the log, "" if there is none              *)
(***************************************************************************)
EXTENDS Integers

Answers == {"none", "golden", "other"}
Marks == {"", "Corrected", "DetectedContained", "Latent"}
SixClasses == {"SimulatorError", "Hang", "Crash", "Inactive", "Masked", "SDC"}
NineClasses == SixClasses \cup (Marks \ {""})

Markers == {"none", "panic", "illegal instruction", "data abort"}

(* The marker lists overlap: the "abort" of _SIMERR_MARKERS is found in    *)
(* every "data abort" and "prefetch abort".                                *)
is_simerr(e) == e.stream = "stderr" /\ e.marker \in {"panic", "data abort"}
is_arch_trap(e) == e.marker \in {"illegal instruction", "data abort"}
Crashed(e) == e.rc # 0 \/ is_arch_trap(e)

(* The ordered tests of the six-class classifier.                          *)
classify_runBug(e) ==
    CASE is_simerr(e) -> "SimulatorError"
      [] ~is_simerr(e) /\ e.timedOut /\ e.answer = "none" -> "Hang"
      [] OTHER ->
           IF Crashed(e) /\ e.answer = "none" THEN "Crash"
           ELSE IF e.answer = "none" THEN "SimulatorError"
           ELSE IF e.answer = "golden" THEN "Masked"
           ELSE IF e.faults = 0 THEN "Inactive" ELSE "SDC"
classify_runUnchecked(e) ==
    IF e.faults = 0 THEN "Inactive"
    ELSE IF e.answer = "golden" THEN "Masked" ELSE "SDC"
classify_run(e) ==
    CASE is_simerr(e) -> "SimulatorError"
      [] ~is_simerr(e) /\ e.timedOut /\ e.answer = "none" -> "Hang"
      [] OTHER ->
           IF Crashed(e) /\ e.answer = "none" THEN "Crash"
           ELSE IF e.faults = 0 THEN "Inactive"
           ELSE IF e.answer = "none" THEN "SimulatorError"
           ELSE IF e.answer = "golden" THEN "Masked" ELSE "SDC"

(* The nine-class classifier repeats the tests and adds its own: a crash   *)
(* with the mark of a contained error before the crash without a verdict,  *)
(* the other two marks once the verdict equals the golden one.             *)
classify_run_paBug(e) ==
    IF is_simerr(e) THEN "SimulatorError"
    ELSE IF e.timedOut /\ e.answer = "none" THEN "Hang"
    ELSE IF Crashed(e) /\ e.pa = "DetectedContained" THEN "DetectedContained"
    ELSE IF Crashed(e) /\ e.answer = "none" THEN "Crash"
    ELSE IF e.faults = 0 THEN "Inactive"
    ELSE IF e.answer = "none" THEN "SimulatorError"
    ELSE IF e.pa \in {"Corrected", "Latent"} THEN e.pa
    ELSE IF e.answer = "golden" THEN "Masked" ELSE "SDC"
classify_run_pa(e) ==
    IF is_simerr(e) THEN "SimulatorError"
    ELSE IF e.timedOut /\ e.answer = "none" THEN "Hang"
    ELSE IF Crashed(e) /\ e.pa = "DetectedContained" THEN "DetectedContained"
    ELSE IF Crashed(e) /\ e.answer = "none" THEN "Crash"
    ELSE IF e.faults = 0 THEN "Inactive"
    ELSE IF e.answer = "none" THEN "SimulatorError"
    ELSE IF e.answer = "golden"
         THEN IF e.pa \in {"Corrected", "Latent"} THEN e.pa ELSE "Masked"
    ELSE "SDC"

(* The fail_count oracle of the runner.                                    *)
fail_count(e) ==
    IF is_simerr(e) THEN "SimulatorError"
    ELSE IF e.timedOut /\ e.silent THEN "Hang"
    ELSE IF e.faults = 0 THEN "Inactive"
    ELSE IF e.answer = "other" THEN "SDC" ELSE "Masked"

Classification(oracle, protected, e) ==
    IF oracle = "fail_count" THEN fail_count(e)
    ELSE IF protected THEN classify_run_pa(e)
    ELSE classify_run(e)
=============================================================================
