--------------------------- MODULE InjectorEvents ---------------------------
(***************************************************************************)
(* The polling engine of the injectors that are driven by the simulator's  *)
(* event queue: an attackEvent that tries to inject into every running     *)
(* thread and reschedules itself by a geometrically distributed gap, and   *)
(* the periodicCheck of the two injectors with permanent faults.  What a   *)
(* fault corrupts is left to the other modules; here it either lands in a  *)
(* thread or is rejected.                                                  *)
(*                                                                         *)
(* Time is the target CPU's cycle count.  A pending event is the number of *)
(* cycles left until it is due; the queue runs it before the CPU's own     *)
(* tick of that cycle (CPU_Tick_Pri is the later priority).                *)
(***************************************************************************)
EXTENDS Integers, FiniteSets

CONSTANTS
    Threads,        \* cpu->numThreads thread contexts
    Kinds,          \* the injectors an instance considers
    Caps,           \* the values of maxFaults considered, 0 = unlimited
    FirstClock,     \* firstClock
    LastClocks,     \* the values of lastClock considered, 0 = no upper bound
    Gaps,           \* what inter_fault_cycles_dist can return: {0} at probability 1.0
    CheckPeriod,    \* cyclesPermamentFaultCheck
    RecheckDelay,   \* the 100000 cycles of CHAOSRenameMap::checkPermanent
    Horizon,        \* bound: cycles are counted up to here
    CountCap        \* bound: faults are counted up to here

AllKinds == {"CHAOSReg", "CHAOSRenameMap", "CHAOSFPU", "CHAOSRAS",
             "CHAOSFreeList", "CHAOSROB", "CHAOSIQ", "CHAOSExec",
             "CHAOSL1DForward"}

ASSUME InjectorAssumption ==
    /\ IsFiniteSet(Threads)
    /\ Kinds \subseteq AllKinds
    /\ Caps \subseteq Nat /\ FirstClock \in Nat /\ LastClocks \subseteq Nat
    /\ Gaps \subseteq Nat /\ Gaps # {}
    /\ CheckPeriod \in Nat \ {0} /\ RecheckDelay \in Nat \ {0}
    /\ Horizon \in Nat /\ Horizon > FirstClock
    /\ \A c \in LastClocks : Horizon > c
    /\ CountCap \in Nat /\ \A m \in Caps : CountCap > m

Never == -1
FaultTypes == {"transient", "stuck"}

VARIABLES
    kind,       \* the injector
    faultType,  \* whether its faults are permanent (stuck_at_*, f4_field_stuck)
    maxFaults,  \* the cap on the injected faults, 0 = unlimited
    lastClock,  \* the last cycle of the injection window, 0 = no upper bound
    now,        \* cpu->curCycle(), counted up to Horizon
    eligible,   \* threads in which processFault finds something to corrupt
    halted,     \* threads whose context is Halted
    tries,      \* attackCheck calls: 0, then 1, 2, 1, 2, ...
    count,      \* faults_injected_count, counted up to CountCap
    attackIn,   \* cycles until attackEvent is due, or Never
    checkIn,    \* cycles until periodicCheck is due, or Never
    squashed,   \* periodicCheck is queued with its Squashed flag set
    stuck,      \* threads with an entry in permanent_faults / stuck_mappings
    holds       \* the threads of stuck whose corrupted value is still there

vars == <<kind, faultType, maxFaults, lastClock, now, eligible, halted, tries,
          count, attackIn, checkIn, squashed, stuck, holds>>

active == Threads \ halted
Lesser(a, b) == IF a < b THEN a ELSE b

(* The injectors differ in four ways. *)
CapInside == kind # "CHAOSReg"          \* processFault tests max_faults itself
BacksOff == kind \in {"CHAOSRenameMap", "CHAOSFPU", "CHAOSRAS"}
WindowInside == kind = "CHAOSRAS"       \* processFault tests the window itself
HasPermanent == kind \in {"CHAOSReg", "CHAOSRenameMap"} /\ faultType = "stuck"

(* The constructor of CHAOSReg always schedules its check; the others      *)
(* schedule in startup(), CHAOSRenameMap its check in f4_field_stuck only. *)
FirstCheck(k, f) ==
    CASE k = "CHAOSReg" -> FirstClock + CheckPeriod
      [] k = "CHAOSRenameMap" /\ f = "stuck" -> FirstClock + 1
      [] OTHER -> Never

Init ==
    /\ kind \in Kinds
    /\ faultType \in FaultTypes
    /\ maxFaults \in Caps
    /\ lastClock \in LastClocks
    /\ now = 0
    /\ eligible \in SUBSET Threads
    /\ halted = {}
    /\ tries = 0 /\ count = 0
    /\ \E g \in Gaps : attackIn = FirstClock + g
    /\ checkIn = FirstCheck(kind, faultType)
    /\ squashed = FALSE
    /\ stuck = {} /\ holds = {}

(***************************************************************************)
(* attackCheck                                                             *)
(***************************************************************************)
FaultsRemain(n) == maxFaults = 0 \/ n < maxFaults
InWindow == now >= FirstClock /\ (lastClock = 0 \/ now <= lastClock)

(* The sets of threads that processFault may corrupt in one attackCheck.   *)
(* An eligible thread may still be rejected by a random draw (the zero     *)
(* register, no donor, the Bernoulli test); one that is not never lands.   *)
MayLandBug(T) ==
    /\ T \subseteq active \cap eligible
    /\ WindowInside => (T = {} \/ InWindow)
MayLand(T) ==
    /\ T \subseteq active \cap eligible
    /\ CapInside /\ maxFaults # 0 => count + Cardinality(T) <= maxFaults
    /\ WindowInside => (T = {} \/ InWindow)

(* The delay of the next attempt after a draw g: the rejected attempt of an *)
(* injector that backs off waits at least one cycle.                        *)
NextGapBug(g, T) == g
NextGap(g, T) == IF BacksOff /\ T = {} /\ g = 0 THEN 1 ELSE g

(* Whether another attempt is scheduled, n faults having been injected.    *)
RescheduledBug(n, gap) ==
    /\ FaultsRemain(n)
    /\ kind = "CHAOSReg" => active # {}
RescheduledOneShort(n, gap) ==
    /\ FaultsRemain(n + 1)
    /\ kind = "CHAOSReg" => active # {}
    /\ lastClock = 0 \/ now + gap <= lastClock
Rescheduled(n, gap) ==
    /\ FaultsRemain(n)
    /\ kind = "CHAOSReg" => active # {}
    /\ lastClock = 0 \/ now + gap <= lastClock

(* unscheduleAttackEvent of CHAOSReg: the attack event is being processed, *)
(* so only a queued periodicCheck is squashed.                             *)
Unscheduled(n) == kind = "CHAOSReg" /\ (~FaultsRemain(n) \/ active = {})

attackCheck ==
    /\ attackIn = 0
    /\ tries' = 1 + (tries % 2)
    /\ \E T \in SUBSET Threads, g \in Gaps :
         LET n == Lesser(count + Cardinality(T), CountCap)
             gap == NextGap(g, T)
         IN /\ MayLand(T)
            /\ count' = n
            /\ attackIn' = IF Rescheduled(n, gap) THEN gap ELSE Never
            /\ squashed' = (squashed \/ (Unscheduled(n) /\ checkIn # Never))
            /\ stuck' = IF HasPermanent THEN stuck \cup T ELSE stuck
            /\ holds' = IF HasPermanent THEN holds \cup T ELSE holds
    /\ UNCHANGED <<kind, faultType, maxFaults, lastClock, now, eligible, halted,
                   checkIn>>

(***************************************************************************)
(* checkPermanent: CHAOSReg reschedules it inside its loop over the        *)
(* recorded faults; CHAOSRenameMap always, but passes an absolute cycle to *)
(* clockEdge, which takes a delay.                                         *)
(***************************************************************************)
NextCheckBug == Never
NextCheck ==
    IF kind = "CHAOSReg"
    THEN IF stuck = {} THEN Never ELSE CheckPeriod
    ELSE now + RecheckDelay

checkPermanent ==
    /\ checkIn = 0
    /\ ~squashed
    /\ holds' = stuck
    /\ checkIn' = NextCheck
    /\ UNCHANGED <<kind, faultType, maxFaults, lastClock, now, eligible, halted, tries,
                   count, attackIn, squashed, stuck>>

(* The queue drops a squashed event when it comes up.                      *)
DropSquashed ==
    /\ checkIn = 0
    /\ squashed
    /\ checkIn' = Never
    /\ squashed' = FALSE
    /\ UNCHANGED <<kind, faultType, maxFaults, lastClock, now, eligible, halted, tries,
                   count, attackIn, stuck, holds>>

(***************************************************************************)
(* The CPU: a cycle without pending events, in which the instructions at   *)
(* the heads of the pipeline change; a write to a corrupted register; a    *)
(* thread that ends; CHAOSFPU's hooks in the operand paths.                *)
(***************************************************************************)
(* Events that are due run before the CPU's own tick.                      *)
CPUTurn == attackIn # 0 /\ checkIn # 0

(* The instruction at each ROB head changes, and with it whether           *)
(* processFault finds a target there: the ROB may be empty, the head free  *)
(* of the fault exc_suppress needs, or not an integer instruction.         *)
HeadChanges == eligible' \in SUBSET Threads

CountDownBug(c) == c - 1
CountDown(c) == IF c = Never THEN Never ELSE c - 1

Tick ==
    /\ CPUTurn
    /\ now' = Lesser(now + 1, Horizon)
    /\ attackIn' = CountDown(attackIn)
    /\ checkIn' = CountDown(checkIn)
    /\ HeadChanges
    /\ UNCHANGED <<kind, faultType, maxFaults, lastClock, halted, tries, count,
                   squashed, stuck, holds>>

ProgramWrite(t) ==
    /\ CPUTurn
    /\ t \in active \cap holds
    /\ holds' = holds \ {t}
    /\ UNCHANGED <<kind, faultType, maxFaults, lastClock, now, eligible, halted, tries,
                   count, attackIn, checkIn, squashed, stuck>>

Halt(t) ==
    /\ CPUTurn
    /\ t \in active
    /\ halted' = halted \cup {t}
    /\ UNCHANGED <<kind, faultType, maxFaults, lastClock, now, eligible, tries, count,
                   attackIn, checkIn, squashed, stuck, holds>>

maybeCorrupt ==
    /\ CPUTurn
    /\ kind = "CHAOSFPU"
    /\ active # {}
    /\ InWindow
    /\ FaultsRemain(count)
    /\ count' = Lesser(count + 1, CountCap)
    /\ UNCHANGED <<kind, faultType, maxFaults, lastClock, now, eligible, halted, tries,
                   attackIn, checkIn, squashed, stuck, holds>>

EventQueue == attackCheck \/ checkPermanent \/ DropSquashed \/ Tick

Next ==
    \/ EventQueue
    \/ maybeCorrupt
    \/ \E t \in Threads : ProgramWrite(t) \/ Halt(t)

Spec == Init /\ [][Next]_vars

(* The simulation loop keeps servicing its queue; which thread lands, what *)
(* the program writes and when a thread ends is left open.                 *)
FairSpec == Spec /\ WF_vars(EventQueue)

(***************************************************************************)
(* Properties                                                              *)
(***************************************************************************)
(* Types and ranges of the injector's counters, sets and pending events.   *)
TypeOK ==
    /\ kind \in Kinds /\ faultType \in FaultTypes
    /\ maxFaults \in Caps /\ lastClock \in LastClocks
    /\ now \in 0..Horizon
    /\ eligible \subseteq Threads /\ halted \subseteq Threads
    /\ tries \in 0..2
    /\ count \in 0..CountCap
    /\ attackIn \in Nat \cup {Never} /\ checkIn \in Nat \cup {Never}
    /\ squashed \in BOOLEAN
    /\ stuck \subseteq Threads /\ holds \subseteq stuck

(* Polls and operand hooks share one faults_injected_count: whatever their *)
(* order, and however many threads a single attackCheck visits, an         *)
(* injector whose processFault tests the cap never exceeds maxFaults.      *)
(* CHAOSReg, which tests it after its loop over the threads, overshoots by *)
(* less than the number of threads, once.                                  *)
CapRespected ==
    maxFaults # 0 =>
      IF CapInside THEN count <= maxFaults
                   ELSE count < maxFaults + Cardinality(Threads)

(* A pending attempt is never due before firstClock, and every attempt     *)
(* after the first is due within lastClock, also after the draws of gaps   *)
(* and the backoff that moved it.                                          *)
NextAttemptInWindow ==
    attackIn # Never =>
      /\ now + attackIn >= FirstClock
      /\ tries # 0 /\ lastClock # 0 => now + attackIn <= lastClock

(* The window: attackCheck tests lastClock only when it schedules the next *)
(* attempt, yet no fault lands before firstClock, and the only attempt     *)
(* that can land after lastClock is the first, which nothing tested.       *)
OnlyFirstIsLate ==
    [][count' # count =>
         /\ now >= FirstClock
         /\ InWindow \/ (tries = 0 /\ attackIn = 0 /\ ~WindowInside)]_vars

(* Without an upper clock an injector with faults left never loses its     *)
(* attack event: a rejected attempt, an operand hook that injected in      *)
(* between or the end of another thread does not make it fall silent.      *)
AttackPending ==
    lastClock = 0 /\ FaultsRemain(count) /\ active # {} => attackIn # Never

(* The squashed flag is set only on a queued check and cleared when the    *)
(* queue drops it; a CHAOSReg check that goes on has a fault to re-apply,  *)
(* and after the injector stopped no check is processed any more.          *)
StoppedIsSilent ==
    /\ squashed => checkIn # Never
    /\ kind = "CHAOSReg" /\ checkIn # Never /\ tries # 0 /\ attackIn = Never
         /\ lastClock = 0 => squashed

(* An injector that backs off and has a cap cannot hold the simulated      *)
(* clock: its attack event is not due in the same cycle for ever, even     *)
(* when every attempt is rejected and the geometric distribution always    *)
(* returns 0.  Unlimited, which is the default, it can do so only in a     *)
(* cycle that offers a fault to inject: an attempt that lands draws its    *)
(* gap again without backing off.                                          *)
PollingYields ==
    BacksOff =>
      []<>(attackIn # 0 \/ (maxFaults = 0 /\ active \cap eligible # {}))

(* A mapping pinned by f4_field_stuck that the program renames away is     *)
(* pinned again by a later periodic check, unless unlimited attempts that  *)
(* land in one cycle hold the clock for ever.                              *)
StuckReapplied ==
    kind = "CHAOSRenameMap" /\ []<>(attackIn # 0) =>
      \A t \in Threads : (t \in stuck \ holds) ~> (t \in holds)

(***************************************************************************)
(* What the sources say of the injectors and the code does not do.         *)
(***************************************************************************)
(* CHAOSROB with probability 1.0 polls every cycle; CHAOSReg with PCTarget *)
(* checks the program counter at every cycle: while no thread offers       *)
(* anything to corrupt, the attack event is not due in one cycle for ever. *)
PollsEveryCycle == []<>(attackIn # 0 \/ active \cap eligible # {})

(* The backoff of one cycle was added because a zero gap "hung the sim":   *)
(* the attack event always moves on to a later cycle.                      *)
NeverFreezes == BacksOff => []<>(attackIn # 0)

(* CHAOSReg::checkPermanent re-applies a stuck mask the program has        *)
(* overwritten while the thread still runs, making the fault permanent.    *)
TrulyPermanent ==
    \A t \in Threads : (t \in stuck \ holds) ~> (t \in holds \cup halted)
=============================================================================
