------------------------ MODULE InjectorEventsProofs ------------------------
(***************************************************************************)
(* Proofs about InjectorEvents for any number of threads and any           *)
(* parameters: the fault cap, the injection window and the pending attempt *)
(* follow from one inductive invariant, the conjunction of the invariants  *)
(* the runs check.                                                         *)
(***************************************************************************)
EXTENDS InjectorEvents, FiniteSetTheorems, TLAPS

(* CHAOSReg does not test the cap where it injects: its overshoot is       *)
(* bounded because it never polls again once the cap is reached.           *)
RegPollsBelowCap ==
    kind = "CHAOSReg" /\ attackIn # Never => FaultsRemain(count)

(* The inductive invariant: every part is needed, since the window of a    *)
(* fault rests on the window of the attempt that injects it, and the cap   *)
(* of CHAOSReg on the count its pending attempt was scheduled with.        *)
InjInv ==
    /\ TypeOK
    /\ CapRespected
    /\ RegPollsBelowCap
    /\ NextAttemptInWindow
    /\ AttackPending
    /\ StoppedIsSilent

(* What a set of threads is worth: a finite number, 0 when it is empty.    *)
LEMMA LandedCount ==
    ASSUME NEW T \in SUBSET Threads
    PROVE  /\ Cardinality(T) \in Nat /\ Cardinality({}) = 0
           /\ Cardinality(Threads) \in Nat /\ Cardinality(T) <= Cardinality(Threads)
BY InjectorAssumption, FS_Subset, FS_CardinalityType, FS_EmptySet

LEMMA InitInv == Init => InjInv
<1> SUFFICES ASSUME Init PROVE InjInv
  OBVIOUS
<1>1. PICK g \in Gaps : attackIn = FirstClock + g
  BY DEF Init
<1>2. g \in Nat
  BY <1>1, InjectorAssumption
<1>3. checkIn \in Nat \cup {Never}
  BY InjectorAssumption DEF Init, FirstCheck, Never
<1>4. TypeOK
  <2>1. now \in 0..Horizon /\ tries \in 0..2 /\ count \in 0..CountCap
        /\ attackIn \in Nat \cup {Never}
    BY <1>1, <1>2, InjectorAssumption DEF Init
  <2>2. squashed \in BOOLEAN /\ stuck \subseteq Threads /\ holds \subseteq stuck
    BY DEF Init
  <2> QED
    BY <1>3, <2>1, <2>2 DEF Init, TypeOK
<1>5. CapRespected /\ RegPollsBelowCap
  BY InjectorAssumption, LandedCount DEF Init, CapRespected, RegPollsBelowCap, FaultsRemain
<1>6. NextAttemptInWindow
  BY <1>1, <1>2, InjectorAssumption DEF Init, NextAttemptInWindow, Never
<1>7. AttackPending /\ StoppedIsSilent
  BY <1>1, <1>2, InjectorAssumption DEF Init, AttackPending, StoppedIsSilent, Never
<1> QED
  BY <1>4, <1>5, <1>6, <1>7 DEF InjInv

(* An attempt keeps the cap because processFault tests it per thread, and  *)
(* schedules its successor inside the window.                              *)
LEMMA AttackInv == InjInv /\ attackCheck => InjInv'
<1> SUFFICES ASSUME InjInv, attackCheck PROVE InjInv'
  OBVIOUS
<1> USE InjectorAssumption
<1> DEFINE n(T) == Lesser(count + Cardinality(T), CountCap)
<1>1. PICK T \in SUBSET Threads, g \in Gaps :
        /\ MayLand(T)
        /\ count' = n(T)
        /\ attackIn' = IF Rescheduled(n(T), NextGap(g, T)) THEN NextGap(g, T) ELSE Never
        /\ squashed' = (squashed \/ (Unscheduled(n(T)) /\ checkIn # Never))
        /\ stuck' = IF HasPermanent THEN stuck \cup T ELSE stuck
        /\ holds' = IF HasPermanent THEN holds \cup T ELSE holds
  BY DEF attackCheck
<1>2. /\ attackIn = 0 /\ tries' = 1 + (tries % 2)
      /\ UNCHANGED <<kind, faultType, maxFaults, lastClock, now, eligible, halted,
                     checkIn>>
  BY DEF attackCheck
<1>3. Cardinality(T) \in Nat /\ Cardinality(Threads) \in Nat
      /\ Cardinality(T) <= Cardinality(Threads)
  BY LandedCount
<1>4. count \in Nat /\ n(T) \in 0..CountCap
  BY <1>3 DEF InjInv, TypeOK, Lesser
<1>5. NextGap(g, T) \in Nat
  BY DEF NextGap
<1>cap. maxFaults \in Nat /\ maxFaults < CountCap
  BY DEF InjInv, TypeOK
<1>6. TypeOK'
  <2>1. tries' \in 0..2
    BY <1>2 DEF InjInv, TypeOK
  <2>2. squashed' \in BOOLEAN
    BY <1>1 DEF InjInv, TypeOK
  <2>3. stuck' \subseteq Threads /\ holds' \subseteq stuck'
    BY <1>1 DEF InjInv, TypeOK
  <2>4. attackIn' \in Nat \cup {Never}
    BY <1>1, <1>5
  <2> QED
    BY <1>1, <1>2, <1>4, <2>1, <2>2, <2>3, <2>4 DEF InjInv, TypeOK
<1>7. CapRespected' /\ RegPollsBelowCap'
  <2>1. CASE CapInside
    BY <1>1, <1>2, <1>3, <1>4, <2>1
       DEF InjInv, CapRespected, RegPollsBelowCap, CapInside, MayLand, Lesser, TypeOK
  <2>2. CASE ~CapInside
    <3>1. FaultsRemain(count)
      BY <1>2, <2>2 DEF InjInv, RegPollsBelowCap, CapInside, Never
    <3>2. CapRespected'
      BY <1>1, <1>2, <1>3, <1>4, <1>cap, <2>2, <3>1
         DEF CapRespected, CapInside, FaultsRemain, Lesser
    <3>3. RegPollsBelowCap'
      BY <1>1, <1>2 DEF RegPollsBelowCap, Rescheduled, FaultsRemain
    <3> QED
      BY <3>2, <3>3
  <2> QED
    BY <2>1, <2>2
<1>8. NextAttemptInWindow'
  BY <1>1, <1>2, <1>5 DEF InjInv, NextAttemptInWindow, Rescheduled, TypeOK, Never
<1>9. AttackPending'
  BY <1>1, <1>2, <1>5 DEF AttackPending, Rescheduled, active, FaultsRemain, Never
<1>10. StoppedIsSilent'
  <2>1. attackIn' = Never /\ lastClock = 0 /\ kind = "CHAOSReg" => Unscheduled(n(T))
    BY <1>1, <1>5 DEF Rescheduled, Unscheduled, Never
  <2>2. squashed' <=> (squashed \/ (Unscheduled(n(T)) /\ checkIn # Never))
    BY <1>1, Zenon
  <2>3. checkIn' = checkIn /\ kind' = kind /\ lastClock' = lastClock
    BY <1>2
  <2> QED
    BY <2>1, <2>2, <2>3 DEF InjInv, StoppedIsSilent
<1> QED
  BY <1>6, <1>7, <1>8, <1>9, <1>10 DEF InjInv

(* The clock brings every pending event one cycle closer and, past the     *)
(* horizon of the cycle count, only closer.                                *)
LEMMA TickInv == InjInv /\ Tick => InjInv'
<1> SUFFICES ASSUME InjInv, Tick PROVE InjInv'
  OBVIOUS
<1> USE InjectorAssumption
<1>1. now' \in 0..Horizon
  BY DEF Tick, Lesser, InjInv, TypeOK
<1>2. /\ attackIn' \in Nat \cup {Never} /\ checkIn' \in Nat \cup {Never}
      /\ attackIn' = Never <=> attackIn = Never
      /\ checkIn' = Never <=> checkIn = Never
      /\ attackIn' # Never => attackIn' = attackIn - 1
  BY DEF Tick, CPUTurn, CountDown, Never, InjInv, TypeOK
<1>3. TypeOK'
  BY <1>1, <1>2 DEF Tick, HeadChanges, InjInv, TypeOK
<1>4. CapRespected' /\ RegPollsBelowCap'
  BY <1>2 DEF Tick, InjInv, CapRespected, RegPollsBelowCap, CapInside, FaultsRemain
<1>5. NextAttemptInWindow'
  BY <1>1, <1>2 DEF Tick, InjInv, TypeOK, NextAttemptInWindow, Lesser, Never
<1>6. AttackPending'
  BY <1>2 DEF Tick, InjInv, AttackPending, active, FaultsRemain
<1>7. StoppedIsSilent'
  BY <1>2 DEF Tick, InjInv, StoppedIsSilent
<1> QED
  BY <1>3, <1>4, <1>5, <1>6, <1>7 DEF InjInv

(* The periodic checks never touch the count, the clock or the attack.     *)
LEMMA CheckInv == InjInv /\ (checkPermanent \/ DropSquashed) => InjInv'
<1> SUFFICES ASSUME InjInv, checkPermanent \/ DropSquashed PROVE InjInv'
  OBVIOUS
<1> USE InjectorAssumption
<1>1. CASE checkPermanent
  <2>1. checkIn' \in Nat \cup {Never}
    BY <1>1 DEF checkPermanent, NextCheck, InjInv, TypeOK
  <2>2. TypeOK'
    BY <1>1, <2>1 DEF checkPermanent, InjInv, TypeOK
  <2>3. CapRespected' /\ RegPollsBelowCap' /\ NextAttemptInWindow' /\ AttackPending'
    BY <1>1 DEF checkPermanent, InjInv, CapRespected, RegPollsBelowCap, CapInside, NextAttemptInWindow,
       AttackPending, active, FaultsRemain
  <2>4. StoppedIsSilent'
    BY <1>1 DEF checkPermanent, InjInv, StoppedIsSilent, Never
  <2> QED
    BY <2>2, <2>3, <2>4 DEF InjInv
<1>2. CASE DropSquashed
  <2>1. TypeOK'
    BY <1>2 DEF DropSquashed, InjInv, TypeOK
  <2>2. CapRespected' /\ RegPollsBelowCap' /\ NextAttemptInWindow' /\ AttackPending'
    BY <1>2 DEF DropSquashed, InjInv, CapRespected, RegPollsBelowCap, CapInside, NextAttemptInWindow,
       AttackPending, active, FaultsRemain
  <2>3. StoppedIsSilent'
    BY <1>2 DEF DropSquashed, InjInv, StoppedIsSilent, Never
  <2> QED
    BY <2>1, <2>2, <2>3 DEF InjInv
<1> QED
  BY <1>1, <1>2

(* The CPU's own steps: the hooks test the cap they share with the polls.  *)
LEMMA CPUInv ==
    ASSUME InjInv, maybeCorrupt \/ \E t \in Threads : ProgramWrite(t) \/ Halt(t)
    PROVE  InjInv'
<1> USE InjectorAssumption
<1>1. CASE maybeCorrupt
  <2>1. count \in Nat /\ count' = Lesser(count + 1, CountCap) /\ FaultsRemain(count)
    BY <1>1 DEF maybeCorrupt, InjInv, TypeOK
  <2>2. TypeOK'
    BY <1>1, <2>1 DEF maybeCorrupt, InjInv, TypeOK, Lesser
  <2>cap. maxFaults \in Nat /\ maxFaults < CountCap /\ Cardinality(Threads) \in Nat
    BY LandedCount DEF InjInv, TypeOK
  <2>3. CapRespected' /\ RegPollsBelowCap'
    BY <1>1, <2>1, <2>cap
       DEF maybeCorrupt, InjInv, CapRespected, RegPollsBelowCap, CapInside, FaultsRemain, Lesser
  <2>4. FaultsRemain(count') => FaultsRemain(count)
    BY <2>1
  <2>5. NextAttemptInWindow' /\ AttackPending'
    BY <1>1, <2>4 DEF maybeCorrupt, InjInv, NextAttemptInWindow, AttackPending, active, FaultsRemain
  <2>6. StoppedIsSilent'
    BY <1>1 DEF maybeCorrupt, InjInv, StoppedIsSilent
  <2> QED
    BY <2>2, <2>3, <2>5, <2>6 DEF InjInv
<1>2. ASSUME NEW t \in Threads, ProgramWrite(t) PROVE InjInv'
  BY <1>2 DEF ProgramWrite, InjInv, TypeOK, CapRespected, RegPollsBelowCap, CapInside, NextAttemptInWindow,
     AttackPending, StoppedIsSilent, active, FaultsRemain
<1>3. ASSUME NEW t \in Threads, Halt(t) PROVE InjInv'
  BY <1>3 DEF Halt, InjInv, TypeOK, CapRespected, RegPollsBelowCap, CapInside, NextAttemptInWindow,
     AttackPending, StoppedIsSilent, active, FaultsRemain
<1> QED
  BY <1>1, <1>2, <1>3

(* The invariant is inductive, whatever the parameters.                    *)
THEOREM InjectorInvariance == Spec => []InjInv
<1>1. InjInv /\ [Next]_vars => InjInv'
  <2> SUFFICES ASSUME InjInv, [Next]_vars PROVE InjInv'
    OBVIOUS
  <2>1. CASE UNCHANGED vars
    BY <2>1 DEF vars, InjInv, TypeOK, CapRespected, RegPollsBelowCap, CapInside, NextAttemptInWindow,
       AttackPending, StoppedIsSilent, active, FaultsRemain
  <2> QED
    BY <2>1, AttackInv, TickInv, CheckInv, CPUInv DEF Next, EventQueue
<1> QED
  BY <1>1, InitInv, PTL DEF Spec

(* Polls and hooks of an injector that tests the cap inside processFault   *)
(* together inject at most maxFaults faults, for any number of threads;    *)
(* CHAOSReg injects fewer than maxFaults plus the number of threads.       *)
THEOREM CapHolds == Spec => []CapRespected
<1>1. InjInv => CapRespected
  BY DEF InjInv
<1> QED
  BY <1>1, InjectorInvariance, PTL

(* Without lastClock, an injector with faults left and a running thread    *)
(* has an attempt pending.                                                 *)
THEOREM InjectorStaysArmed == Spec => []AttackPending
<1>1. InjInv => AttackPending
  BY DEF InjInv
<1> QED
  BY <1>1, InjectorInvariance, PTL

(* No fault before firstClock; none after lastClock but by the first       *)
(* attempt, whose cycle nothing tests.                                     *)
THEOREM WindowHolds == Spec => OnlyFirstIsLate
<1> DEFINE A == count' # count =>
         /\ now >= FirstClock
         /\ InWindow \/ (tries = 0 /\ attackIn = 0 /\ ~WindowInside)
<1>1. InjInv /\ [Next]_vars => [A]_vars
  <2> SUFFICES ASSUME InjInv, Next, count' # count
               PROVE  /\ now >= FirstClock
                      /\ InWindow \/ (tries = 0 /\ attackIn = 0 /\ ~WindowInside)
    BY DEF vars
  <2>1. CASE attackCheck
    <3>1. PICK T \in SUBSET Threads : MayLand(T) /\ count' = Lesser(count + Cardinality(T), CountCap)
      BY <2>1 DEF attackCheck
    <3>2. T # {}
      <4>1. count \in 0..CountCap /\ CountCap \in Nat
        BY InjectorAssumption DEF InjInv, TypeOK
      <4>2. Cardinality({}) = 0
        BY LandedCount
      <4> QED
        BY <3>1, <4>1, <4>2 DEF Lesser
    <3>3. attackIn = 0 /\ now >= FirstClock /\ (tries # 0 => InWindow)
      BY <2>1, InjectorAssumption DEF attackCheck, InjInv, TypeOK, NextAttemptInWindow, InWindow, Never
    <3> QED
      BY <3>1, <3>2, <3>3 DEF MayLand
  <2>2. CASE maybeCorrupt
    BY <2>2 DEF maybeCorrupt, InWindow
  <2> QED
    BY <2>1, <2>2 DEF Next, EventQueue, checkPermanent, DropSquashed, Tick, ProgramWrite, Halt
<1> QED
  BY <1>1, InjectorInvariance, PTL DEF Spec, OnlyFirstIsLate
=============================================================================
