------------------------- MODULE PhysRegTraceProofs -------------------------
(***************************************************************************)
(* Proofs about PhysRegTrace for register files of any size, any fault cap *)
(* and any number of reads: what the read trace and the stuck-at mask mean *)
(* when the injector uses the same accessors as the program.               *)
(***************************************************************************)
EXTENDS PhysRegTrace, TLAPS

(* The part of the state the argument is about.                            *)
TraceType ==
    /\ maxFaults \in Nat \ {0} /\ count \in Nat
    /\ reads \in Nat /\ progReads \in Nat /\ ownReads \in Nat
    /\ overwritten \in BOOLEAN /\ progWrote \in BOOLEAN
    /\ permanent \in [Indices -> {"none", "update", "done"}]
    /\ mask \in Slots \cup {NoSlot}

(* A run of transient faults leaves nothing for checkPermanent to write,   *)
(* so that a trace which has ended was ended by the program, and every     *)
(* read of the program that matters has been counted.                      *)
FlipsLeaveNothing ==
    faultTypes = {"bit_flip"} =>
      /\ \A i \in Indices : permanent[i] # "update"
      /\ overwritten => progWrote
      /\ progReads <= reads

(* The mask is only ever armed on a scalar slot an injection has chosen.   *)
MaskIsTarget == mask # NoSlot => Scalar(mask) /\ mask \in targets

(* With one fault: before it there is nothing to re-apply; after it the    *)
(* check is gone, and the one defect is under the mask.                    *)
OneFaultOnly ==
    maxFaults = 1 =>
      /\ count = 0 => /\ \A i \in Indices : permanent[i] # "update"
                      /\ mask = NoSlot /\ defects = {} /\ altered = {}
      /\ count > 0 => ~armed /\ check # "queued"
      /\ altered \subseteq targets
      /\ overwritten => progWrote
      /\ \A d \in defects : d = mask /\ d # NoSlot

TraceInv ==
    /\ TraceType
    /\ FlipsLeaveNothing
    /\ TransientTraceExact
    /\ MaskIsTarget
    /\ StuckCellHolds
    /\ OneFaultOnly

-----------------------------------------------------------------------------
(* Slots are not the absence of a slot, and have a number.                 *)
LEMMA SlotFacts ==
    ASSUME NEW s \in Slots
    PROVE  s # NoSlot /\ s[2] \in Indices
<1>1. PICK c \in AllClasses : s \in {c} \X (0 .. NumRegs[c] - 1)
  BY DEF Slots
<1>2. s[1] = c
  BY <1>1
<1> QED
  BY <1>2 DEF NoSlot, AllClasses, Indices

(* checkPermanent finds nothing to do when no entry waits for it.          *)
LEMMA NothingToReapply ==
    ASSUME \A i \in Indices : permanent[i] # "update"
    PROVE  Reapplied = {}
BY SlotFacts DEF Reapplied

LEMMA InitTrace == Init => TraceInv
<1> SUFFICES ASSUME Init PROVE TraceInv
  OBVIOUS
<1>1. TraceType
  BY PhysRegAssumption DEF Init, TraceType
<1>2. FlipsLeaveNothing /\ OneFaultOnly
  BY DEF Init, FlipsLeaveNothing, OneFaultOnly
<1>3. TransientTraceExact /\ MaskIsTarget /\ StuckCellHolds
  BY DEF Init, TransientTraceExact, MaskIsTarget, StuckCellHolds
<1> QED
  BY <1>1, <1>2, <1>3 DEF TraceInv

(* An injection restarts the trace on its slot.                            *)
LEMMA InjectKeeps ==
    ASSUME TraceInv, NEW s \in Slots, NEW f \in faultTypes, Inject(s, f)
    PROVE  TraceInv'
<1> USE DEF TraceInv
<1>1. TraceType'
  <2>1. permanent' \in [Indices -> {"none", "update", "done"}]
    BY DEF Inject, TraceType
  <2>2. count' \in Nat /\ mask' \in Slots \cup {NoSlot}
    BY DEF Inject, TraceType
  <2> QED
    BY <2>1, <2>2 DEF Inject, TraceType, config
<1>2. FlipsLeaveNothing'
  <2> SUFFICES ASSUME faultTypes = {"bit_flip"}
               PROVE  \A i \in Indices : permanent'[i] # "update"
    BY DEF Inject, FlipsLeaveNothing, config
  <2> QED
    BY DEF Inject, FlipsLeaveNothing
<1>3. TransientTraceExact'
  BY DEF Inject, TransientTraceExact, config
<1>4. MaskIsTarget'
  BY DEF Inject, MaskIsTarget
<1>5. StuckCellHolds'
  BY DEF Inject, StuckCellHolds
<1>6. OneFaultOnly'
  <2> SUFFICES ASSUME maxFaults = 1 PROVE OneFaultOnly'
    BY DEF Inject, OneFaultOnly, config
  <2>1. armed /\ count = 0 /\ mask = NoSlot /\ defects = {} /\ altered = {}
    BY DEF Inject, OneFaultOnly, TraceType
  <2>2. count' = 1 /\ ~armed' /\ check' # "queued"
    <3>1. count + 1 = 1 /\ Capped(count + 1)
      BY <2>1 DEF Capped
    <3>2. count' = 1 /\ check' # "queued"
      BY <3>1 DEF Inject, CheckAfter
    <3>3. ~armed'
      BY <3>1, Zenon DEF Inject
    <3> QED
      BY <3>2, <3>3
  <2>3. altered' \subseteq targets' /\ ~overwritten'
    BY <2>1 DEF Inject
  <2>4. \A d \in defects' : d = mask' /\ d # NoSlot
    BY <2>1, SlotFacts DEF Inject
  <2> QED
    BY <2>2, <2>3, <2>4 DEF OneFaultOnly
<1> QED
  BY <1>1, <1>2, <1>3, <1>4, <1>5, <1>6

(* The trigger's own read is counted like one of the program.              *)
LEMMA TriggerMissKeeps ==
    ASSUME TraceInv, NEW s \in Slots, TriggerMiss(s)
    PROVE  TraceInv'
<1> USE DEF TraceInv
<1>1. TraceType'
  BY DEF TriggerMiss, TraceType, config, injector
<1>2. FlipsLeaveNothing'
  BY DEF TriggerMiss, TraceType, FlipsLeaveNothing, config, injector
<1>3. TransientTraceExact'
  BY DEF TriggerMiss, TraceType, TransientTraceExact, config
<1>4. MaskIsTarget' /\ StuckCellHolds' /\ OneFaultOnly'
  BY DEF TriggerMiss, MaskIsTarget, StuckCellHolds, OneFaultOnly, config, injector
<1> QED
  BY <1>1, <1>2, <1>3, <1>4

(* checkPermanent does something in runs with stuck-at faults only, and    *)
(* with a single fault it no longer runs when there is something to do.    *)
LEMMA CheckPermanentKeeps ==
    ASSUME TraceInv, checkPermanent
    PROVE  TraceInv'
<1> USE DEF TraceInv
<1>1. TraceType'
  BY DEF checkPermanent, TraceType, config
<1>2. ASSUME Reapplied = {}
      PROVE  /\ altered' = altered /\ forced' = forced /\ reads' = reads
             /\ ownReads' = ownReads /\ overwritten' = overwritten
             /\ permanent' = permanent
  BY <1>2 DEF checkPermanent, TraceType
<1>3. FlipsLeaveNothing' /\ TransientTraceExact'
  <2> SUFFICES ASSUME faultTypes = {"bit_flip"}
               PROVE  FlipsLeaveNothing' /\ TransientTraceExact'
    BY DEF checkPermanent, FlipsLeaveNothing, TransientTraceExact, config
  <2>1. Reapplied = {}
    BY NothingToReapply DEF FlipsLeaveNothing
  <2> QED
    BY <1>2, <2>1 DEF checkPermanent, FlipsLeaveNothing, TransientTraceExact, config
<1>4. MaskIsTarget' /\ StuckCellHolds'
  BY DEF checkPermanent, MaskIsTarget, StuckCellHolds
<1>5. OneFaultOnly'
  <2> SUFFICES ASSUME maxFaults = 1 PROVE OneFaultOnly'
    BY DEF checkPermanent, OneFaultOnly, config
  <2>1. count = 0
    BY DEF checkPermanent, OneFaultOnly, TraceType
  <2>2. Reapplied = {}
    BY <2>1, NothingToReapply DEF OneFaultOnly
  <2> QED
    BY <1>2, <2>1, <2>2 DEF checkPermanent, OneFaultOnly, config
<1> QED
  BY <1>1, <1>3, <1>4, <1>5

(* Program reads.                                                          *)
LEMMA ProgramReadKeeps ==
    ASSUME TraceInv, NEW s \in Slots, ProgramRead(s)
    PROVE  TraceInv'
<1> USE DEF TraceInv
<1>1. TraceType'
  BY DEF ProgramRead, TraceType, config, injector
<1>2. FlipsLeaveNothing'
  BY DEF ProgramRead, Counts, TraceType, FlipsLeaveNothing, config, injector
<1>3. TransientTraceExact'
  BY DEF ProgramRead, Counts, TraceType, TransientTraceExact, config
<1>4. MaskIsTarget' /\ StuckCellHolds' /\ OneFaultOnly'
  BY DEF ProgramRead, MaskIsTarget, StuckCellHolds, OneFaultOnly, config, injector
<1> QED
  BY <1>1, <1>2, <1>3, <1>4

(* Program writes: the mask decides what stays of a stuck cell.            *)
LEMMA ProgramWriteKeeps ==
    ASSUME TraceInv, NEW s \in Slots, ProgramWrite(s)
    PROVE  TraceInv'
<1> USE DEF TraceInv
<1>1. TraceType'
  BY DEF ProgramWrite, TraceType, config, injector
<1>2. FlipsLeaveNothing' /\ TransientTraceExact'
  BY DEF ProgramWrite, TraceType, FlipsLeaveNothing, TransientTraceExact, config, injector
<1>3. MaskIsTarget' /\ StuckCellHolds'
  BY DEF ProgramWrite, Masked, MaskIsTarget, StuckCellHolds
<1>4. OneFaultOnly'
  <2> SUFFICES ASSUME maxFaults = 1 PROVE OneFaultOnly'
    BY DEF ProgramWrite, OneFaultOnly, config
  <2>1. altered' \subseteq targets /\ (count = 0 => altered' = {})
    BY SlotFacts DEF ProgramWrite, Masked, MaskIsTarget, OneFaultOnly
  <2> QED
    BY <2>1 DEF ProgramWrite, TraceType, OneFaultOnly, config, injector
<1> QED
  BY <1>1, <1>2, <1>3, <1>4

(* Vector results written past the hooks: never the masked slot, and never *)
(* a traced scalar.                                                        *)
LEMMA ProgramWriteInPlaceKeeps ==
    ASSUME TraceInv, NEW s \in Slots, ProgramWriteInPlace(s)
    PROVE  TraceInv'
<1> USE DEF TraceInv
<1>1. TraceType'
  BY DEF ProgramWriteInPlace, TraceType, config, injector, regfile
<1>2. FlipsLeaveNothing' /\ TransientTraceExact'
  BY DEF ProgramWriteInPlace, TraceType, FlipsLeaveNothing, TransientTraceExact, Scalar,
     config, injector, regfile
<1>3. MaskIsTarget' /\ StuckCellHolds'
  BY DEF ProgramWriteInPlace, MaskIsTarget, StuckCellHolds, Scalar, regfile
<1>4. OneFaultOnly'
  BY DEF ProgramWriteInPlace, TraceType, OneFaultOnly, config, injector, regfile
<1> QED
  BY <1>1, <1>2, <1>3, <1>4

(* The events that stop the injector.                                      *)
LEMMA StoppingKeeps ==
    ASSUME TraceInv, AttackHalted \/ DropSquashed \/ readTraceCheck \/ Halt
    PROVE  TraceInv'
<1> USE DEF TraceInv
<1>1. UNCHANGED <<config, count, permanent, reads, overwritten, mask, altered, forced,
                  ghosts>>
  BY DEF AttackHalted, DropSquashed, readTraceCheck, Halt, regfile, injector
<1>2. (trace' = trace \/ trace' = NoSlot) /\ (armed' => armed)
      /\ (check' = "queued" => check = "queued")
  BY DEF AttackHalted, DropSquashed, readTraceCheck, Halt, regfile, injector
<1>3. TraceType' /\ FlipsLeaveNothing'
  BY <1>1 DEF TraceType, FlipsLeaveNothing, config, ghosts
<1>4. TransientTraceExact'
  BY <1>1, <1>2 DEF TransientTraceExact, config, ghosts
<1>5. MaskIsTarget' /\ StuckCellHolds'
  BY <1>1 DEF MaskIsTarget, StuckCellHolds, ghosts
<1>6. OneFaultOnly'
  BY <1>1, <1>2 DEF OneFaultOnly, config, ghosts
<1> QED
  BY <1>3, <1>4, <1>5, <1>6

LEMMA NextTrace == TraceInv /\ [Next]_vars => TraceInv'
<1> SUFFICES ASSUME TraceInv, [Next]_vars PROVE TraceInv'
  OBVIOUS
<1>1. CASE UNCHANGED vars
  BY <1>1 DEF vars, config, injector, regfile, ghosts, TraceInv, TraceType,
     FlipsLeaveNothing, TransientTraceExact, MaskIsTarget, StuckCellHolds, OneFaultOnly
<1> QED
  BY <1>1, InjectKeeps, TriggerMissKeeps, CheckPermanentKeeps, ProgramReadKeeps,
     ProgramWriteKeeps, ProgramWriteInPlaceKeeps, StoppingKeeps DEF Next

-----------------------------------------------------------------------------
(* The inductive invariant holds in every run.                             *)
THEOREM TraceInvariance == Spec => []TraceInv
<1> QED
  BY InitTrace, NextTrace, PTL DEF Spec

(* The read count of a transient scalar fault is exact, the injector's own *)
(* reads included, and only the program ends it.                           *)
THEOREM TraceExact == Spec => []TransientTraceExact
<1>1. TraceInv => TransientTraceExact
  BY DEF TraceInv
<1> QED
  BY <1>1, TraceInvariance, PTL

(* A count of 0 after a transient fault means that the program never read  *)
(* the injected value, vector slots included.                              *)
THEOREM ZeroIsReliable == Spec => []ZeroReadsMeansUnread
<1>1. TraceInv => ZeroReadsMeansUnread
  BY DEF TraceInv, TraceType, FlipsLeaveNothing, ZeroReadsMeansUnread
<1> QED
  BY <1>1, TraceInvariance, PTL

(* setReg's mask keeps the stuck bits of the slot it is armed on in place. *)
THEOREM MaskHolds == Spec => []StuckCellHolds
<1>1. TraceInv => StuckCellHolds
  BY DEF TraceInv
<1> QED
  BY <1>1, TraceInvariance, PTL

(* With maxFaults = 1 checkPermanent never gets to re-apply anything: only *)
(* the chosen slot is altered, only the program ends the trace, and the    *)
(* stuck cell holds.                                                       *)
THEOREM SingleFault == Spec => []SingleFaultClean
<1>1. TraceInv => SingleFaultClean
  BY DEF TraceInv, OneFaultOnly, StuckCellHolds, SingleFaultClean
<1> QED
  BY <1>1, TraceInvariance, PTL
=============================================================================
