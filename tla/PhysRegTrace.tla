---------------------------- MODULE PhysRegTrace ----------------------------
(***************************************************************************)
(* CHAOSPhysReg and the two hooks it uses in o3::PhysRegFile: the read     *)
(* trace, which counts how often the injected value is read, and the       *)
(* stuck-at mask of the write path.  One thread, faults in the integer,    *)
(* floating-point and vector files, each numbered from 0.                  *)
(*                                                                         *)
(* A slot's value is abstracted to whether the injector altered it and     *)
(* whether the stuck bits of a defect injected there are in place.         *)
(***************************************************************************)
EXTENDS Naturals

CONSTANTS
    NumRegs,        \* number of slots of each register file, by class
    Classes,        \* the register classes that regTargetClass selects
    FaultTypeSets,  \* the sets of fault types that faultType can make an injection draw from
    Caps,           \* the values of maxFaults considered (the unlimited setting 0 is left out)
    ReadCap         \* bound on the reads of a behaviour

AllClasses == {"int", "fp", "vec"}

ASSUME PhysRegAssumption ==
    /\ NumRegs \in [AllClasses -> Nat]
    /\ Classes \subseteq AllClasses
    /\ FaultTypeSets \subseteq SUBSET {"bit_flip", "stuck_at"}
    /\ Caps \subseteq Nat \ {0}
    /\ ReadCap \in Nat

Slots == UNION {{c} \X (0..(NumRegs[c] - 1)) : c \in {d \in AllClasses : NumRegs[d] > 0}}
Indices == {s[2] : s \in Slots}
Scalar(s) == s[1] # "vec"
NoSlot == <<"none", 0>>

VARIABLES
    \* The parameters, fixed for a run
    maxFaults,      \* maxFaults
    faultTypes,     \* what faultType selects; "random" draws from both
    halted,         \* the workload has ended
    \* CHAOSPhysReg
    armed,          \* attackEvent is scheduled
    check,          \* periodicCheck: "queued", "squashed" or "off"
    poll,           \* readTraceEvent is scheduled
    count,          \* faults_injected_count
    permanent,      \* permanent_faults, whose key is the bare slot number
    \* PhysRegFile
    trace,          \* (trace_type, trace_idx), or NoSlot
    reads,          \* reads_before_overwrite
    overwritten,    \* trace_overwritten
    mask,           \* (stuck_type, stuck_idx), or NoSlot
    \* The contents of the slots
    altered,        \* slots whose value the injector changed
    forced,         \* slots that show the stuck bits
    \* What really happened, for the properties
    targets,        \* slots processFault chose
    defects,        \* scalar slots with an injected stuck-at defect
    progReads,      \* program reads of the value injected last
    ownReads,       \* the injector's own reads of the traced slot
    progWrote       \* the program has written the traced slot

config == <<maxFaults, faultTypes>>
injector == <<armed, check, poll, count, permanent>>
regfile == <<trace, reads, overwritten, mask>>
ghosts == <<targets, defects, progReads, ownReads, progWrote>>
vars == <<config, halted, injector, regfile, altered, forced, ghosts>>

Init ==
    /\ maxFaults \in Caps /\ faultTypes \in FaultTypeSets
    /\ halted = FALSE
    /\ armed = TRUE /\ check = "queued" /\ poll = FALSE
    /\ count = 0
    /\ permanent = [i \in Indices |-> "none"]
    /\ trace = NoSlot /\ reads = 0 /\ overwritten = FALSE
    /\ mask = NoSlot
    /\ altered = {} /\ forced = {}
    /\ targets = {} /\ defects = {}
    /\ progReads = 0 /\ ownReads = 0 /\ progWrote = FALSE

(***************************************************************************)
(* The hooks in PhysRegFile                                                *)
(***************************************************************************)
(* getReg counts a read of the traced slot until it is written.            *)
CountsBug(s) == trace = s
CountsScalarBug(s) == trace = s /\ ~overwritten /\ Scalar(s)
Counts(s) == trace = s /\ ~overwritten

(* setReg through the scalar overload forces the bits of the armed mask;   *)
(* vectors have no mask.                                                   *)
MaskedBug(s) == FALSE
Masked(s) == mask = s /\ Scalar(s)

(***************************************************************************)
(* attackCheck and processFault                                            *)
(***************************************************************************)
Capped(n) == n >= maxFaults
CheckAfterBug(n) == check
CheckAfter(n) == IF Capped(n) /\ check = "queued" THEN "squashed" ELSE check

(* The fault is applied to what the slot holds, written back, and only     *)
(* then does the trace start on the slot.                                  *)
Inject(s, f) ==
    /\ armed /\ ~halted
    /\ count' = count + 1
    /\ armed' = ~Capped(count + 1)
    /\ check' = CheckAfter(count + 1)
    /\ altered' = altered \cup {s}
    /\ IF f = "stuck_at"
       THEN /\ permanent' = [permanent EXCEPT ![s[2]] = "update"]
            /\ mask' = IF Scalar(s) THEN s ELSE mask
            /\ forced' = forced \cup {s}
            /\ defects' = IF Scalar(s) THEN defects \cup {s} ELSE defects
       ELSE /\ forced' = IF Masked(s) THEN forced \cup {s} ELSE forced
            /\ UNCHANGED <<permanent, mask, defects>>
    /\ trace' = s /\ reads' = 0 /\ overwritten' = FALSE
    /\ poll' = TRUE
    /\ targets' = targets \cup {s}
    /\ progReads' = 0 /\ ownReads' = 0 /\ progWrote' = FALSE
    /\ UNCHANGED <<config, halted>>

(* The data-dependent trigger: the value is read and does not match.       *)
TriggerMiss(s) ==
    /\ armed /\ ~halted
    /\ Scalar(s)
    /\ Counts(s) => reads < ReadCap
    /\ reads' = IF Counts(s) THEN reads + 1 ELSE reads
    /\ ownReads' = IF Counts(s) THEN ownReads + 1 ELSE ownReads
    /\ UNCHANGED <<config, halted, injector, trace, overwritten, mask, altered, forced,
                   targets, defects, progReads, progWrote>>

(* An attempt after the workload has ended stops both events.              *)
AttackHalted ==
    /\ armed /\ halted
    /\ armed' = FALSE
    /\ check' = IF check = "queued" THEN "squashed" ELSE check
    /\ UNCHANGED <<config, halted, poll, count, permanent, regfile, altered, forced, ghosts>>

(***************************************************************************)
(* checkPermanent: every entry that has not been re-applied yet is taken   *)
(* for the integer slot of its number, through getReg and setReg.          *)
(***************************************************************************)
Reapplied == {s \in Slots : s[1] = "int" /\ permanent[s[2]] = "update"}

checkPermanent ==
    /\ check = "queued"
    /\ trace \in Reapplied /\ ~overwritten => reads < ReadCap
    /\ LET R == Reapplied
           counted == trace \in R /\ ~overwritten
       IN /\ altered' = altered \cup R
          /\ forced' = forced \cup R
          /\ reads' = IF counted THEN reads + 1 ELSE reads
          /\ ownReads' = IF counted THEN ownReads + 1 ELSE ownReads
          /\ overwritten' = (overwritten \/ trace \in R)
          /\ permanent' = [i \in Indices |->
                             IF \E s \in R : s[2] = i THEN "done" ELSE permanent[i]]
          /\ check' = IF R = {} THEN "off" ELSE "queued"
    /\ UNCHANGED <<config, halted, armed, poll, count, trace, mask, targets, defects,
                   progReads, progWrote>>

DropSquashed ==
    /\ check = "squashed"
    /\ check' = "off"
    /\ UNCHANGED <<config, halted, armed, poll, count, permanent, regfile, altered,
                   forced, ghosts>>

(* readTraceCheck polls until the workload has ended and clears the trace. *)
readTraceCheck ==
    /\ poll
    /\ poll' = ~halted
    /\ trace' = IF halted THEN NoSlot ELSE trace
    /\ UNCHANGED <<config, halted, armed, check, count, permanent, reads, overwritten,
                   mask, altered, forced, ghosts>>

(***************************************************************************)
(* The program                                                             *)
(***************************************************************************)
ProgramRead(s) ==
    /\ ~halted
    /\ trace = s => reads < ReadCap /\ progReads < ReadCap
    /\ reads' = IF Counts(s) THEN reads + 1 ELSE reads
    /\ progReads' = IF trace = s /\ ~progWrote THEN progReads + 1 ELSE progReads
    /\ UNCHANGED <<config, halted, injector, trace, overwritten, mask, altered, forced,
                   targets, defects, ownReads, progWrote>>

(* setReg: ends the trace, and the mask of the write path applies.         *)
ProgramWrite(s) ==
    /\ ~halted
    /\ overwritten' = (overwritten \/ trace = s)
    /\ altered' = IF Masked(s) THEN altered \cup {s} ELSE altered \ {s}
    /\ forced' = IF Masked(s) THEN forced \cup {s} ELSE forced \ {s}
    /\ progWrote' = (progWrote \/ trace = s)
    /\ UNCHANGED <<config, halted, injector, trace, reads, mask, targets, defects,
                   progReads, ownReads>>

(* getWritableReg: vector results are written through a pointer that the   *)
(* register file hands out, past both hooks.                               *)
ProgramWriteInPlace(s) ==
    /\ ~halted
    /\ s[1] = "vec"
    /\ altered' = altered \ {s}
    /\ forced' = forced \ {s}
    /\ progWrote' = (progWrote \/ trace = s)
    /\ UNCHANGED <<config, halted, injector, regfile, targets, defects, progReads, ownReads>>

Halt ==
    /\ ~halted
    /\ halted' = TRUE
    /\ UNCHANGED <<config, injector, regfile, altered, forced, ghosts>>

Next ==
    \/ \E s \in Slots, f \in faultTypes : s[1] \in Classes /\ Inject(s, f)
    \/ \E s \in Slots : s[1] \in Classes /\ TriggerMiss(s)
    \/ AttackHalted \/ checkPermanent \/ DropSquashed \/ readTraceCheck
    \/ \E s \in Slots : ProgramRead(s) \/ ProgramWrite(s) \/ ProgramWriteInPlace(s)
    \/ Halt

Spec == Init /\ [][Next]_vars

(***************************************************************************)
(* Properties                                                              *)
(***************************************************************************)
(* Types of the injector's, the register file's and the ghost state.       *)
TypeOK ==
    /\ maxFaults \in Caps /\ faultTypes \in FaultTypeSets
    /\ halted \in BOOLEAN /\ armed \in BOOLEAN /\ poll \in BOOLEAN
    /\ check \in {"queued", "squashed", "off"}
    /\ count \in 0..maxFaults
    /\ permanent \in [Indices -> {"none", "update", "done"}]
    /\ {trace, mask} \subseteq Slots \cup {NoSlot}
    /\ reads \in 0..ReadCap /\ progReads \in 0..ReadCap /\ ownReads \in 0..ReadCap
    /\ overwritten \in BOOLEAN /\ progWrote \in BOOLEAN
    /\ altered \subseteq Slots /\ forced \subseteq Slots
    /\ targets \subseteq Slots /\ defects \subseteq Slots

(* The evidence of a transient scalar fault is exact: the count is the     *)
(* program's reads of the injected value plus the injector's own, and the  *)
(* overwritten flag is set when and only when the program wrote the slot.  *)
TransientTraceExact ==
    faultTypes = {"bit_flip"} /\ trace # NoSlot /\ Scalar(trace) =>
      /\ reads = progReads + ownReads
      /\ overwritten <=> progWrote

(* With a transient fault, a traced slot with no counted read was never    *)
(* read by the program while it held the injected value, vectors included: *)
(* "SDC with 0 reads" cannot come from an uncounted read.                  *)
ZeroReadsMeansUnread ==
    faultTypes = {"bit_flip"} /\ trace # NoSlot /\ reads = 0 => progReads = 0

(* The write-path mask: the stuck bits of the slot it is armed on are in   *)
(* place after any sequence of program writes, re-injections and checks.   *)
StuckCellHolds == mask # NoSlot => mask \in forced

(* With maxFaults = 1 the cap squashes the pending check before it can     *)
(* re-apply anything: no slot but the chosen one is altered, the trace is  *)
(* ended by program writes only, and the one stuck cell holds.             *)
SingleFaultClean ==
    maxFaults = 1 =>
      /\ altered \subseteq targets
      /\ trace # NoSlot => (overwritten => progWrote)
      /\ defects \subseteq forced

(***************************************************************************)
(* What the comments in the register file say and the code does not do.    *)
(***************************************************************************)
(* PhysRegFile: the int and float spaces are numbered independently and    *)
(* the hooks are type-aware, so only the chosen slot carries the fault.    *)
TypeAware == altered \subseteq targets
=============================================================================
