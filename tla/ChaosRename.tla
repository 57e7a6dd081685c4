---------------------------- MODULE ChaosRename ----------------------------
(***************************************************************************)
(* The fault injectors that act on the renaming state of RegRename:        *)
(*   CHAOSRenameMap  map_bitflip, f5_substitute, f4_field_stuck            *)
(*   CHAOSFreeList   mark_free, pop_wrong                                  *)
(*   CHAOSROB        spec_leak (the hook in Rename::doSquash)              *)
(*                                                                         *)
(* A run mounts one injector in one mode.  An injection may fall between   *)
(* any two operations of the CPU; WHEN the injectors' events fire is the   *)
(* subject of InjectorEvents. Rejected attempts change nothing but a       *)
(* statistic and are left out.                                             *)
(***************************************************************************)
EXTENDS RegRename, FiniteSets

CONSTANTS
    Modes,      \* the modes a run may choose
    MaxFaults,  \* the max_faults parameter; 0 means no limit
    MaskBits    \* the bits map_bitflip may flip

RATModes == {"map_bitflip", "f5_substitute", "f4_field_stuck"}
FreeListModes == {"mark_free", "pop_wrong"}

ASSUME ChaosAssumption ==
    /\ Modes \subseteq RATModes \cup FreeListModes \cup {"spec_leak"}
    /\ MaxFaults \in Nat
    /\ MaskBits \subseteq Nat

NoReg == NumPhys

VARIABLES
    mode,               \* fi_mode of the mounted injector
    faultCount,         \* faults_injected_count
    stuckMappings,      \* f4_field_stuck: architectural register -> index
    leaked,             \* registers spec_leak kept from the free list
    marked,             \* the register mark_free last added, or NoReg
    popped              \* the register pop_wrong took back, or NoReg

chaosVars == <<mode, faultCount, stuckMappings, leaked, marked, popped>>
allVars == <<vars, chaosVars>>

\* The type of every variable; in particular no fault ever enters a register
\* index outside the register file in a map or on a list.
ChaosTypeOK ==
    /\ TypeOK
    /\ mode \in Modes
    /\ faultCount \in Nat
    /\ DOMAIN stuckMappings \subseteq ArchRegs
    /\ \A a \in DOMAIN stuckMappings : stuckMappings[a] \in PhysRegs
    /\ leaked \subseteq PhysRegs
    /\ marked \in PhysRegs \cup {NoReg}
    /\ popped \in PhysRegs \cup {NoReg}

ChaosInit ==
    /\ Init
    /\ mode \in Modes
    /\ faultCount = 0
    /\ stuckMappings = <<>>
    /\ leaked = {}
    /\ marked = NoReg
    /\ popped = NoReg

----------------------------------------------------------------------------
\* The CPU's side.  A fault can make the register popped off the free list
\* the very one it replaces; the entry then looks like a fixed mapping and
\* both loops of rename.cc skip it.
Renamed(h) == h.new # h.prev

\* Positions of the history in program order.
InOrder(S) == CHOOSE e \in [1 .. Cardinality(S) -> S] :
                 \A i, j \in DOMAIN e : i < j => e[i] < e[j]

\* removeFromHistory with the newPhysReg != prevPhysReg test in force.
RetireHistory(sn) ==
    \E k \in 1 .. Len(historyBuffer) :
        LET gone == InOrder({i \in 1 .. k : Renamed(historyBuffer[i])}) IN
        /\ OldEntries(sn, k)
        /\ freeList' = freeList \o
                         [i \in DOMAIN gone |-> historyBuffer[gone[i]].prev]
        /\ historyBuffer' = SubSeq(historyBuffer, k + 1, Len(historyBuffer))
        /\ UNCHANGED <<renameMap, commitRenameMap, freeingInProgress, window,
                       seqNum, doneSeqNum, chaosVars>>

\* CHAOSROB::maybeDelayFree may claim each undone register while faults
\* remain; leaks is the set of entries it claims in one squash.
maybeDelayFree(undone, leaks) ==
    /\ leaks \subseteq undone
    /\ leaks # {} => mode = "spec_leak"
    /\ MaxFaults = 0 \/ faultCount + Cardinality(leaks) <= MaxFaults

\* The hook's "continue" is missing: a claimed register is released too.
ReleasedBug(undone, leaks) ==
    LET e == InOrder(undone)
    IN  [i \in DOMAIN e |-> historyBuffer[e[Cardinality(undone) + 1 - i]].new]

\* The new registers of the undone entries the hook did not claim, newest
\* first.
Released(undone, leaks) ==
    LET kept == undone \ leaks
        e == InOrder(kept)
    IN  [i \in DOMAIN e |-> historyBuffer[e[Cardinality(kept) + 1 - i]].new]

\* The map once these entries are undone, newest first: the oldest one of a
\* register has the last word.
Restored(undone) ==
    [a \in ArchRegs |->
        LET mine == {i \in undone : historyBuffer[i].arch = a}
        IN  IF mine = {} THEN renameMap[a]
            ELSE historyBuffer[CHOOSE i \in mine : \A j \in mine : i <= j].prev]

\* doSquash with the same test and with the spec_leak hook: undone entries,
\* newest first, give their mapping back and release their new register
\* unless the hook claims it.
SquashHistory(sn) ==
    \E k \in 0 .. Len(historyBuffer) :
        LET undone == {i \in k + 1 .. Len(historyBuffer) : Renamed(historyBuffer[i])}
        IN
        /\ OldEntries(sn, k)
        /\ renameMap' = Restored(undone)
        /\ historyBuffer' = SubSeq(historyBuffer, 1, k)
        /\ window' = {inst \in window : inst.seq <= sn}
        /\ \E leaks \in SUBSET undone :
             /\ maybeDelayFree(undone, leaks)
             /\ freeingInProgress' =
                  freeingInProgress \o Released(undone, leaks)
             /\ leaked' = leaked \cup {historyBuffer[i].new : i \in leaks}
             /\ faultCount' = faultCount + Cardinality(leaks)
        /\ UNCHANGED <<commitRenameMap, freeList, seqNum, doneSeqNum, mode,
                       stuckMappings, marked, popped>>

CPUStep ==
    \/ /\ \/ \E s \in ArchRegs : RenameNoDest(s)
          \/ \E s, d \in ArchRegs : RenameDest(s, d)
          \/ \E inst \in window : Commit(inst)
          \/ FreeSquashed
       /\ UNCHANGED chaosVars
    \/ \E sn \in 0 .. doneSeqNum : RetireHistory(sn)
    \/ \E sn \in doneSeqNum .. seqNum : SquashHistory(sn)

----------------------------------------------------------------------------
\* The early return at the top of every processFault.
FaultsRemain == MaxFaults = 0 \/ faultCount < MaxFaults

\* The displaced register is released as if the rename were a real one.
RemapBug(a, p) ==
    /\ renameMap' = [renameMap EXCEPT ![a] = p]
    /\ freeList' = Append(freeList, renameMap[a])
    /\ faultCount' = faultCount + 1
    /\ UNCHANGED <<commitRenameMap, freeingInProgress,
                   historyBuffer, window, seqNum, doneSeqNum, mode, leaked,
                   marked, popped>>

\* setEntry on the front rename map, and nothing else of the CPU.
Remap(a, p) ==
    /\ renameMap' = [renameMap EXCEPT ![a] = p]
    /\ faultCount' = faultCount + 1
    /\ UNCHANGED <<commitRenameMap, freeList, freeingInProgress,
                   historyBuffer, window, seqNum, doneSeqNum, mode, leaked,
                   marked, popped>>

FlipBit(p, b) == IF (p \div 2^b) % 2 = 0 THEN p + 2^b ELSE p - 2^b

\* Flip a bit of a mapping; an index outside the register file is rejected.
MapBitFlip(a, b) ==
    /\ mode = "map_bitflip"
    /\ FaultsRemain
    /\ FlipBit(renameMap[a], b) \in PhysRegs
    /\ Remap(a, FlipBit(renameMap[a], b))
    /\ UNCHANGED stuckMappings

\* Point a at the register of a donor; a donor with the same mapping is no
\* donor, and without one the attempt is rejected.
F5Substitute(a, donor) ==
    /\ mode = "f5_substitute"
    /\ FaultsRemain
    /\ donor # a /\ renameMap[donor] # renameMap[a]
    /\ Remap(a, renameMap[donor])
    /\ UNCHANGED stuckMappings

\* The same substitution, recorded so that checkPermanent can repeat it.
F4FieldStuck(a, donor) ==
    /\ mode = "f4_field_stuck"
    /\ FaultsRemain
    /\ donor # a /\ renameMap[donor] # renameMap[a]
    /\ Remap(a, renameMap[donor])
    /\ stuckMappings' = [x \in DOMAIN stuckMappings \cup {a} |->
                           IF x = a THEN renameMap[donor]
                           ELSE stuckMappings[x]]

\* checkPermanent: every stuck mapping is set again, whatever the CPU did to
\* it since, and no fault is counted.
CheckPermanent ==
    /\ mode = "f4_field_stuck"
    /\ renameMap' = [a \in ArchRegs |-> IF a \in DOMAIN stuckMappings
                                        THEN stuckMappings[a]
                                        ELSE renameMap[a]]
    /\ UNCHANGED <<commitRenameMap, freeList, freeingInProgress,
                   historyBuffer, window, seqNum, doneSeqNum, chaosVars>>

\* isFree looks at the free list only.
IsFree(p) == \E i \in DOMAIN freeList : freeList[i] = p

\* The register CHAOSFreeList aims at: target_phys_idx when it is given
\* (any register), otherwise one the rename map uses; never a free one.
Targets(directed) == {p \in PhysRegs : /\ directed \/ p \in Mapped
                                       /\ ~IsFree(p)}

\* mark_free appends the target to the free list; pop_wrong then also takes
\* one register off the list and drops it.
MarkFree(p) ==
    /\ mode \in FreeListModes
    /\ FaultsRemain
    /\ marked' = p
    /\ IF mode = "pop_wrong"
       THEN /\ popped' = Head(Append(freeList, p))
            /\ freeList' = Tail(Append(freeList, p))
       ELSE /\ freeList' = Append(freeList, p)
            /\ UNCHANGED popped
    /\ faultCount' = faultCount + 1
    /\ UNCHANGED <<renameMap, commitRenameMap, freeingInProgress,
                   historyBuffer, window, seqNum, doneSeqNum, mode,
                   stuckMappings, leaked>>

Inject ==
    \/ \E a \in ArchRegs, b \in MaskBits : MapBitFlip(a, b)
    \/ \E a, donor \in ArchRegs : F5Substitute(a, donor)
    \/ \E a, donor \in ArchRegs : F4FieldStuck(a, donor)
    \/ \E directed \in BOOLEAN : \E p \in Targets(directed) : MarkFree(p)
    \/ CheckPermanent

ChaosNext == CPUStep \/ Inject

ChaosSpec == ChaosInit /\ [][ChaosNext]_allVars

----------------------------------------------------------------------------
RenamedPrevs == {historyBuffer[i].prev :
                   i \in {j \in DOMAIN historyBuffer : Renamed(historyBuffer[j])}}

\* Places a register can be owned from, and the registers owned.
OwnerSlots ==
    Len(freeList) + Len(freeingInProgress) + NumArch
        + Cardinality({i \in DOMAIN historyBuffer : Renamed(historyBuffer[i])})
Owned == Elements(freeList) \cup Elements(freeingInProgress) \cup Mapped
             \cup RenamedPrevs

\* spec_leak costs capacity and nothing else: a leaked register is "neither
\* referenced by the RAT nor returned to the free list", every other one is
\* accounted for exactly once, and neither the architectural state nor an
\* operand in flight is touched.
SpecLeakContained ==
    mode = "spec_leak" =>
        /\ NoDoubleOwner
        /\ leaked \cap Owned = {}
        /\ PhysRegs = Owned \cup leaked
        /\ Cardinality(leaked) = faultCount
        /\ CommittedStateKept
        /\ SourcesKept
        /\ RollbackExact

\* One injected fault makes at most one register doubly owned and loses at
\* most one, however many renames, commits and squashes follow; only
\* f4_field_stuck, which repeats its fault without counting it, may exceed
\* that.
FaultNotAmplified ==
    mode # "f4_field_stuck" =>
        /\ OwnerSlots - Cardinality(Owned) <= faultCount
        /\ Cardinality(PhysRegs \ Owned) <= faultCount

\* RAT faults move ownership but never create it: no number of them makes
\* the structures hold more registers than exist.
RATFaultsConserve == mode \in RATModes => OwnerSlots <= NumPhys

\* CHAOSFreeList.cc:188 "The returned physReg is the one we just (wrongly)
\* marked free."
PopReturnsMarked == popped # NoReg => popped = marked
=============================================================================
