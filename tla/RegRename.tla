----------------------------- MODULE RegRename -----------------------------
(***************************************************************************)
(* The register-renaming book-keeping of the O3 CPU: what rename.cc,       *)
(* rename_map.cc, free_list.hh and the commit rename map of commit.cc do   *)
(* to the physical registers of one register class of one hardware thread. *)
(*                                                                         *)
(* Each action is one operation of that code.  WHEN the operations happen  *)
(* (cycles, time buffers, the ROB) is left open: any interleaving the      *)
(* sequence numbers allow is a behaviour.                                  *)
(*                                                                         *)
(* Abstractions: an instruction reads one and writes at most one register  *)
(* of the class; pinned destinations and fixed mappings are left out.  The *)
(* test newPhysReg != prevPhysReg of both history loops, which is there    *)
(* for fixed mappings, is therefore always true (RenameChanges below).     *)
(*                                                                         *)
(* A definition named ...Bug is the neighbouring definition with one       *)
(* plausible mistake; no behaviour of Spec uses it.                        *)
(***************************************************************************)
EXTENDS Naturals, Sequences

CONSTANTS
    NumArch,    \* architectural registers of the class
    NumPhys,    \* physical registers of the class
    MaxSeq      \* bound: instructions renamed in one behaviour

\* cpu.cc refuses to start with fewer physical than architectural registers;
\* one spare register is what makes renaming possible at all.
ASSUME SizesAssumption ==
    /\ NumArch \in Nat \ {0}
    /\ NumPhys \in Nat
    /\ NumArch < NumPhys
    /\ MaxSeq \in Nat

ArchRegs == 0 .. NumArch - 1
PhysRegs == 0 .. NumPhys - 1
SeqNums == 1 .. MaxSeq

\* struct RenameHistory: one renamed destination.
RenameHistory == [seq : SeqNums, arch : ArchRegs,
                  new : PhysRegs, prev : PhysRegs]

\* An instruction without a destination in this register class.
NoDest == NumArch

\* An in-flight instruction: its sequence number and the physical registers
\* its source and its destination were renamed to.
Inflight == [seq : SeqNums, src : PhysRegs, dest : ArchRegs \cup {NoDest},
             new : PhysRegs]

VARIABLES
    renameMap,          \* Rename's speculative map
    commitRenameMap,    \* Commit's architectural map
    freeList,           \* SimpleFreeList: a FIFO queue
    freeingInProgress,  \* registers of squashed instructions, not free yet
    historyBuffer,      \* oldest entry first (the code pushes at the front)
    window,             \* renamed instructions neither committed nor squashed
    seqNum,             \* youngest sequence number handed out
    doneSeqNum          \* youngest committed sequence number

vars == <<renameMap, commitRenameMap, freeList, freeingInProgress,
          historyBuffer, window, seqNum, doneSeqNum>>

\* The type of every variable; in particular no free list, map or history
\* entry ever names a register the register file does not have.
TypeOK ==
    /\ renameMap \in [ArchRegs -> PhysRegs]
    /\ commitRenameMap \in [ArchRegs -> PhysRegs]
    /\ freeList \in Seq(PhysRegs)
    /\ freeingInProgress \in Seq(PhysRegs)
    /\ historyBuffer \in Seq(RenameHistory)
    /\ window \in SUBSET Inflight
    /\ seqNum \in 0 .. MaxSeq
    /\ doneSeqNum \in 0 .. MaxSeq

----------------------------------------------------------------------------
\* The free list filled with indices one too high.
InitBug ==
    /\ renameMap = [a \in ArchRegs |-> a]
    /\ commitRenameMap = [a \in ArchRegs |-> a]
    /\ freeList = [i \in 1 .. NumPhys - NumArch |-> NumArch + i]
    /\ freeingInProgress = <<>>
    /\ historyBuffer = <<>>
    /\ window = {}
    /\ seqNum = 0
    /\ doneSeqNum = 0

\* The CPU constructor pops one register per architectural register off the
\* full free list and enters it in both maps.
Init ==
    /\ renameMap = [a \in ArchRegs |-> a]
    /\ commitRenameMap = [a \in ArchRegs |-> a]
    /\ freeList = [i \in 1 .. NumPhys - NumArch |-> NumArch + i - 1]
    /\ freeingInProgress = <<>>
    /\ historyBuffer = <<>>
    /\ window = {}
    /\ seqNum = 0
    /\ doneSeqNum = 0

\* canRename for an instruction with one destination.
canRename == freeList # <<>>

\* Rename an instruction that writes no register of this class.  What makes
\* renameInsts stall instead (full ROB, IQ or LSQ, serialisation) is a cycle
\* without this step.
RenameNoDest(s) ==
    /\ seqNum < MaxSeq
    /\ seqNum' = seqNum + 1
    /\ window' = window \cup {[seq |-> seqNum + 1, src |-> renameMap[s],
                               dest |-> NoDest, new |-> renameMap[s]]}
    /\ UNCHANGED <<renameMap, commitRenameMap, freeList, freeingInProgress,
                   historyBuffer, doneSeqNum>>

\* The history entry built after the map was updated: prev is new.
RenameDestBug(s, d) ==
    /\ seqNum < MaxSeq
    /\ canRename
    /\ seqNum' = seqNum + 1
    /\ window' = window \cup {[seq |-> seqNum + 1, src |-> renameMap[s],
                               dest |-> d, new |-> Head(freeList)]}
    /\ freeList' = Tail(freeList)
    /\ renameMap' = [renameMap EXCEPT ![d] = Head(freeList)]
    /\ historyBuffer' = Append(historyBuffer,
                               [seq |-> seqNum + 1, arch |-> d,
                                new |-> Head(freeList),
                                prev |-> renameMap'[d]])
    /\ UNCHANGED <<commitRenameMap, freeingInProgress, doneSeqNum>>

\* Rename an instruction that reads s and writes d: renameSrcRegs looks the
\* source up before renameDestRegs pops the front of the free list.
RenameDest(s, d) ==
    /\ seqNum < MaxSeq
    /\ canRename
    /\ seqNum' = seqNum + 1
    /\ window' = window \cup {[seq |-> seqNum + 1, src |-> renameMap[s],
                               dest |-> d, new |-> Head(freeList)]}
    /\ freeList' = Tail(freeList)
    /\ renameMap' = [renameMap EXCEPT ![d] = Head(freeList)]
    /\ historyBuffer' = Append(historyBuffer,
                               [seq |-> seqNum + 1, arch |-> d,
                                new |-> Head(freeList),
                                prev |-> renameMap[d]])
    /\ UNCHANGED <<commitRenameMap, freeingInProgress, doneSeqNum>>

\* An instruction commits ahead of older ones.
CommitOrderBug(inst) ==
    /\ window' = window \ {inst}
    /\ doneSeqNum' = inst.seq
    /\ commitRenameMap' = IF inst.dest = NoDest
                          THEN commitRenameMap
                          ELSE [commitRenameMap EXCEPT ![inst.dest] = inst.new]
    /\ UNCHANGED <<renameMap, freeList, freeingInProgress, historyBuffer,
                   seqNum>>

\* The commit rename map is never written.
CommitMapBug(inst) ==
    /\ \A other \in window : inst.seq <= other.seq
    /\ window' = window \ {inst}
    /\ doneSeqNum' = inst.seq
    /\ UNCHANGED <<renameMap, commitRenameMap, freeList, freeingInProgress,
                   historyBuffer, seqNum>>

\* Commit::commitHead for the oldest in-flight instruction.  A head that is
\* not executed or waits for stores stays where it is; one with a fault also
\* returns early, and the trap it raises arrives as doSquash.
Commit(inst) ==
    /\ \A other \in window : inst.seq <= other.seq
    /\ window' = window \ {inst}
    /\ doneSeqNum' = inst.seq
    /\ commitRenameMap' = IF inst.dest = NoDest
                          THEN commitRenameMap
                          ELSE [commitRenameMap EXCEPT ![inst.dest] = inst.new]
    /\ UNCHANGED <<renameMap, freeList, freeingInProgress, historyBuffer,
                   seqNum>>

\* The boundary of the history walk one entry too far.
OldEntriesBug(sn, k) ==
    /\ \A i \in 1 .. k : historyBuffer[i].seq <= sn + 1
    /\ \A i \in k + 1 .. Len(historyBuffer) : historyBuffer[i].seq > sn + 1

\* Rename::removeFromHistory: entries up to and including sn leave the
\* history, the registers they replaced go to the back of the free list.
\* k is the number of such entries.
OldEntries(sn, k) ==
    /\ \A i \in 1 .. k : historyBuffer[i].seq <= sn
    /\ \A i \in k + 1 .. Len(historyBuffer) : historyBuffer[i].seq > sn

removeFromHistory(sn) ==
    \E k \in 1 .. Len(historyBuffer) :
        /\ OldEntries(sn, k)
        /\ freeList' = freeList \o [i \in 1 .. k |-> historyBuffer[i].prev]
        /\ historyBuffer' = SubSeq(historyBuffer, k + 1, Len(historyBuffer))
        /\ UNCHANGED <<renameMap, commitRenameMap, freeingInProgress, window,
                       seqNum, doneSeqNum>>

\* The first of the entries after the k kept ones that renamed a.
FirstUndone(k, a, i) ==
    /\ i \in k + 1 .. Len(historyBuffer)
    /\ historyBuffer[i].arch = a
    /\ \A j \in k + 1 .. i - 1 : historyBuffer[j].arch # a

\* Undone oldest first: the newest undone entry wins.
UndoneMapBug(k) ==
    [a \in ArchRegs |->
        IF \E i \in k + 1 .. Len(historyBuffer) : historyBuffer[i].arch = a
        THEN historyBuffer[CHOOSE i \in k + 1 .. Len(historyBuffer) :
                /\ historyBuffer[i].arch = a
                /\ \A j \in i + 1 .. Len(historyBuffer) :
                     historyBuffer[j].arch # a].prev
        ELSE renameMap[a]]

\* The map once the entries after the k kept ones are undone newest first:
\* the last setEntry for a register is that of its oldest undone entry.
UndoneMap(k) ==
    [a \in ArchRegs |->
        IF \E i \in k + 1 .. Len(historyBuffer) : historyBuffer[i].arch = a
        THEN historyBuffer[CHOOSE i \in 1 .. Len(historyBuffer) :
                             FirstUndone(k, a, i)].prev
        ELSE renameMap[a]]

\* The new registers of the undone entries, newest first.
UndoneRegs(k) ==
    [i \in 1 .. Len(historyBuffer) - k |->
        historyBuffer[Len(historyBuffer) + 1 - i].new]

\* The registers of the undone entries are forgotten.
doSquashBug(sn) ==
    \E k \in 0 .. Len(historyBuffer) :
        /\ OldEntries(sn, k)
        /\ renameMap' = UndoneMap(k)
        /\ historyBuffer' = SubSeq(historyBuffer, 1, k)
        /\ window' = {inst \in window : inst.seq <= sn}
        /\ UNCHANGED <<commitRenameMap, freeList, freeingInProgress, seqNum,
                       doneSeqNum>>

\* Rename::doSquash(sn), together with every other stage dropping its
\* instructions younger than sn.
doSquash(sn) ==
    \E k \in 0 .. Len(historyBuffer) :
        /\ OldEntries(sn, k)
        /\ renameMap' = UndoneMap(k)
        /\ freeingInProgress' = freeingInProgress \o UndoneRegs(k)
        /\ historyBuffer' = SubSeq(historyBuffer, 1, k)
        /\ window' = {inst \in window : inst.seq <= sn}
        /\ UNCHANGED <<commitRenameMap, freeList, seqNum, doneSeqNum>>

\* freeingInProgress is not cleared once drained.
FreeSquashedBug ==
    /\ freeingInProgress # <<>>
    /\ freeList' = freeList \o freeingInProgress
    /\ UNCHANGED <<renameMap, commitRenameMap, freeingInProgress,
                   historyBuffer, window, seqNum, doneSeqNum>>

\* checkSignalsAndUpdate once the ROB has stopped squashing.
FreeSquashed ==
    /\ freeingInProgress # <<>>
    /\ freeList' = freeList \o freeingInProgress
    /\ freeingInProgress' = <<>>
    /\ UNCHANGED <<renameMap, commitRenameMap, historyBuffer, window, seqNum,
                   doneSeqNum>>

Next ==
    \/ \E s \in ArchRegs : RenameNoDest(s)
    \/ \E s, d \in ArchRegs : RenameDest(s, d)
    \/ \E inst \in window : Commit(inst)
    \/ \E sn \in 0 .. doneSeqNum : removeFromHistory(sn)
    \/ \E sn \in doneSeqNum .. seqNum : doSquash(sn)
    \/ FreeSquashed

Spec == Init /\ [][Next]_vars

----------------------------------------------------------------------------
Elements(s) == {s[i] : i \in DOMAIN s}
Distinct(s) == \A i, j \in DOMAIN s : s[i] = s[j] => i = j
Prevs == {historyBuffer[i].prev : i \in DOMAIN historyBuffer}
Mapped == {renameMap[a] : a \in ArchRegs}

\* No physical register is in two places: twice on the free list, twice in
\* the map, free and mapped, free and needed to undo a rename, ...
NoDoubleOwner ==
    /\ Distinct(freeList)
    /\ Distinct(freeingInProgress)
    /\ \A a, b \in ArchRegs : renameMap[a] = renameMap[b] => a = b
    /\ \A i, j \in DOMAIN historyBuffer :
         historyBuffer[i].prev = historyBuffer[j].prev => i = j
    /\ Elements(freeList) \cap Elements(freeingInProgress) = {}
    /\ Elements(freeList) \cap Mapped = {}
    /\ Elements(freeList) \cap Prevs = {}
    /\ Elements(freeingInProgress) \cap Mapped = {}
    /\ Elements(freeingInProgress) \cap Prevs = {}
    /\ Mapped \cap Prevs = {}

\* No physical register is lost: whatever mix of commits and squashes
\* happened, each one is free, about to be freed, mapped, or kept in the
\* history for a rollback.
NoLeak ==
    PhysRegs \subseteq Elements(freeList) \cup Elements(freeingInProgress)
                       \cup Mapped \cup Prevs

\* The committed architectural state is never reclaimed: no register of the
\* commit rename map is on the free list or on its way there.
CommittedStateKept ==
    \A a \in ArchRegs :
        commitRenameMap[a] \notin Elements(freeList)
                                  \cup Elements(freeingInProgress)

\* The source register of an in-flight instruction is not reclaimed before
\* that instruction commits or is squashed.
SourcesKept ==
    \A inst \in window :
        inst.src \notin Elements(freeList) \cup Elements(freeingInProgress)

\* Undoing everything uncommitted restores the architectural map exactly:
\* the history and the commit rename map, kept by two stages that never
\* compare them, agree on what a full squash leads to.
RollbackExact ==
    \A k \in 0 .. Len(historyBuffer) :
        OldEntries(doneSeqNum, k) => UndoneMap(k) = commitRenameMap

\* A history entry always replaced one register by another.  Both loops of
\* rename.cc skip an entry whose newPhysReg is its prevPhysReg, so an entry
\* violating this would leak its register silently.
RenameChanges ==
    \A i \in DOMAIN historyBuffer :
        historyBuffer[i].new # historyBuffer[i].prev

----------------------------------------------------------------------------
\* The parts of the inductive invariant.

\* Entries are in program order and every uncommitted one belongs to an
\* in-flight instruction; in-flight instructions are uncommitted.
HistoryOrdered ==
    /\ \A i, j \in DOMAIN historyBuffer :
         i < j => historyBuffer[i].seq < historyBuffer[j].seq
    /\ \A i \in DOMAIN historyBuffer : historyBuffer[i].seq <= seqNum
    /\ doneSeqNum <= seqNum

WindowMatchesHistory ==
    /\ \A inst \in window : inst.seq > doneSeqNum /\ inst.seq <= seqNum
    /\ \A x, y \in window : x.seq = y.seq => x = y
    /\ \A inst \in window : inst.dest # NoDest =>
         \E i \in DOMAIN historyBuffer :
            /\ historyBuffer[i].seq = inst.seq
            /\ historyBuffer[i].arch = inst.dest
            /\ historyBuffer[i].new = inst.new
    /\ \A i \in DOMAIN historyBuffer : historyBuffer[i].seq > doneSeqNum =>
         \E inst \in window : inst.seq = historyBuffer[i].seq
                              /\ inst.dest = historyBuffer[i].arch

\* Entry j is the next one after i for the same architectural register.
NextFor(i, j) ==
    /\ i < j
    /\ historyBuffer[j].arch = historyBuffer[i].arch
    /\ \A m \in i + 1 .. j - 1 : historyBuffer[m].arch # historyBuffer[i].arch

\* An entry's new register is the one the next entry for the same
\* architectural register replaced, or the current mapping.
HistoryChained ==
    /\ \A i \in DOMAIN historyBuffer :
         \/ /\ renameMap[historyBuffer[i].arch] = historyBuffer[i].new
            /\ \A j \in i + 1 .. Len(historyBuffer) :
                 historyBuffer[j].arch # historyBuffer[i].arch
         \/ \E j \in DOMAIN historyBuffer :
                NextFor(i, j) /\ historyBuffer[j].prev = historyBuffer[i].new
    /\ \A j \in DOMAIN historyBuffer :
         \/ \A i \in 1 .. j - 1 : historyBuffer[i].arch # historyBuffer[j].arch
         \/ \E i \in DOMAIN historyBuffer :
                NextFor(i, j) /\ historyBuffer[j].prev = historyBuffer[i].new

\* The commit map of a is what a's oldest uncommitted entry replaced.
CommitMapTracks ==
    \A a \in ArchRegs :
        /\ (\A i \in DOMAIN historyBuffer :
              historyBuffer[i].arch = a => historyBuffer[i].seq <= doneSeqNum)
           => commitRenameMap[a] = renameMap[a]
        /\ \A i \in DOMAIN historyBuffer :
             /\ historyBuffer[i].arch = a
             /\ historyBuffer[i].seq > doneSeqNum
             /\ \A j \in 1 .. i - 1 :
                  historyBuffer[j].arch = a => historyBuffer[j].seq <= doneSeqNum
             => commitRenameMap[a] = historyBuffer[i].prev

\* A source register is still mapped or was replaced by the reader itself or
\* by a younger instruction, and was produced by an older one.
SourcesTracked ==
    \A inst \in window :
        /\ \/ \E a \in ArchRegs : renameMap[a] = inst.src
           \/ \E i \in DOMAIN historyBuffer :
                /\ historyBuffer[i].prev = inst.src
                /\ historyBuffer[i].seq >= inst.seq
        /\ \A i \in DOMAIN historyBuffer :
             historyBuffer[i].new = inst.src => historyBuffer[i].seq < inst.seq

\* The inductive invariant: every fact above except the last four
\* properties, which it implies.
IInv ==
    /\ TypeOK
    /\ NoDoubleOwner
    /\ NoLeak
    /\ HistoryOrdered
    /\ WindowMatchesHistory
    /\ HistoryChained
    /\ CommitMapTracks
    /\ SourcesTracked
=============================================================================
