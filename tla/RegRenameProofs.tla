-------------------------- MODULE RegRenameProofs --------------------------
(***************************************************************************)
(* Machine-checked proofs about RegRename and ChaosRename, for every       *)
(* number of registers, every bound on the instructions and every number   *)
(* of faults.                                                              *)
(***************************************************************************)
EXTENDS ChaosRename, FiniteSetTheorems, WellFoundedInduction,
        NaturalsInduction, TLAPS

\* A nonempty set of naturals has a least element.
LEMMA SetHasMin ==
  ASSUME NEW S \in SUBSET Nat, S # {}
  PROVE  \E m \in S : \A k \in S : m <= k
<1> DEFINE R == {ss \in Nat \X Nat : ss[1] < ss[2]}
<1>1. IsWellFoundedOn(R, Nat)
  BY NatLessThanWellFounded, Zenon DEF OpToRel
<1> HIDE DEF R
<1>2. \E m \in S : \A k \in S : ~(<<k, m>> \in R)
  BY <1>1, WFMin, Zenon
<1>3. PICK m \in S : \A k \in S : ~(<<k, m>> \in R)
  BY <1>2
<1>4. \A k \in S : ~(k < m)
  BY <1>3 DEF R
<1> QED
  BY <1>4

\* Undoing a suffix of the history is well defined: if an undone entry
\* renamed a, one of them is the first.
LEMMA FirstUndoneExists ==
  ASSUME TypeOK, NEW k \in 0 .. Len(historyBuffer), NEW a \in ArchRegs,
         \E i \in k + 1 .. Len(historyBuffer) : historyBuffer[i].arch = a
  PROVE  \E i \in 1 .. Len(historyBuffer) : FirstUndone(k, a, i)
<1> DEFINE S == {i \in k + 1 .. Len(historyBuffer) : historyBuffer[i].arch = a}
<1>0. Len(historyBuffer) \in Nat
  BY DEF TypeOK
<1>1. S \in SUBSET Nat /\ S # {}
  BY <1>0
<1>2. PICK m \in S : \A j \in S : m <= j
  BY <1>1, SetHasMin
<1>3. m \in 1 .. Len(historyBuffer)
  BY <1>0
<1>4. \A j \in k + 1 .. m - 1 : historyBuffer[j].arch # a
  BY <1>0, <1>2
<1> QED
  BY <1>2, <1>3, <1>4 DEF FirstUndone

\* If some entry renamed a, one of them is the last.
LEMMA LastFor ==
  ASSUME TypeOK, NEW a,
         \E i \in 1 .. Len(historyBuffer) : historyBuffer[i].arch = a
  PROVE  \E i \in 1 .. Len(historyBuffer) :
            /\ historyBuffer[i].arch = a
            /\ \A m \in i + 1 .. Len(historyBuffer) : historyBuffer[m].arch # a
<1> DEFINE n == Len(historyBuffer)
           S == {x \in 0 .. n : n - x \in 1 .. n /\ historyBuffer[n - x].arch = a}
<1>0. n \in Nat
  BY DEF TypeOK
<1>1. PICK i \in 1 .. n : historyBuffer[i].arch = a
  OBVIOUS
<1>2. n - i \in 0 .. n /\ n - (n - i) = i
  BY <1>0
<1>3. n - i \in S /\ S \in SUBSET Nat
  BY <1>0, <1>1, <1>2
<1>4. PICK x \in S : \A y \in S : x <= y
  BY <1>3, SetHasMin
<1>5. ASSUME NEW m \in (n - x) + 1 .. n, historyBuffer[m].arch = a PROVE FALSE
  <2>1. n - m \in S
    <3>1. n - (n - m) = m /\ n - m \in 0 .. n /\ m \in 1 .. n
      BY <1>0, <1>4
    <3> QED
      BY <3>1, <1>5
  <2>2. x \in Nat
    BY <1>3, <1>4
  <2>3. x <= n - m
    BY <2>1, <1>4, Zenon
  <2> HIDE DEF S
  <2> QED
    BY <2>2, <2>3, <1>0, <1>5
<1> QED
  BY <1>4, <1>5

\* What UndoneMap maps a register to, without CHOOSE.
LEMMA UndoneMapValue ==
  ASSUME TypeOK, NEW k \in 0 .. Len(historyBuffer), NEW a \in ArchRegs
  PROVE  \/ /\ \A i \in k + 1 .. Len(historyBuffer) : historyBuffer[i].arch # a
            /\ UndoneMap(k)[a] = renameMap[a]
         \/ \E i \in k + 1 .. Len(historyBuffer) :
               /\ FirstUndone(k, a, i)
               /\ UndoneMap(k)[a] = historyBuffer[i].prev
<1>1. CASE \A i \in k + 1 .. Len(historyBuffer) : historyBuffer[i].arch # a
  BY <1>1 DEF UndoneMap
<1>2. CASE \E i \in k + 1 .. Len(historyBuffer) : historyBuffer[i].arch = a
  <2> DEFINE f == CHOOSE i \in 1 .. Len(historyBuffer) : FirstUndone(k, a, i)
  <2>1. f \in 1 .. Len(historyBuffer) /\ FirstUndone(k, a, f)
    BY <1>2, FirstUndoneExists
  <2>2. UndoneMap(k)[a] = historyBuffer[f].prev
    BY <1>2 DEF UndoneMap
  <2>3. f \in k + 1 .. Len(historyBuffer)
    BY <2>1 DEF FirstUndone
  <2> QED
    BY <2>1, <2>2, <2>3
<1> QED
  BY <1>1, <1>2

\* The fields of the history's entries.
LEMMA HistoryTypes ==
  ASSUME TypeOK
  PROVE  /\ Len(historyBuffer) \in Nat
         /\ DOMAIN historyBuffer = 1 .. Len(historyBuffer)
         /\ \A i \in 1 .. Len(historyBuffer) :
              /\ historyBuffer[i] \in RenameHistory
              /\ historyBuffer[i].seq \in SeqNums
              /\ historyBuffer[i].arch \in ArchRegs
              /\ historyBuffer[i].new \in PhysRegs
              /\ historyBuffer[i].prev \in PhysRegs
<1>1. Len(historyBuffer) \in Nat /\ DOMAIN historyBuffer = 1 .. Len(historyBuffer)
  BY DEF TypeOK
<1>2. ASSUME NEW i \in 1 .. Len(historyBuffer) PROVE historyBuffer[i] \in RenameHistory
  BY DEF TypeOK
<1>3. \A h \in RenameHistory : /\ h.seq \in SeqNums /\ h.arch \in ArchRegs
                               /\ h.new \in PhysRegs /\ h.prev \in PhysRegs
  BY DEF RenameHistory
<1> QED
  BY <1>1, <1>2, <1>3

\* The fields of the in-flight instructions.
LEMMA WindowTypes ==
  ASSUME TypeOK
  PROVE  \A inst \in window : /\ inst.seq \in SeqNums
                              /\ inst.src \in PhysRegs
                              /\ inst.new \in PhysRegs
  BY DEF TypeOK, Inflight

\* The state the CPU constructor leaves satisfies the type invariant.
LEMMA InitTypeOK == Init => TypeOK
<1> SUFFICES ASSUME Init PROVE TypeOK
  OBVIOUS
<1> USE SizesAssumption DEF Init, ArchRegs, PhysRegs
<1>1. renameMap \in [ArchRegs -> PhysRegs] /\ commitRenameMap \in [ArchRegs -> PhysRegs]
  OBVIOUS
<1>2. freeList \in Seq(PhysRegs)
  OBVIOUS
<1>3. freeingInProgress \in Seq(PhysRegs) /\ historyBuffer \in Seq(RenameHistory)
  OBVIOUS
<1> QED
  BY <1>1, <1>2, <1>3 DEF TypeOK

\* The map a squash restores is a map.
LEMMA UndoneMapType ==
  ASSUME TypeOK, NEW k \in 0 .. Len(historyBuffer)
  PROVE  UndoneMap(k) \in [ArchRegs -> PhysRegs]
<1>1. \A i \in 1 .. Len(historyBuffer) : historyBuffer[i] \in RenameHistory
  BY DEF TypeOK
<1>2. \A i \in k + 1 .. Len(historyBuffer) : historyBuffer[i].prev \in PhysRegs
  BY <1>1 DEF TypeOK, RenameHistory
<1>3. \A a \in ArchRegs : UndoneMap(k)[a] \in PhysRegs
  BY <1>2, UndoneMapValue DEF TypeOK
<1>4. DOMAIN UndoneMap(k) = ArchRegs /\ UndoneMap(k) = [a \in ArchRegs |-> UndoneMap(k)[a]]
  BY DEF UndoneMap
<1> QED
  BY <1>3, <1>4, Zenon

\* The registers a squash releases, as a sequence.
LEMMA UndoneRegsType ==
  ASSUME TypeOK, NEW k \in 0 .. Len(historyBuffer)
  PROVE  /\ UndoneRegs(k) \in Seq(PhysRegs)
         /\ Len(UndoneRegs(k)) = Len(historyBuffer) - k
<1> DEFINE m == Len(historyBuffer) - k
<1>1. m \in Nat
  BY HistoryTypes
<1>2. \A i \in 1 .. m : Len(historyBuffer) + 1 - i \in 1 .. Len(historyBuffer)
  BY HistoryTypes
<1>3. \A i \in 1 .. m : historyBuffer[Len(historyBuffer) + 1 - i].new \in PhysRegs
  BY <1>2, HistoryTypes
<1>4. UndoneRegs(k) = [i \in 1 .. m |-> historyBuffer[Len(historyBuffer) + 1 - i].new]
  BY DEF UndoneRegs
<1> HIDE DEF m
<1>5. UndoneRegs(k) \in Seq(PhysRegs) /\ Len(UndoneRegs(k)) = m
  BY <1>1, <1>3, <1>4
<1> QED
  BY <1>5 DEF m

\* Every operation keeps the types.
LEMMA NextTypeOK == TypeOK /\ [Next]_vars => TypeOK'
<1> SUFFICES ASSUME TypeOK, [Next]_vars PROVE TypeOK'
  OBVIOUS
<1> USE SizesAssumption
<1>0. /\ Len(historyBuffer) \in Nat
      /\ \A i \in 1 .. Len(historyBuffer) :
           /\ historyBuffer[i] \in RenameHistory
           /\ historyBuffer[i].prev \in PhysRegs
           /\ historyBuffer[i].new \in PhysRegs
  BY HistoryTypes DEF TypeOK
<1>1. ASSUME NEW s \in ArchRegs, RenameNoDest(s) PROVE TypeOK'
  BY <1>1 DEF TypeOK, RenameNoDest, Inflight, SeqNums
<1>2. ASSUME NEW s \in ArchRegs, NEW d \in ArchRegs, RenameDest(s, d) PROVE TypeOK'
  <2> USE <1>2 DEF RenameDest, canRename
  <2>1. Head(freeList) \in PhysRegs /\ Tail(freeList) \in Seq(PhysRegs)
    BY DEF TypeOK
  <2>2. historyBuffer' \in Seq(RenameHistory)
    BY <2>1 DEF TypeOK, RenameHistory, SeqNums
  <2>3. window' \in SUBSET Inflight
    BY <2>1 DEF TypeOK, Inflight, SeqNums
  <2> QED
    BY <2>1, <2>2, <2>3 DEF TypeOK
<1>3. ASSUME NEW inst \in window, Commit(inst) PROVE TypeOK'
  <2>1. inst.seq \in SeqNums /\ inst.dest \in ArchRegs \cup {NoDest} /\ inst.new \in PhysRegs
    BY DEF TypeOK, Inflight
  <2> QED
    BY <1>3, <2>1 DEF TypeOK, Commit, SeqNums
<1>4. ASSUME NEW sn \in 0 .. doneSeqNum, removeFromHistory(sn) PROVE TypeOK'
  <2>1. PICK k \in 1 .. Len(historyBuffer) :
          /\ freeList' = freeList \o [i \in 1 .. k |-> historyBuffer[i].prev]
          /\ historyBuffer' = SubSeq(historyBuffer, k + 1, Len(historyBuffer))
    BY <1>4 DEF removeFromHistory
  <2>2. [i \in 1 .. k |-> historyBuffer[i].prev] \in Seq(PhysRegs)
    BY <1>0
  <2>3. freeList' \in Seq(PhysRegs)
    BY <2>1, <2>2 DEF TypeOK
  <2>4. historyBuffer' \in Seq(RenameHistory)
    BY <2>1, <1>0 DEF TypeOK
  <2> QED
    BY <1>4, <2>3, <2>4 DEF TypeOK, removeFromHistory
<1>5. ASSUME NEW sn \in doneSeqNum .. seqNum, doSquash(sn) PROVE TypeOK'
  <2>1. PICK k \in 0 .. Len(historyBuffer) :
          /\ renameMap' = UndoneMap(k)
          /\ freeingInProgress' = freeingInProgress \o UndoneRegs(k)
          /\ historyBuffer' = SubSeq(historyBuffer, 1, k)
    BY <1>5 DEF doSquash
  <2>2. UndoneRegs(k) \in Seq(PhysRegs)
    BY UndoneRegsType
  <2>3. freeingInProgress' \in Seq(PhysRegs)
    BY <2>1, <2>2 DEF TypeOK
  <2>4. historyBuffer' \in Seq(RenameHistory)
    BY <2>1, <1>0 DEF TypeOK
  <2>5. renameMap' \in [ArchRegs -> PhysRegs]
    BY <2>1, UndoneMapType
  <2> QED
    BY <1>5, <2>3, <2>4, <2>5 DEF TypeOK, doSquash
<1>6. CASE FreeSquashed
  BY <1>6 DEF TypeOK, FreeSquashed
<1>7. CASE UNCHANGED vars
  BY <1>7 DEF TypeOK, vars
<1> QED
  BY <1>1, <1>2, <1>3, <1>4, <1>5, <1>6, <1>7 DEF Next

\* The type invariant of the renaming state holds in every behaviour.
THEOREM TypeCorrect == Spec => []TypeOK
<1>1. Init => TypeOK
  BY InitTypeOK
<1>2. TypeOK /\ [Next]_vars => TypeOK'
  BY NextTypeOK
<1> QED
  BY <1>1, <1>2, PTL DEF Spec

----------------------------------------------------------------------------
\* Every register outside L has an owner and those of L have none: L is what
\* the CPU has lost, nothing without faults.
Accounted(L) ==
    /\ L \cap (Elements(freeList) \cup Elements(freeingInProgress)
               \cup Mapped \cup Prevs) = {}
    /\ PhysRegs \subseteq L \cup Elements(freeList)
                            \cup Elements(freeingInProgress) \cup Mapped \cup Prevs

\* The inductive invariant of a CPU that has lost L.
Lossy(L) ==
    /\ TypeOK
    /\ NoDoubleOwner
    /\ Accounted(L)
    /\ HistoryOrdered
    /\ WindowMatchesHistory
    /\ HistoryChained
    /\ CommitMapTracks
    /\ SourcesTracked

\* A CPU that lost nothing satisfies the invariant of RegRename.
LEMMA LossyNothing == (IInv <=> Lossy({})) /\ (IInv' <=> Lossy({})')
<1>1. (NoLeak <=> Accounted({})) /\ (NoLeak' <=> Accounted({})')
  BY Zenon DEF NoLeak, Accounted
<1> QED
  BY <1>1 DEF IInv, Lossy

\* The initial state satisfies the inductive invariant.
LEMMA InitIInv == Init => IInv
<1> SUFFICES ASSUME Init PROVE IInv
  OBVIOUS
<1> USE SizesAssumption DEF Init, ArchRegs, PhysRegs
<1>1. TypeOK
  BY InitTypeOK
<1>2. DOMAIN historyBuffer = {} /\ Len(historyBuffer) = 0 /\ DOMAIN freeingInProgress = {}
  OBVIOUS
<1>3. /\ DOMAIN freeList = 1 .. NumPhys - NumArch
      /\ \A i \in DOMAIN freeList : freeList[i] = NumArch + i - 1
  OBVIOUS
<1>4. /\ Elements(freeList) = NumArch .. NumPhys - 1
      /\ Mapped = 0 .. NumArch - 1
      /\ Prevs = {} /\ Elements(freeingInProgress) = {}
  <2>1. ASSUME NEW p \in NumArch .. NumPhys - 1 PROVE p \in Elements(freeList)
    <3>1. p - NumArch + 1 \in DOMAIN freeList /\ freeList[p - NumArch + 1] = p
      BY <1>3
    <3> QED
      BY <3>1 DEF Elements
  <2>2. Elements(freeList) \subseteq NumArch .. NumPhys - 1
    BY <1>3 DEF Elements
  <2> QED
    BY <2>1, <2>2, <1>2 DEF Elements, Mapped, Prevs
<1>5. NoDoubleOwner
  <2>1. Distinct(freeList) /\ Distinct(freeingInProgress)
    BY <1>2, <1>3 DEF Distinct
  <2>2. \A a, b \in ArchRegs : renameMap[a] = renameMap[b] => a = b
    OBVIOUS
  <2>3. Elements(freeList) \cap Mapped = {}
    <3>1. \A x : ~(x \in NumArch .. NumPhys - 1 /\ x \in 0 .. NumArch - 1)
      OBVIOUS
    <3> QED
      BY <1>4, <3>1, Zenon
  <2> QED
    BY <2>1, <2>2, <2>3, <1>2, <1>4 DEF NoDoubleOwner
<1>6. NoLeak
  <2>1. PhysRegs \subseteq (NumArch .. NumPhys - 1) \cup (0 .. NumArch - 1)
    OBVIOUS
  <2> QED
    BY <1>4, <2>1 DEF NoLeak
<1>7. /\ HistoryOrdered /\ WindowMatchesHistory /\ HistoryChained
      /\ CommitMapTracks /\ SourcesTracked
  BY <1>2 DEF HistoryOrdered, WindowMatchesHistory, HistoryChained,
              CommitMapTracks, SourcesTracked
<1> QED
  BY <1>1, <1>5, <1>6, <1>7 DEF IInv

\* Renaming an instruction without a destination keeps the invariant.
LEMMA RenameNoDestKeeps ==
  ASSUME NEW L, Lossy(L), TypeOK', NEW s \in ArchRegs, RenameNoDest(s)
  PROVE  Lossy(L)'
<1> USE DEF Lossy, RenameNoDest
<1>0. seqNum \in Nat /\ seqNum' = seqNum + 1 /\ doneSeqNum \in Nat
  BY DEF TypeOK
<1>u. /\ Elements(freeList') = Elements(freeList) /\ Distinct(freeList') = Distinct(freeList)
      /\ Elements(freeingInProgress') = Elements(freeingInProgress)
      /\ Distinct(freeingInProgress') = Distinct(freeingInProgress)
      /\ Mapped' = Mapped /\ Prevs' = Prevs
  BY DEF Mapped, Prevs
<1>1. NoDoubleOwner' /\ Accounted(L)'
  BY <1>u DEF NoDoubleOwner, Accounted
<1>2. HistoryOrdered'
  BY <1>0, HistoryTypes DEF HistoryOrdered, SeqNums
<1>3. WindowMatchesHistory'
  <2>1. \A inst \in window' : inst.seq > doneSeqNum' /\ inst.seq <= seqNum'
    BY <1>0 DEF WindowMatchesHistory, HistoryOrdered, TypeOK, Inflight, SeqNums
  <2>2. \A x, y \in window' : x.seq = y.seq => x = y
    BY <1>0 DEF WindowMatchesHistory, TypeOK, Inflight, SeqNums
  <2> QED
    BY <2>1, <2>2 DEF WindowMatchesHistory
<1>4. HistoryChained' /\ CommitMapTracks'
  BY DEF HistoryChained, CommitMapTracks, NextFor
<1>5. SourcesTracked'
  BY <1>0, HistoryTypes DEF SourcesTracked, HistoryOrdered, SeqNums
<1> QED
  BY <1>1, <1>2, <1>3, <1>4, <1>5

\* Renaming an instruction with a destination keeps the invariant.
LEMMA RenameDestKeeps ==
  ASSUME NEW L, Lossy(L), TypeOK', NEW s \in ArchRegs, NEW d \in ArchRegs,
         RenameDest(s, d)
  PROVE  Lossy(L)'
<1> DEFINE H == historyBuffer
           p == freeList[1]
           e == [seq |-> seqNum + 1, arch |-> d, new |-> p, prev |-> renameMap[d]]
<1>t. TypeOK
  BY DEF Lossy
<1>n. PICK n \in Nat : n = Len(H)
  BY <1>t, HistoryTypes
<1>0. /\ seqNum \in Nat /\ seqNum' = seqNum + 1 /\ doneSeqNum \in Nat
      /\ doneSeqNum' = doneSeqNum
  BY <1>t DEF TypeOK, RenameDest
<1>1. /\ n \in Nat /\ DOMAIN H = 1 .. n
      /\ Len(H') = n + 1 /\ DOMAIN H' = 1 .. n + 1
      /\ \A i \in 1 .. n : H'[i] = H[i]
      /\ H'[n + 1] = e
  BY <1>t, <1>n DEF TypeOK, RenameDest
<1>2. /\ p \in Elements(freeList)
      /\ \A x : x \in Elements(freeList) => x = p \/ x \in Elements(freeList')
      /\ p \notin Elements(freeList')
      /\ Elements(freeList') \subseteq Elements(freeList)
      /\ Distinct(freeList')
  <2>1. /\ Len(freeList) \in Nat \ {0} /\ DOMAIN freeList = 1 .. Len(freeList)
        /\ DOMAIN freeList' = 1 .. Len(freeList) - 1
        /\ \A i \in 1 .. Len(freeList) - 1 : freeList'[i] = freeList[i + 1]
    BY <1>t DEF TypeOK, RenameDest, canRename
  <2>2. Distinct(freeList)
    BY DEF Lossy, NoDoubleOwner
  <2>3. p \in Elements(freeList)
    BY <2>1 DEF Elements
  <2>4. ASSUME NEW i \in DOMAIN freeList, i # 1 PROVE freeList[i] \in Elements(freeList')
    <3>1. i - 1 \in DOMAIN freeList' /\ freeList'[i - 1] = freeList[i]
      BY <2>1, <2>4
    <3> QED
      BY <3>1 DEF Elements
  <2>5. p \notin Elements(freeList') /\ Elements(freeList') \subseteq Elements(freeList)
    <3>1. ASSUME NEW i \in DOMAIN freeList'
          PROVE  freeList'[i] # p /\ freeList'[i] \in Elements(freeList)
      <4>1. i + 1 \in DOMAIN freeList /\ freeList'[i] = freeList[i + 1] /\ i + 1 # 1
        BY <2>1
      <4>2. 1 \in DOMAIN freeList /\ p = freeList[1]
        BY <2>1
      <4> QED
        BY <4>1, <4>2, <2>2 DEF Elements, Distinct
    <3> QED
      BY <3>1 DEF Elements
  <2>6. Distinct(freeList')
    <3>1. \A i \in DOMAIN freeList' : i + 1 \in DOMAIN freeList /\ freeList'[i] = freeList[i + 1]
      BY <2>1
    <3>2. \A i, j \in DOMAIN freeList' : i + 1 = j + 1 => i = j
      BY <2>1
    <3> QED
      BY <3>1, <3>2, <2>2 DEF Distinct
  <2> QED
    BY <2>3, <2>4, <2>5, <2>6 DEF Elements
<1>3. /\ renameMap \in [ArchRegs -> PhysRegs]
      /\ renameMap' = [renameMap EXCEPT ![d] = p]
  BY <1>t DEF TypeOK, RenameDest
<1>4. /\ p \notin Mapped /\ p \notin Prevs /\ p \notin Elements(freeingInProgress)
      /\ freeingInProgress' = freeingInProgress
  BY <1>2 DEF Lossy, NoDoubleOwner, RenameDest
<1>5. Mapped' = (Mapped \ {renameMap[d]}) \cup {p}
  BY <1>3 DEF Mapped, Lossy, NoDoubleOwner
<1>6. Prevs' = Prevs \cup {renameMap[d]}
  BY <1>1 DEF Prevs
<1>7. renameMap[d] \in Mapped
  BY DEF Mapped
<1>h. /\ \A i \in 1 .. n : H[i].seq \in Nat /\ H[i].seq <= seqNum
                          /\ H[i].arch \in ArchRegs
      /\ \A i \in 1 .. n : H[i].prev # renameMap[d]
      /\ \A i \in 1 .. n : H[i].prev # p
      /\ e.seq = seqNum + 1 /\ e.arch = d /\ e.new = p /\ e.prev = renameMap[d]
  BY <1>t, <1>1, <1>4, <1>7, HistoryTypes
     DEF Lossy, HistoryOrdered, SeqNums, Prevs, NoDoubleOwner
<1> HIDE DEF e, p
<1>8. NoDoubleOwner'
  <2>1. \A a, b \in ArchRegs : renameMap'[a] = renameMap'[b] => a = b
    BY <1>3, <1>4 DEF Lossy, NoDoubleOwner, Mapped
  <2>2. \A i, j \in DOMAIN H' : H'[i].prev = H'[j].prev => i = j
    BY <1>1, <1>h DEF Lossy, NoDoubleOwner
  <2>3. Distinct(freeList') /\ Distinct(freeingInProgress')
    BY <1>2, <1>4 DEF Lossy, NoDoubleOwner
  <2>4. /\ (Elements(freeList) \cap Elements(freeingInProgress) = {})'
        /\ (Elements(freeList) \cap Mapped = {})'
        /\ (Elements(freeList) \cap Prevs = {})'
        /\ (Elements(freeingInProgress) \cap Mapped = {})'
        /\ (Elements(freeingInProgress) \cap Prevs = {})'
        /\ (Mapped \cap Prevs = {})'
    BY <1>2, <1>4, <1>5, <1>6, <1>7 DEF Lossy, NoDoubleOwner, Elements
  <2> QED
    BY <2>1, <2>2, <2>3, <2>4 DEF NoDoubleOwner
<1>9. Accounted(L)'
  BY <1>2, <1>4, <1>5, <1>6, <1>7 DEF Lossy, Accounted, Elements
<1>10. HistoryOrdered'
  <2>1. /\ \A i, j \in 1 .. n : i < j => H[i].seq < H[j].seq
        /\ doneSeqNum <= seqNum
    BY <1>1 DEF Lossy, HistoryOrdered
  <2>2. /\ \A i \in 1 .. n : H'[i].seq < seqNum + 1 /\ H'[i].seq = H[i].seq
        /\ H'[n + 1].seq = seqNum + 1
    BY <1>0, <1>1, <1>h
  <2>3. \A i \in 1 .. n + 1 : i \in 1 .. n \/ i = n + 1
    BY <1>1
  <2>4. \A i, j \in 1 .. n + 1 : i < j => H'[i].seq < H'[j].seq
    <3> TAKE i, j \in 1 .. n + 1
    <3> HAVE i < j
    <3>1. i \in 1 .. n
      BY <1>1
    <3>2. CASE j \in 1 .. n
      BY <3>1, <3>2, <2>1, <2>2
    <3>3. CASE j = n + 1
      BY <3>1, <3>3, <2>2
    <3> QED
      BY <3>2, <3>3, <2>3
  <2>5. \A i \in 1 .. n + 1 : H'[i].seq <= seqNum'
    BY <2>2, <2>3, <1>0, <1>h
  <2>6. doneSeqNum' <= seqNum'
    BY <2>1, <1>0
  <2> QED
    BY <2>4, <2>5, <2>6, <1>1 DEF HistoryOrdered
<1>w. window' = window \cup {[seq |-> seqNum + 1, src |-> renameMap[s],
                              dest |-> d, new |-> p]}
  BY <1>t DEF RenameDest, p, TypeOK
<1>11. WindowMatchesHistory'
  <2>1. \A inst \in window' : inst.seq > doneSeqNum' /\ inst.seq <= seqNum'
    BY <1>0, <1>w, <1>t DEF Lossy, WindowMatchesHistory, HistoryOrdered, TypeOK, Inflight, SeqNums
  <2>2. \A x, y \in window' : x.seq = y.seq => x = y
    BY <1>0, <1>w, <1>t DEF Lossy, WindowMatchesHistory, TypeOK, Inflight, SeqNums
  <2>3. \A inst \in window' : inst.dest # NoDest =>
         \E i \in DOMAIN H' : /\ H'[i].seq = inst.seq
                               /\ H'[i].arch = inst.dest
                               /\ H'[i].new = inst.new
    BY <1>w, <1>1, <1>h DEF Lossy, WindowMatchesHistory
  <2>4. \A i \in DOMAIN H' : H'[i].seq > doneSeqNum' =>
         \E inst \in window' : inst.seq = H'[i].seq /\ inst.dest = H'[i].arch
    <3>1. ASSUME NEW i \in 1 .. n, H'[i].seq > doneSeqNum'
          PROVE  \E inst \in window' : inst.seq = H'[i].seq /\ inst.dest = H'[i].arch
      BY <3>1, <1>0, <1>w, <1>1 DEF Lossy, WindowMatchesHistory
    <3>2. \E inst \in window' : inst.seq = seqNum + 1 /\ inst.dest = d
      <4> DEFINE w == [seq |-> seqNum + 1, src |-> renameMap[s], dest |-> d, new |-> p]
      <4>1. w \in window' /\ w.seq = seqNum + 1 /\ w.dest = d
        BY <1>w
      <4> QED
        BY <4>1
    <3> QED
      BY <3>1, <3>2, <1>1, <1>h
  <2> QED
    BY <2>1, <2>2, <2>3, <2>4 DEF WindowMatchesHistory
<1>12. HistoryChained'
  <2>1. ASSUME NEW i \in DOMAIN H'
        PROVE  \/ /\ renameMap'[H'[i].arch] = H'[i].new
                  /\ \A j \in i + 1 .. Len(H') : H'[j].arch # H'[i].arch
               \/ \E j \in DOMAIN H' :
                    NextFor(i, j)' /\ H'[j].prev = H'[i].new
    <3>1. CASE i = n + 1
      BY <3>1, <1>1, <1>3, <1>h
    <3>2. CASE i \in 1 .. n /\ \E j \in DOMAIN H : NextFor(i, j) /\ H[j].prev = H[i].new
      BY <3>2, <1>1 DEF NextFor
    <3>3. CASE /\ i \in 1 .. n
               /\ renameMap[H[i].arch] = H[i].new
               /\ \A j \in i + 1 .. n : H[j].arch # H[i].arch
      <4>1. CASE H[i].arch = d
        <5>1. NextFor(i, n + 1)'
          BY <3>3, <4>1, <1>1, <1>h DEF NextFor
        <5> QED
          BY <5>1, <3>3, <4>1, <1>1, <1>h
      <4>2. CASE H[i].arch # d
        BY <3>3, <4>2, <1>1, <1>3, <1>h
      <4> QED
        BY <4>1, <4>2
    <3> QED
      BY <3>1, <3>2, <3>3, <1>1, <1>n DEF Lossy, HistoryChained
  <2>2. ASSUME NEW j \in DOMAIN H'
        PROVE  \/ \A i \in 1 .. j - 1 : H'[i].arch # H'[j].arch
               \/ \E i \in DOMAIN H' :
                    NextFor(i, j)' /\ H'[j].prev = H'[i].new
    <3>1. CASE j \in 1 .. n
      <4>1. CASE \A i \in 1 .. j - 1 : H[i].arch # H[j].arch
        BY <3>1, <4>1, <1>1
      <4>2. CASE \E i \in DOMAIN H : NextFor(i, j) /\ H[j].prev = H[i].new
        BY <3>1, <4>2, <1>1 DEF NextFor
      <4> QED
        BY <3>1, <4>1, <4>2, <1>1 DEF Lossy, HistoryChained
    <3>2. CASE j = n + 1 /\ \E i \in 1 .. n : H[i].arch = d
      <4>1. PICK i \in 1 .. n : /\ H[i].arch = d
                                /\ \A m \in i + 1 .. n : H[m].arch # d
        BY <3>2, <1>n, <1>t, LastFor
      <4>2. H[i].new = renameMap[d]
        BY <4>1, <1>1 DEF Lossy, HistoryChained, NextFor
      <4>3. NextFor(i, j)'
        BY <3>2, <4>1, <1>1, <1>h DEF NextFor
      <4> QED
        BY <3>2, <4>1, <4>2, <4>3, <1>1, <1>h
    <3>3. CASE j = n + 1 /\ \A i \in 1 .. n : H[i].arch # d
      BY <3>3, <1>1, <1>h
    <3> QED
      BY <3>1, <3>2, <3>3, <1>1
  <2> QED
    BY <2>1, <2>2 DEF HistoryChained
<1>13. CommitMapTracks'
  <2> SUFFICES ASSUME NEW a \in ArchRegs
               PROVE  /\ (\A i \in DOMAIN H' : H'[i].arch = a => H'[i].seq <= doneSeqNum')
                          => commitRenameMap'[a] = renameMap'[a]
                      /\ \A i \in DOMAIN H' :
                           /\ H'[i].arch = a
                           /\ H'[i].seq > doneSeqNum'
                           /\ \A j \in 1 .. i - 1 : H'[j].arch = a => H'[j].seq <= doneSeqNum'
                           => commitRenameMap'[a] = H'[i].prev
    BY DEF CommitMapTracks
  <2>0. commitRenameMap' = commitRenameMap /\ doneSeqNum <= seqNum
    BY DEF RenameDest, Lossy, HistoryOrdered
  <2>1. ASSUME \A i \in DOMAIN H' : H'[i].arch = a => H'[i].seq <= doneSeqNum'
        PROVE  commitRenameMap'[a] = renameMap'[a]
    <3>1. a # d
      BY <2>0, <2>1, <1>0, <1>1, <1>h
    <3>2. \A i \in DOMAIN H : H[i].arch = a => H[i].seq <= doneSeqNum
      BY <2>1, <1>0, <1>1
    <3> QED
      BY <3>1, <3>2, <2>0, <1>3 DEF Lossy, CommitMapTracks
  <2>2. ASSUME NEW i \in DOMAIN H', H'[i].arch = a, H'[i].seq > doneSeqNum',
               \A j \in 1 .. i - 1 : H'[j].arch = a => H'[j].seq <= doneSeqNum'
        PROVE  commitRenameMap'[a] = H'[i].prev
    <3>1. CASE i \in 1 .. n
      BY <2>0, <2>2, <3>1, <1>0, <1>1 DEF Lossy, CommitMapTracks
    <3>2. CASE i = n + 1
      <4>0. H'[i] = e /\ e.arch = d /\ e.prev = renameMap[d]
        BY <3>2, <1>1, <1>h
      <4>1. H'[i].prev = renameMap[a]
        BY <4>0, <2>2
      <4>2. \A j \in DOMAIN H : H[j].arch = a => H[j].seq <= doneSeqNum
        BY <2>2, <3>2, <1>0, <1>1
      <4>3. commitRenameMap[a] = renameMap[a]
        BY <4>2 DEF Lossy, CommitMapTracks
      <4> QED
        BY <4>1, <4>3, <2>0
    <3> QED
      BY <3>1, <3>2, <1>1
  <2> QED
    BY <2>1, <2>2
<1>14. SourcesTracked'
  <2> SUFFICES ASSUME NEW inst \in window'
               PROVE  /\ \/ \E a \in ArchRegs : renameMap'[a] = inst.src
                         \/ \E i \in DOMAIN H' : H'[i].prev = inst.src /\ H'[i].seq >= inst.seq
                      /\ \A i \in DOMAIN H' : H'[i].new = inst.src => H'[i].seq < inst.seq
    BY DEF SourcesTracked
  <2>1. CASE inst \in window
    <3>0. inst.seq \in Nat /\ inst.seq <= seqNum
      BY <2>1, <1>t DEF TypeOK, Inflight, SeqNums, Lossy, WindowMatchesHistory
    <3>1. inst.src # p
      BY <2>1, <1>4 DEF Lossy, SourcesTracked, Mapped, Prevs
    <3>2. \A i \in DOMAIN H' : H'[i].new = inst.src => H'[i].seq < inst.seq
      BY <2>1, <3>1, <1>1, <1>h DEF Lossy, SourcesTracked
    <3>3. CASE \E i \in DOMAIN H : H[i].prev = inst.src /\ H[i].seq >= inst.seq
      BY <3>2, <3>3, <1>1
    <3>4. CASE \E a \in ArchRegs : renameMap[a] = inst.src
      BY <3>0, <3>2, <3>4, <1>0, <1>1, <1>3, <1>h
    <3> QED
      BY <2>1, <3>3, <3>4 DEF Lossy, SourcesTracked
  <2>2. CASE inst = [seq |-> seqNum + 1, src |-> renameMap[s], dest |-> d, new |-> p]
    <3>1. inst.seq = seqNum + 1 /\ inst.src = renameMap[s]
      BY <2>2
    <3>2. inst.src # p
      BY <3>1, <1>4 DEF Mapped
    <3>3. \A i \in DOMAIN H' : H'[i].new = inst.src => H'[i].seq < inst.seq
      BY <3>1, <3>2, <1>0, <1>1, <1>h
    <3>4. CASE s = d
      BY <3>1, <3>3, <3>4, <1>0, <1>1, <1>h
    <3>5. CASE s # d
      BY <3>1, <3>3, <3>5, <1>3
    <3> QED
      BY <3>4, <3>5
  <2> QED
    BY <2>1, <2>2, <1>w
<1> QED
  BY <1>8, <1>9, <1>10, <1>11, <1>12, <1>13, <1>14 DEF Lossy

\* Committing the oldest in-flight instruction keeps the invariant.
LEMMA CommitKeeps ==
  ASSUME NEW L, Lossy(L), TypeOK', NEW inst \in window, Commit(inst)
  PROVE  Lossy(L)'
<1> DEFINE H == historyBuffer
<1>t. TypeOK
  BY DEF Lossy
<1>n. PICK n \in Nat : n = Len(H) /\ DOMAIN H = 1 .. n
  BY <1>t, HistoryTypes
<1>0. /\ historyBuffer' = historyBuffer /\ freeList' = freeList
      /\ freeingInProgress' = freeingInProgress /\ renameMap' = renameMap
      /\ seqNum' = seqNum /\ doneSeqNum' = inst.seq
      /\ window' = window \ {inst}
  BY DEF Commit
<1>1. /\ \A w \in window : w.seq \in Nat /\ w.seq >= inst.seq /\ w.seq > doneSeqNum
      /\ inst.seq \in Nat /\ inst.seq <= seqNum
      /\ doneSeqNum \in Nat /\ seqNum \in Nat
  <2>1. \A w \in window : inst.seq <= w.seq
    BY DEF Commit
  <2>2. \A w \in window : w.seq > doneSeqNum /\ w.seq <= seqNum
    BY DEF Lossy, WindowMatchesHistory
  <2>3. doneSeqNum \in Nat /\ seqNum \in Nat
    BY <1>t DEF TypeOK
  <2> QED
    BY <2>1, <2>2, <2>3, <1>t, WindowTypes DEF SeqNums
<1>h. \A i \in 1 .. n : H[i].seq \in Nat /\ H[i].arch \in ArchRegs
  BY <1>t, <1>n, HistoryTypes DEF SeqNums
<1>2. NoDoubleOwner' /\ Accounted(L)' /\ HistoryChained'
  <2>1. NoDoubleOwner'
    BY <1>0 DEF Lossy, NoDoubleOwner, Elements, Distinct, Mapped, Prevs
  <2>2. Accounted(L)'
    BY <1>0 DEF Lossy, Accounted, Elements, Mapped, Prevs
  <2>3. HistoryChained'
    BY <1>0 DEF Lossy, HistoryChained, NextFor
  <2> QED
    BY <2>1, <2>2, <2>3
<1>3. HistoryOrdered'
  BY <1>0, <1>1 DEF Lossy, HistoryOrdered
<1>4. WindowMatchesHistory'
  BY <1>0, <1>1, <1>n, <1>h DEF Lossy, WindowMatchesHistory
<1>5. SourcesTracked'
  BY <1>0 DEF Lossy, SourcesTracked
<1>6. \A i \in 1 .. n : H[i].seq > doneSeqNum /\ H[i].seq <= inst.seq
                        => H[i].seq = inst.seq /\ H[i].arch = inst.dest
  BY <1>1, <1>n, <1>h DEF Lossy, WindowMatchesHistory
<1>7. \A i, j \in 1 .. n : (H[i].seq < H[j].seq <=> i < j)
                           /\ (H[i].seq = H[j].seq => i = j)
  BY <1>n, <1>h DEF Lossy, HistoryOrdered
<1>8. commitRenameMap \in [ArchRegs -> PhysRegs]
  BY <1>t DEF TypeOK
<1>9. CommitMapTracks'
  <2> SUFFICES ASSUME NEW a \in ArchRegs
               PROVE  /\ (\A i \in 1 .. n : H[i].arch = a => H[i].seq <= inst.seq)
                          => commitRenameMap'[a] = renameMap[a]
                      /\ \A i \in 1 .. n :
                           /\ H[i].arch = a
                           /\ H[i].seq > inst.seq
                           /\ \A j \in 1 .. i - 1 : H[j].arch = a => H[j].seq <= inst.seq
                           => commitRenameMap'[a] = H[i].prev
    BY <1>0, <1>n DEF CommitMapTracks
  <2>1. CASE a # inst.dest
    <3>1. commitRenameMap'[a] = commitRenameMap[a]
      BY <2>1, <1>8 DEF Commit
    <3>2. \A i \in 1 .. n : H[i].arch = a =>
            (H[i].seq <= inst.seq <=> H[i].seq <= doneSeqNum)
      BY <2>1, <1>1, <1>6, <1>h
    <3>3. \A i \in 1 .. n : \A j \in 1 .. i - 1 : j \in 1 .. n
      OBVIOUS
    <3>4. /\ (\A i \in 1 .. n : H[i].arch = a => H[i].seq <= doneSeqNum)
             => commitRenameMap[a] = renameMap[a]
          /\ \A i \in 1 .. n :
               /\ H[i].arch = a
               /\ H[i].seq > doneSeqNum
               /\ \A j \in 1 .. i - 1 : H[j].arch = a => H[j].seq <= doneSeqNum
               => commitRenameMap[a] = H[i].prev
      BY <1>n DEF Lossy, CommitMapTracks
    <3>5. \A i \in 1 .. n : H[i].seq > inst.seq => H[i].seq > doneSeqNum
      BY <1>1, <1>h
    <3> QED
      BY <3>1, <3>2, <3>3, <3>4, <3>5
  <2>2. CASE a = inst.dest
    <3>0. a # NoDest /\ commitRenameMap'[a] = inst.new
      BY <2>2, <1>8, SizesAssumption DEF Commit, ArchRegs, NoDest
    <3>1. PICK i \in 1 .. n : H[i].seq = inst.seq /\ H[i].arch = a /\ H[i].new = inst.new
      BY <2>2, <3>0, <1>n DEF Lossy, WindowMatchesHistory
    <3>2. ASSUME \A m \in 1 .. n : H[m].arch = a => H[m].seq <= inst.seq
          PROVE  commitRenameMap'[a] = renameMap[a]
      <4>1. \A j \in 1 .. n : ~NextFor(i, j)
        BY <3>1, <3>2, <1>1, <1>7, <1>h DEF NextFor
      <4> QED
        BY <4>1, <3>0, <3>1, <1>n DEF Lossy, HistoryChained
    <3>3. ASSUME NEW m \in 1 .. n, H[m].arch = a, H[m].seq > inst.seq,
                 \A j \in 1 .. m - 1 : H[j].arch = a => H[j].seq <= inst.seq
          PROVE  commitRenameMap'[a] = H[m].prev
      <4>1. i \in 1 .. m - 1
        BY <3>1, <3>3, <1>1, <1>7, <1>h
      <4>2. PICK q \in 1 .. n : NextFor(q, m) /\ H[m].prev = H[q].new
        BY <3>1, <3>3, <4>1, <1>n DEF Lossy, HistoryChained
      <4>3. q \in 1 .. m - 1 /\ H[q].arch = a /\ ~(q < i)
        BY <4>1, <4>2, <3>1, <3>3 DEF NextFor
      <4>4. H[q].seq = inst.seq
        BY <4>3, <3>1, <3>3, <1>1, <1>7, <1>h
      <4>5. q = i
        BY <4>4, <3>1, <1>7
      <4> QED
        BY <4>2, <4>5, <3>0, <3>1
    <3> QED
      BY <3>2, <3>3
  <2> QED
    BY <2>1, <2>2
<1> QED
  BY <1>2, <1>3, <1>4, <1>5, <1>9 DEF Lossy

\* Concatenation, pointwise.
LEMMA ConcatElements ==
  ASSUME NEW S, NEW s \in Seq(S), NEW t \in Seq(S)
  PROVE  /\ Elements(s \o t) = Elements(s) \cup Elements(t)
         /\ Distinct(s) /\ Distinct(t) /\ Elements(s) \cap Elements(t) = {}
            => Distinct(s \o t)
<1>1. /\ Len(s) \in Nat /\ Len(t) \in Nat
      /\ DOMAIN s = 1 .. Len(s) /\ DOMAIN t = 1 .. Len(t)
      /\ DOMAIN (s \o t) = 1 .. Len(s) + Len(t)
      /\ \A i \in 1 .. Len(s) : (s \o t)[i] = s[i]
      /\ \A i \in Len(s) + 1 .. Len(s) + Len(t) : (s \o t)[i] = t[i - Len(s)]
  OBVIOUS
<1>2. \A i \in 1 .. Len(t) : (s \o t)[i + Len(s)] = t[i]
                            /\ i + Len(s) \in DOMAIN (s \o t)
  BY <1>1
<1>3. \A i \in DOMAIN (s \o t) :
         \/ i \in 1 .. Len(s)
         \/ /\ i - Len(s) \in 1 .. Len(t)
            /\ (s \o t)[i] = t[i - Len(s)]
  <2>1. ASSUME NEW i \in DOMAIN (s \o t), i \notin 1 .. Len(s)
        PROVE  i - Len(s) \in 1 .. Len(t) /\ (s \o t)[i] = t[i - Len(s)]
    <3>0. i \in 1 .. Len(s) + Len(t)
      BY <1>1, Zenon
    <3>1. i \in Len(s) + 1 .. Len(s) + Len(t)
      BY <2>1, <3>0, <1>1
    <3>2. i - Len(s) \in 1 .. Len(t)
      BY <3>1, <1>1
    <3> QED
      BY <3>1, <3>2, <1>1
  <2> QED
    BY <2>1
<1>4. \A i \in 1 .. Len(s) : i \in DOMAIN (s \o t)
  BY <1>1
<1>5. Elements(s \o t) = Elements(s) \cup Elements(t)
  <2>1. Elements(s \o t) \subseteq Elements(s) \cup Elements(t)
    BY <1>1, <1>3 DEF Elements
  <2>2. Elements(s) \subseteq Elements(s \o t)
    BY <1>1, <1>4 DEF Elements
  <2>3. ASSUME NEW j \in DOMAIN t PROVE t[j] \in Elements(s \o t)
    <3>1. PICK i \in DOMAIN (s \o t) : (s \o t)[i] = t[j]
      BY <1>1, <1>2
    <3> QED
      BY <3>1 DEF Elements
  <2> QED
    BY <2>1, <2>2, <2>3 DEF Elements
<1>6. ASSUME Distinct(s), Distinct(t), Elements(s) \cap Elements(t) = {}
      PROVE  Distinct(s \o t)
  <2> SUFFICES ASSUME NEW i \in DOMAIN (s \o t), NEW j \in DOMAIN (s \o t),
                      (s \o t)[i] = (s \o t)[j]
               PROVE  i = j
    BY DEF Distinct
  <2>0. i \in Int /\ j \in Int
    BY <1>1
  <2>1. CASE i \in 1 .. Len(s) /\ j \in 1 .. Len(s)
    BY <2>1, <1>1, <1>6 DEF Distinct
  <2>2. CASE i - Len(s) \in 1 .. Len(t) /\ j - Len(s) \in 1 .. Len(t)
    <3>1. i - Len(s) = j - Len(s)
      BY <2>2, <1>1, <1>3, <1>6 DEF Distinct
    <3> QED
      BY <3>1, <2>0, <1>1
  <2>3. CASE i \in 1 .. Len(s) /\ j - Len(s) \in 1 .. Len(t)
    <3>1. (s \o t)[i] \in Elements(s) /\ (s \o t)[j] \in Elements(t)
      BY <2>3, <1>1, <1>3 DEF Elements
    <3> QED
      BY <3>1, <1>6
  <2>4. CASE j \in 1 .. Len(s) /\ i - Len(s) \in 1 .. Len(t)
    <3>1. (s \o t)[j] \in Elements(s) /\ (s \o t)[i] \in Elements(t)
      BY <2>4, <1>1, <1>3 DEF Elements
    <3> QED
      BY <3>1, <1>6
  <2> QED
    BY <2>1, <2>2, <2>3, <2>4, <1>3
<1> QED
  BY <1>5, <1>6

\* Freeing the registers of squashed instructions keeps the invariant.
LEMMA FreeSquashedKeeps ==
  ASSUME NEW L, Lossy(L), TypeOK', FreeSquashed
  PROVE  Lossy(L)'
<1>t. TypeOK
  BY DEF Lossy
<1>0. /\ historyBuffer' = historyBuffer /\ window' = window /\ renameMap' = renameMap
      /\ seqNum' = seqNum /\ doneSeqNum' = doneSeqNum
      /\ commitRenameMap' = commitRenameMap
      /\ freeList' = freeList \o freeingInProgress /\ freeingInProgress' = <<>>
  BY DEF FreeSquashed
<1>1. /\ Elements(freeList') = Elements(freeList) \cup Elements(freeingInProgress)
      /\ Distinct(freeList')
  BY <1>0, <1>t, ConcatElements DEF TypeOK, Lossy, NoDoubleOwner
<1>2. Elements(freeingInProgress') = {} /\ Distinct(freeingInProgress')
  BY <1>0 DEF Elements, Distinct
<1>3. Mapped' = Mapped /\ Prevs' = Prevs
  BY <1>0 DEF Mapped, Prevs
<1>4. NoDoubleOwner'
  <2>1. /\ (Elements(freeList) \cap Elements(freeingInProgress) = {})'
        /\ (Elements(freeList) \cap Mapped = {})'
        /\ (Elements(freeList) \cap Prevs = {})'
        /\ (Elements(freeingInProgress) \cap Mapped = {})'
        /\ (Elements(freeingInProgress) \cap Prevs = {})'
        /\ (Mapped \cap Prevs = {})'
    BY <1>1, <1>2, <1>3 DEF Lossy, NoDoubleOwner
  <2> QED
    BY <2>1, <1>0, <1>1, <1>2 DEF Lossy, NoDoubleOwner
<1>5. Accounted(L)'
  BY <1>1, <1>2, <1>3 DEF Lossy, Accounted
<1>6. /\ HistoryOrdered' /\ WindowMatchesHistory' /\ HistoryChained'
      /\ CommitMapTracks' /\ SourcesTracked'
  BY <1>0 DEF Lossy, HistoryOrdered, WindowMatchesHistory, HistoryChained,
              NextFor, CommitMapTracks, SourcesTracked
<1> QED
  BY <1>4, <1>5, <1>6 DEF Lossy

\* Retiring history entries: the registers f that they replaced are freed, in
\* some order.
RetireStep(sn, k, f) ==
    /\ OldEntries(sn, k)
    /\ f \in Seq(PhysRegs) /\ Distinct(f)
    /\ Elements(f) = {historyBuffer[i].prev : i \in 1 .. k}
    /\ freeList' = freeList \o f
    /\ historyBuffer' = SubSeq(historyBuffer, k + 1, Len(historyBuffer))
    /\ UNCHANGED <<renameMap, commitRenameMap, freeingInProgress, window,
                   seqNum, doneSeqNum>>

\* Retiring history entries of committed instructions keeps the invariant.
LEMMA RetireKeeps ==
  ASSUME NEW L, Lossy(L), TypeOK', NEW sn \in 0 .. doneSeqNum, NEW f,
         \E k \in 1 .. Len(historyBuffer) : RetireStep(sn, k, f)
  PROVE  Lossy(L)'
<1> DEFINE H == historyBuffer
<1>t. TypeOK
  BY DEF Lossy
<1>n. PICK n \in Nat : n = Len(H) /\ DOMAIN H = 1 .. n
  BY <1>t, HistoryTypes
<1>p. PICK k \in 1 .. n : RetireStep(sn, k, f)
  BY <1>n
<1>k. OldEntries(sn, k) /\ H' = SubSeq(H, k + 1, n)
  BY <1>n, <1>p DEF RetireStep
<1>f. /\ f \in Seq(PhysRegs) /\ Distinct(f) /\ freeList' = freeList \o f
      /\ Elements(f) = {H[i].prev : i \in 1 .. k}
  BY <1>p DEF RetireStep
<1>0. /\ window' = window /\ renameMap' = renameMap /\ seqNum' = seqNum
      /\ doneSeqNum' = doneSeqNum /\ commitRenameMap' = commitRenameMap
      /\ freeingInProgress' = freeingInProgress
      /\ doneSeqNum \in Nat /\ seqNum \in Nat /\ sn \in Nat /\ sn <= doneSeqNum
  BY <1>t, <1>p DEF TypeOK, RetireStep
<1>h. \A i \in 1 .. n : /\ H[i].seq \in Nat /\ H[i].arch \in ArchRegs
                        /\ H[i].prev \in PhysRegs
  BY <1>t, <1>n, HistoryTypes DEF SeqNums
<1>1. /\ DOMAIN H' = 1 .. n - k /\ Len(H') = n - k
      /\ \A i \in 1 .. n - k : H'[i] = H[i + k] /\ i + k \in k + 1 .. n
                              /\ i + k \in 1 .. n /\ i + k \notin 1 .. k
  <2>1. /\ DOMAIN H' = 1 .. n - k /\ Len(H') = n - k
        /\ \A i \in 1 .. n - k : H'[i] = H[i + k]
    <3>1. H \in Seq(RenameHistory)
      BY <1>t DEF TypeOK
    <3> QED
      BY <3>1, <1>n, <1>k
  <2>2. \A i \in 1 .. n - k : /\ i + k \in k + 1 .. n
                              /\ i + k \in 1 .. n /\ i + k \notin 1 .. k
    OBVIOUS
  <2> QED
    BY <2>1, <2>2
<1>2. \A i \in k + 1 .. n : i - k \in 1 .. n - k /\ H'[i - k] = H[i]
  BY <1>1
<1>3. /\ \A i \in 1 .. k : H[i].seq <= doneSeqNum
      /\ \A i \in 1 .. n : H[i].seq > doneSeqNum => i \in k + 1 .. n
  BY <1>0, <1>h, <1>n, <1>k DEF OldEntries
<1>5. Elements(f) \subseteq Prevs
  BY <1>n, <1>f DEF Prevs
<1>6. /\ Elements(freeList') = Elements(freeList) \cup Elements(f)
      /\ Distinct(freeList')
  <2>1. Distinct(freeList) /\ Elements(freeList) \cap Elements(f) = {}
    BY <1>5 DEF Lossy, NoDoubleOwner
  <2>2. freeList \in Seq(PhysRegs) /\ freeList' = freeList \o f
    BY <1>t, <1>f DEF TypeOK
  <2>3. /\ Elements(freeList \o f) = Elements(freeList) \cup Elements(f)
        /\ Distinct(freeList \o f)
    BY <2>1, <2>2, <1>5, <1>f, ConcatElements
  <2> QED
    BY <2>2, <2>3
<1>7. Prevs \subseteq Elements(f) \cup Prevs'
  <2> SUFFICES ASSUME NEW i \in 1 .. n PROVE H[i].prev \in Elements(f) \cup Prevs'
    BY <1>n DEF Prevs
  <2>1. CASE i \in 1 .. k
    BY <2>1, <1>f
  <2>2. CASE i \in k + 1 .. n
    <3>1. H[i].prev = H'[i - k].prev /\ i - k \in DOMAIN H'
      BY <2>2, <1>1, <1>2
    <3> QED
      BY <3>1 DEF Prevs
  <2> QED
    BY <2>1, <2>2, <1>n, <1>k
<1>8. Prevs' \subseteq Prevs /\ Prevs' \cap Elements(f) = {}
  <2> SUFFICES ASSUME NEW i \in 1 .. n - k
               PROVE  H'[i].prev \in Prevs /\ H'[i].prev \notin Elements(f)
    BY <1>1 DEF Prevs
  <2>1. H'[i].prev = H[i + k].prev /\ i + k \in 1 .. n /\ i + k \notin 1 .. k
    BY <1>1
  <2>2. \A j \in 1 .. k : H[j].prev # H[i + k].prev
    <3>1. \A x, y \in 1 .. n : H[x].prev = H[y].prev => x = y
      BY <1>n DEF Lossy, NoDoubleOwner
    <3> QED
      BY <2>1, <3>1
  <2> QED
    BY <2>1, <2>2, <1>f, <1>n DEF Prevs
<1>9. Mapped' = Mapped
  BY <1>0 DEF Mapped
<1>10. NoDoubleOwner'
  <2>1. \A i, j \in DOMAIN H' : H'[i].prev = H'[j].prev => i = j
    <3> SUFFICES ASSUME NEW i \in 1 .. n - k, NEW j \in 1 .. n - k,
                        H'[i].prev = H'[j].prev
                 PROVE  i = j
      BY <1>1
    <3>1. i + k \in 1 .. n /\ j + k \in 1 .. n /\ H[i + k].prev = H[j + k].prev
      BY <1>1
    <3>2. i + k = j + k
      BY <3>1, <1>n DEF Lossy, NoDoubleOwner
    <3> QED
      BY <3>2, <1>k
  <2>2. /\ (Elements(freeList) \cap Elements(freeingInProgress) = {})'
        /\ (Elements(freeList) \cap Mapped = {})'
        /\ (Elements(freeList) \cap Prevs = {})'
        /\ (Elements(freeingInProgress) \cap Mapped = {})'
        /\ (Elements(freeingInProgress) \cap Prevs = {})'
        /\ (Mapped \cap Prevs = {})'
    <3>1. Elements(freeingInProgress') = Elements(freeingInProgress)
      BY <1>0
    <3> QED
      BY <3>1, <1>5, <1>6, <1>8, <1>9 DEF Lossy, NoDoubleOwner
  <2> QED
    BY <2>1, <2>2, <1>0, <1>6 DEF Lossy, NoDoubleOwner
<1>11. Accounted(L)'
  BY <1>0, <1>5, <1>6, <1>7, <1>8, <1>9 DEF Lossy, Accounted
<1>12. HistoryOrdered'
  <2>1. \A i, j \in 1 .. n - k : i < j => i + k < j + k
    OBVIOUS
  <2>2. \A i, j \in 1 .. n : i < j => H[i].seq < H[j].seq
    BY <1>n DEF Lossy, HistoryOrdered
  <2>3. \A i \in 1 .. n : H[i].seq <= seqNum
    BY <1>n DEF Lossy, HistoryOrdered
  <2> QED
    BY <2>1, <2>2, <2>3, <1>0, <1>1 DEF Lossy, HistoryOrdered
<1>13. WindowMatchesHistory'
  <2>1. ASSUME NEW inst \in window, inst.dest # NoDest
        PROVE  \E i \in 1 .. n - k : /\ H'[i].seq = inst.seq
                                      /\ H'[i].arch = inst.dest
                                      /\ H'[i].new = inst.new
    <3>1. PICK i \in 1 .. n : /\ H[i].seq = inst.seq
                              /\ H[i].arch = inst.dest /\ H[i].new = inst.new
      BY <2>1, <1>n DEF Lossy, WindowMatchesHistory
    <3>2. i \in k + 1 .. n
      BY <3>1, <1>3 DEF Lossy, WindowMatchesHistory
    <3> QED
      BY <3>1, <3>2, <1>2
  <2>2. ASSUME NEW i \in 1 .. n - k, H'[i].seq > doneSeqNum
        PROVE  \E inst \in window : inst.seq = H'[i].seq /\ inst.dest = H'[i].arch
    <3>1. i + k \in 1 .. n /\ H'[i] = H[i + k]
      BY <1>1
    <3> QED
      BY <3>1, <2>2, <1>n DEF Lossy, WindowMatchesHistory
  <2> QED
    BY <2>1, <2>2, <1>0, <1>1 DEF Lossy, WindowMatchesHistory
<1>14. HistoryChained'
  <2>0. ASSUME NEW i \in 1 .. n - k, NEW j \in 1 .. n - k
        PROVE  NextFor(i, j)' <=> NextFor(i + k, j + k)
    <3>1. ASSUME NextFor(i, j)' PROVE NextFor(i + k, j + k)
      <4>1. ASSUME NEW m \in (i + k) + 1 .. (j + k) - 1 PROVE H[m].arch # H[i + k].arch
        <5>1. m - k \in i + 1 .. j - 1 /\ m - k \in 1 .. n - k /\ (m - k) + k = m
          BY <1>k, <1>n
        <5>2. H'[m - k] = H[m] /\ H'[i] = H[i + k]
          BY <5>1, <1>1
        <5> QED
          BY <5>1, <5>2, <3>1 DEF NextFor
      <4> QED
        BY <3>1, <4>1, <1>1 DEF NextFor
    <3>2. ASSUME NextFor(i + k, j + k) PROVE NextFor(i, j)'
      <4>1. ASSUME NEW m \in i + 1 .. j - 1 PROVE H'[m].arch # H'[i].arch
        <5>1. m + k \in (i + k) + 1 .. (j + k) - 1 /\ m \in 1 .. n - k
          BY <1>k, <1>n
        <5>2. H'[m] = H[m + k] /\ H'[i] = H[i + k]
          BY <5>1, <1>1
        <5> QED
          BY <5>1, <5>2, <3>2 DEF NextFor
      <4>2. i < j
        BY <3>2, <1>k DEF NextFor
      <4> QED
        BY <3>2, <4>1, <4>2, <1>1 DEF NextFor
    <3> QED
      BY <3>1, <3>2
  <2>1. ASSUME NEW i \in 1 .. n - k
        PROVE  \/ /\ renameMap[H'[i].arch] = H'[i].new
                  /\ \A j \in i + 1 .. n - k : H'[j].arch # H'[i].arch
               \/ \E j \in 1 .. n - k : NextFor(i, j)' /\ H'[j].prev = H'[i].new
    <3>1. i + k \in 1 .. n /\ H'[i] = H[i + k]
      BY <1>1
    <3>2. CASE /\ renameMap[H[i + k].arch] = H[i + k].new
               /\ \A j \in (i + k) + 1 .. n : H[j].arch # H[i + k].arch
      <4>0. \A j \in i + 1 .. n - k : j + k \in (i + k) + 1 .. n /\ j \in 1 .. n - k
        OBVIOUS
      <4>1. \A j \in i + 1 .. n - k : j + k \in (i + k) + 1 .. n /\ H'[j] = H[j + k]
        BY <1>1, <4>0
      <4> QED
        BY <3>1, <3>2, <4>1
    <3>3. CASE \E q \in 1 .. n : NextFor(i + k, q) /\ H[q].prev = H[i + k].new
      <4>1. PICK q \in 1 .. n : NextFor(i + k, q) /\ H[q].prev = H[i + k].new
        BY <3>3
      <4>2. q \in k + 1 .. n
        BY <4>1, <1>k, <1>n DEF NextFor
      <4>3. q - k \in 1 .. n - k /\ H'[q - k] = H[q] /\ (q - k) + k = q
        BY <4>2, <1>2, <1>k, <1>n
      <4>4. NextFor(i, q - k)'
        BY <4>1, <4>3, <2>0
      <4> QED
        BY <3>1, <4>1, <4>3, <4>4
    <3> QED
      BY <3>1, <3>2, <3>3, <1>n DEF Lossy, HistoryChained
  <2>2. ASSUME NEW j \in 1 .. n - k
        PROVE  \/ \A i \in 1 .. j - 1 : H'[i].arch # H'[j].arch
               \/ \E i \in 1 .. n - k : NextFor(i, j)' /\ H'[j].prev = H'[i].new
    <3>1. j + k \in 1 .. n /\ H'[j] = H[j + k]
      BY <1>1
    <3>2. CASE \A i \in 1 .. (j + k) - 1 : H[i].arch # H[j + k].arch
      <4>1. \A i \in 1 .. j - 1 : i + k \in 1 .. (j + k) - 1 /\ H'[i] = H[i + k]
        BY <1>1
      <4> QED
        BY <3>1, <3>2, <4>1
    <3>3. ASSUME NEW q \in 1 .. n, NextFor(q, j + k), H[j + k].prev = H[q].new
          PROVE  \/ \A i \in 1 .. j - 1 : H'[i].arch # H'[j].arch
                 \/ \E i \in 1 .. n - k : NextFor(i, j)' /\ H'[j].prev = H'[i].new
      <4>1. CASE q \in 1 .. k
        <5>0. \A i \in 1 .. j - 1 : i + k \in q + 1 .. (j + k) - 1 /\ i \in 1 .. n - k
          BY <4>1
        <5>1. \A i \in 1 .. j - 1 : i + k \in q + 1 .. (j + k) - 1 /\ H'[i] = H[i + k]
          BY <5>0, <1>1
        <5> QED
          BY <5>1, <3>1, <3>3 DEF NextFor
      <4>2. CASE q \in k + 1 .. n
        <5>1. q - k \in 1 .. n - k /\ H'[q - k] = H[q] /\ (q - k) + k = q
          BY <4>2, <1>2, <1>k, <1>n
        <5>2. NextFor(q - k, j)'
          BY <3>3, <5>1, <2>0
        <5> QED
          BY <5>1, <5>2, <3>1, <3>3
      <4>3. q \in 1 .. k \/ q \in k + 1 .. n
        OBVIOUS
      <4> QED
        BY <4>1, <4>2, <4>3, Zenon
    <3> QED
      BY <3>1, <3>2, <3>3, <1>n DEF Lossy, HistoryChained
  <2> QED
    BY <2>1, <2>2, <1>0, <1>1 DEF HistoryChained
<1>15. CommitMapTracks'
  <2> SUFFICES ASSUME NEW a \in ArchRegs
               PROVE  /\ (\A i \in 1 .. n - k : H'[i].arch = a => H'[i].seq <= doneSeqNum)
                          => commitRenameMap[a] = renameMap[a]
                      /\ \A i \in 1 .. n - k :
                           /\ H'[i].arch = a
                           /\ H'[i].seq > doneSeqNum
                           /\ \A j \in 1 .. i - 1 : H'[j].arch = a => H'[j].seq <= doneSeqNum
                           => commitRenameMap[a] = H'[i].prev
    BY <1>0, <1>1 DEF CommitMapTracks
  <2>1. ASSUME \A i \in 1 .. n - k : H'[i].arch = a => H'[i].seq <= doneSeqNum
        PROVE  commitRenameMap[a] = renameMap[a]
    <3>1. ASSUME NEW i \in 1 .. n, H[i].arch = a PROVE H[i].seq <= doneSeqNum
      <4>1. CASE i \in 1 .. k
        BY <4>1, <1>3
      <4>2. CASE i \in k + 1 .. n
        BY <4>2, <3>1, <2>1, <1>2
      <4> QED
        BY <4>1, <4>2, <1>k, <1>n
    <3> QED
      BY <3>1, <1>n DEF Lossy, CommitMapTracks
  <2>2. ASSUME NEW i \in 1 .. n - k, H'[i].arch = a, H'[i].seq > doneSeqNum,
               \A j \in 1 .. i - 1 : H'[j].arch = a => H'[j].seq <= doneSeqNum
        PROVE  commitRenameMap[a] = H'[i].prev
    <3>0. i + k \in 1 .. n /\ H'[i] = H[i + k]
      BY <1>1
    <3>1. ASSUME NEW j \in 1 .. (i + k) - 1, H[j].arch = a PROVE H[j].seq <= doneSeqNum
      <4>1. CASE j \in 1 .. k
        BY <4>1, <1>3
      <4>2. CASE j \in k + 1 .. n
        <5>1. j - k \in 1 .. i - 1 /\ H'[j - k] = H[j]
          BY <4>2, <1>2, <1>k, <1>n
        <5> QED
          BY <5>1, <3>1, <2>2
      <4> QED
        BY <4>1, <4>2, <3>0, <1>k, <1>n
    <3> QED
      BY <2>2, <3>0, <3>1, <1>n DEF Lossy, CommitMapTracks
  <2> QED
    BY <2>1, <2>2
<1>16. SourcesTracked'
  <2> SUFFICES ASSUME NEW inst \in window
               PROVE  /\ \/ \E a \in ArchRegs : renameMap[a] = inst.src
                         \/ \E i \in 1 .. n - k : H'[i].prev = inst.src /\ H'[i].seq >= inst.seq
                      /\ \A i \in 1 .. n - k : H'[i].new = inst.src => H'[i].seq < inst.seq
    BY <1>0, <1>1 DEF SourcesTracked
  <2>0. inst.seq \in Nat /\ inst.seq > doneSeqNum
    BY <1>t, WindowTypes DEF SeqNums, Lossy, WindowMatchesHistory
  <2>1. \A i \in 1 .. n - k : H'[i].new = inst.src => H'[i].seq < inst.seq
    <3>1. \A i \in 1 .. n : H[i].new = inst.src => H[i].seq < inst.seq
      BY <1>n DEF Lossy, SourcesTracked
    <3> QED
      BY <3>1, <1>1
  <2>2. ASSUME NEW i \in 1 .. n, H[i].prev = inst.src, H[i].seq >= inst.seq
        PROVE  \E j \in 1 .. n - k : H'[j].prev = inst.src /\ H'[j].seq >= inst.seq
    <3>1. i \in k + 1 .. n
      BY <2>0, <2>2, <1>0, <1>3, <1>h
    <3> QED
      BY <3>1, <2>2, <1>2
  <2> QED
    BY <2>1, <2>2, <1>n DEF Lossy, SourcesTracked
<1> QED
  BY <1>10, <1>11, <1>12, <1>13, <1>14, <1>15, <1>16 DEF Lossy

\* No two entries have the same new register, and each is mapped or was
\* replaced since.
LEMMA NewsDistinct ==
  ASSUME NEW L, Lossy(L)
  PROVE  /\ \A i, j \in 1 .. Len(historyBuffer) :
               historyBuffer[i].new = historyBuffer[j].new => i = j
         /\ \A i \in 1 .. Len(historyBuffer) :
               historyBuffer[i].new \in Mapped \cup Prevs
<1> DEFINE H == historyBuffer
<1>t. TypeOK
  BY DEF Lossy
<1>n. PICK n \in Nat : n = Len(H) /\ DOMAIN H = 1 .. n
  BY <1>t, HistoryTypes
<1>h. \A i \in 1 .. n : H[i].arch \in ArchRegs
  BY <1>t, <1>n, HistoryTypes
<1>5. /\ \A i, j \in 1 .. n : H[i].prev = H[j].prev => i = j
      /\ \A i \in 1 .. n : \A a \in ArchRegs : H[i].prev # renameMap[a]
      /\ \A a, b \in ArchRegs : renameMap[a] = renameMap[b] => a = b
      /\ \A i \in 1 .. n : H[i].prev \notin Elements(freeList)
                          /\ H[i].prev \notin Elements(freeingInProgress)
      /\ \A a \in ArchRegs : renameMap[a] \notin Elements(freeList)
                            /\ renameMap[a] \notin Elements(freeingInProgress)
  BY <1>n DEF Lossy, NoDoubleOwner, Mapped, Prevs
<1>6. \A i \in 1 .. n :
         \/ /\ renameMap[H[i].arch] = H[i].new
            /\ \A j \in i + 1 .. n : H[j].arch # H[i].arch
         \/ \E j \in 1 .. n : /\ i < j /\ H[j].arch = H[i].arch
                              /\ \A m \in i + 1 .. j - 1 : H[m].arch # H[i].arch
                              /\ H[j].prev = H[i].new
  BY <1>n DEF Lossy, HistoryChained, NextFor
<1>8. \A i, j \in 1 .. n : i < j => H[i].new # H[j].new
  <2> SUFFICES ASSUME NEW i \in 1 .. n, NEW j \in 1 .. n, i < j, H[i].new = H[j].new
               PROVE  FALSE
    OBVIOUS
  <2>1. CASE /\ renameMap[H[i].arch] = H[i].new
             /\ \A m \in i + 1 .. n : H[m].arch # H[i].arch
    BY <2>1, <1>5, <1>6, <1>h
  <2>2. CASE \E q \in 1 .. n : /\ i < q /\ H[q].arch = H[i].arch
                               /\ \A m \in i + 1 .. q - 1 : H[m].arch # H[i].arch
                               /\ H[q].prev = H[i].new
    <3>1. PICK q \in 1 .. n : /\ i < q /\ H[q].arch = H[i].arch
                              /\ \A m \in i + 1 .. q - 1 : H[m].arch # H[i].arch
                              /\ H[q].prev = H[i].new
      BY <2>2
    <3>2. j < q /\ H[q].arch = H[j].arch
      BY <3>1, <1>5, <1>6, <1>h
    <3>3. j \in i + 1 .. q - 1
      BY <3>2
    <3> QED
      BY <3>1, <3>2, <3>3
  <2> QED
    BY <2>1, <2>2, <1>6
<1>9. \A i \in 1 .. n : H[i].new \in Mapped \cup Prevs
  BY <1>6, <1>h, <1>n DEF Mapped, Prevs
<1> QED
  BY <1>8, <1>9, <1>n

\* Undoing history entries: of their new registers, f are released and C lost.
SquashStep(sn, k, f, C) ==
    /\ OldEntries(sn, k)
    /\ renameMap' = UndoneMap(k)
    /\ f \in Seq(PhysRegs) /\ Distinct(f) /\ Elements(f) \cap C = {}
    /\ Elements(f) \cup C =
          {historyBuffer[i].new : i \in k + 1 .. Len(historyBuffer)}
    /\ freeingInProgress' = freeingInProgress \o f
    /\ historyBuffer' = SubSeq(historyBuffer, 1, k)
    /\ window' = {inst \in window : inst.seq <= sn}
    /\ UNCHANGED <<commitRenameMap, freeList, seqNum, doneSeqNum>>

\* Undoing the renames younger than sn keeps the invariant; the registers C of
\* the undone entries are lost, the others are released.
LEMMA SquashKeeps ==
  ASSUME NEW L, Lossy(L), TypeOK', NEW sn \in doneSeqNum .. seqNum, NEW f, NEW C,
         \E k \in 0 .. Len(historyBuffer) : SquashStep(sn, k, f, C)
  PROVE  Lossy(L \cup C)'
<1> DEFINE H == historyBuffer
<1>t. TypeOK
  BY DEF Lossy
<1>n. PICK n \in Nat : n = Len(H) /\ DOMAIN H = 1 .. n
  BY <1>t, HistoryTypes
<1>p. PICK k \in 0 .. n : SquashStep(sn, k, f, C)
  BY <1>n
<1>k. OldEntries(sn, k) /\ renameMap' = UndoneMap(k) /\ H' = SubSeq(H, 1, k)
  BY <1>p DEF SquashStep
<1>f. /\ f \in Seq(PhysRegs) /\ Distinct(f) /\ Elements(f) \cap C = {}
      /\ Elements(f) \cup C = {H[i].new : i \in k + 1 .. n}
      /\ freeingInProgress' = freeingInProgress \o f
  BY <1>n, <1>p DEF SquashStep
<1>0. /\ seqNum' = seqNum /\ doneSeqNum' = doneSeqNum
      /\ commitRenameMap' = commitRenameMap /\ freeList' = freeList
      /\ window' = {inst \in window : inst.seq <= sn}
      /\ doneSeqNum \in Nat /\ seqNum \in Nat /\ sn \in Nat /\ doneSeqNum <= sn
  BY <1>t, <1>p DEF TypeOK, SquashStep
<1>h. \A i \in 1 .. n : /\ H[i].seq \in Nat /\ H[i].arch \in ArchRegs
                        /\ H[i].prev \in PhysRegs /\ H[i].new \in PhysRegs
  BY <1>t, <1>n, HistoryTypes DEF SeqNums
<1>1. /\ DOMAIN H' = 1 .. k /\ Len(H') = k
      /\ \A i \in 1 .. k : H'[i] = H[i] /\ i \in 1 .. n
  BY <1>t, <1>n, <1>k DEF TypeOK
<1>2. /\ \A i \in 1 .. k : H[i].seq <= sn
      /\ \A i \in k + 1 .. n : H[i].seq > sn /\ i \in 1 .. n
  BY <1>n, <1>k DEF OldEntries
<1>3. \A i \in 1 .. n : i \in 1 .. k \/ i \in k + 1 .. n
  OBVIOUS
<1>4. \A a \in ArchRegs :
         \/ /\ \A i \in k + 1 .. n : H[i].arch # a
            /\ renameMap'[a] = renameMap[a]
         \/ \E i \in k + 1 .. n :
               /\ H[i].arch = a
               /\ \A j \in k + 1 .. i - 1 : H[j].arch # a
               /\ renameMap'[a] = H[i].prev
  <2> TAKE a \in ArchRegs
  <2>1. \/ /\ \A i \in k + 1 .. Len(H) : H[i].arch # a
           /\ UndoneMap(k)[a] = renameMap[a]
        \/ \E i \in k + 1 .. Len(H) : FirstUndone(k, a, i) /\ UndoneMap(k)[a] = H[i].prev
    BY <1>t, <1>n, UndoneMapValue
  <2>2. renameMap' = UndoneMap(k)
    BY <1>k
  <2> QED
    BY <2>1, <2>2, <1>n DEF FirstUndone
\* The invariant's facts about the old state, index by index.
<1>5. /\ \A i, j \in 1 .. n : H[i].prev = H[j].prev => i = j
      /\ \A i \in 1 .. n : \A a \in ArchRegs : H[i].prev # renameMap[a]
      /\ \A a, b \in ArchRegs : renameMap[a] = renameMap[b] => a = b
      /\ \A i \in 1 .. n : H[i].prev \notin Elements(freeList)
                          /\ H[i].prev \notin Elements(freeingInProgress)
      /\ \A a \in ArchRegs : renameMap[a] \notin Elements(freeList)
                            /\ renameMap[a] \notin Elements(freeingInProgress)
  <2>1. /\ \A i \in 1 .. n : H[i].prev \in Prevs
        /\ \A a \in ArchRegs : renameMap[a] \in Mapped
    BY <1>n DEF Mapped, Prevs
  <2>2. NoDoubleOwner
    BY DEF Lossy
  <2> QED
    BY <1>n, <2>1, <2>2 DEF NoDoubleOwner
<1>6. \A i \in 1 .. n :
         \/ /\ renameMap[H[i].arch] = H[i].new
            /\ \A j \in i + 1 .. n : H[j].arch # H[i].arch
         \/ \E j \in 1 .. n : /\ i < j /\ H[j].arch = H[i].arch
                              /\ \A m \in i + 1 .. j - 1 : H[m].arch # H[i].arch
                              /\ H[j].prev = H[i].new
  BY <1>n DEF Lossy, HistoryChained, NextFor
<1>7. \A j \in 1 .. n :
         \/ \A i \in 1 .. j - 1 : H[i].arch # H[j].arch
         \/ \E i \in 1 .. n : /\ i < j /\ H[j].arch = H[i].arch
                              /\ \A m \in i + 1 .. j - 1 : H[m].arch # H[i].arch
                              /\ H[j].prev = H[i].new
  BY <1>n DEF Lossy, HistoryChained, NextFor
\* A released register is neither free, nor mapped, nor kept for a rollback.
<1>9. ASSUME NEW i \in k + 1 .. n
      PROVE  /\ H[i].new \notin Elements(freeList)
             /\ H[i].new \notin Elements(freeingInProgress)
             /\ \A m \in 1 .. k : H[m].prev # H[i].new
             /\ \A a \in ArchRegs : renameMap'[a] # H[i].new
  <2>0. i \in 1 .. n
    OBVIOUS
  <2>1. CASE /\ renameMap[H[i].arch] = H[i].new
             /\ \A j \in i + 1 .. n : H[j].arch # H[i].arch
    <3>1. \A m \in 1 .. n : H[m].prev # H[i].new
      BY <2>0, <2>1, <1>5, <1>h
    <3>2. ASSUME NEW a \in ArchRegs, renameMap'[a] = H[i].new PROVE FALSE
      <4>1. \A j \in k + 1 .. n : H[j].prev # H[i].new /\ j \in 1 .. n
        BY <3>1, <1>2
      <4>2. (\A j \in k + 1 .. n : H[j].arch # a) /\ renameMap'[a] = renameMap[a]
        BY <3>2, <4>1, <1>4
      <4>3. a = H[i].arch
        BY <2>0, <2>1, <3>2, <4>2, <1>5, <1>h
      <4> QED
        BY <4>2, <4>3
    <3>3. /\ H[i].new \notin Elements(freeList)
          /\ H[i].new \notin Elements(freeingInProgress)
      BY <2>0, <2>1, <1>5, <1>h
    <3>4. \A m \in 1 .. k : m \in 1 .. n
      BY <1>1
    <3> QED
      BY <3>1, <3>2, <3>3, <3>4
  <2>2. CASE \E q \in 1 .. n : /\ i < q /\ H[q].arch = H[i].arch
                               /\ \A m \in i + 1 .. q - 1 : H[m].arch # H[i].arch
                               /\ H[q].prev = H[i].new
    <3>1. PICK q \in 1 .. n : /\ i < q /\ H[q].arch = H[i].arch
                              /\ \A m \in i + 1 .. q - 1 : H[m].arch # H[i].arch
                              /\ H[q].prev = H[i].new
      BY <2>2
    <3>2. ASSUME NEW m \in 1 .. k, H[m].prev = H[i].new PROVE FALSE
      <4>1. m = q
        BY <3>1, <3>2, <1>1, <1>5
      <4> QED
        BY <3>1, <4>1
    <3>3. ASSUME NEW a \in ArchRegs, renameMap'[a] = H[i].new PROVE FALSE
      <4>1. PICK g \in k + 1 .. n : /\ H[g].arch = a
                                    /\ \A j \in k + 1 .. g - 1 : H[j].arch # a
                                    /\ renameMap'[a] = H[g].prev
        BY <3>1, <3>3, <1>4, <1>5
      <4>2. g = q
        BY <3>1, <3>3, <4>1, <1>5
      <4> QED
        BY <3>1, <4>1, <4>2
    <3> QED
      BY <3>1, <3>2, <3>3, <1>5
  <2> QED
    BY <2>0, <2>1, <2>2, <1>6
<1>12. /\ \A x \in Elements(f) \cup C : \E i \in k + 1 .. n : x = H[i].new
       /\ \A i \in k + 1 .. n : H[i].new \in Elements(f) \cup C
  BY <1>f
<1>14. /\ Elements(freeingInProgress') = Elements(freeingInProgress) \cup Elements(f)
       /\ Distinct(freeingInProgress')
  <2>1. /\ Distinct(freeingInProgress)
        /\ Elements(freeingInProgress) \cap Elements(f) = {}
    BY <1>9, <1>12 DEF Lossy, NoDoubleOwner
  <2>2. freeingInProgress \in Seq(PhysRegs)
    BY <1>t DEF TypeOK
  <2> QED
    BY <2>1, <2>2, <1>f, ConcatElements
<1>15. /\ \A x : x \in Mapped' <=> \E a \in ArchRegs : x = renameMap'[a]
       /\ \A x : x \in Prevs' <=> \E i \in 1 .. k : x = H[i].prev
  BY <1>1 DEF Mapped, Prevs
\* A restored mapping was a mapping, or was kept by an undone entry.
<1>16. /\ \A a \in ArchRegs : \A i \in 1 .. k : renameMap'[a] # H[i].prev
       /\ \A a, b \in ArchRegs : renameMap'[a] = renameMap'[b] => a = b
       /\ \A a \in ArchRegs : renameMap'[a] \notin Elements(freeList)
                             /\ renameMap'[a] \notin Elements(freeingInProgress)
  <2>1. \A a \in ArchRegs : \A i \in 1 .. k : renameMap'[a] # H[i].prev
    BY <1>4, <1>5
  <2>2. \A a, b \in ArchRegs : renameMap'[a] = renameMap'[b] => a = b
    BY <1>4, <1>5
  <2>3. \A a \in ArchRegs : renameMap'[a] \notin Elements(freeList)
                           /\ renameMap'[a] \notin Elements(freeingInProgress)
    BY <1>4, <1>5
  <2> QED
    BY <2>1, <2>2, <2>3
<1>17. NoDoubleOwner'
  <2>1. \A i, j \in DOMAIN H' : H'[i].prev = H'[j].prev => i = j
    BY <1>1, <1>5
  <2>2. (Elements(freeList) \cap Elements(freeingInProgress) = {})'
    BY <1>0, <1>9, <1>12, <1>14 DEF Lossy, NoDoubleOwner
  <2>3. (Elements(freeList) \cap Mapped = {})' /\ (Elements(freeList) \cap Prevs = {})'
    BY <1>0, <1>1, <1>5, <1>15, <1>16
  <2>4. (Elements(freeingInProgress) \cap Mapped = {})'
    BY <1>9, <1>12, <1>14, <1>15, <1>16
  <2>5. (Elements(freeingInProgress) \cap Prevs = {})'
    BY <1>1, <1>5, <1>9, <1>12, <1>14, <1>15
  <2>6. (Mapped \cap Prevs = {})'
    BY <1>15, <1>16
  <2>7. Distinct(freeList')
    BY <1>0 DEF Lossy, NoDoubleOwner
  <2> QED
    BY <2>1, <2>2, <2>3, <2>4, <2>5, <2>6, <2>7, <1>14, <1>16 DEF NoDoubleOwner
<1>18. Accounted(L \cup C)'
  <2>1. ASSUME NEW i \in k + 1 .. n PROVE H[i].prev \in Mapped' \cup Elements(f) \cup C
    <3>0. i \in 1 .. n
      OBVIOUS
    <3>1. CASE \A j \in k + 1 .. i - 1 : H[j].arch # H[i].arch
      <4>1. PICK g \in k + 1 .. n : /\ H[g].arch = H[i].arch
                                    /\ \A j \in k + 1 .. g - 1 : H[j].arch # H[i].arch
                                    /\ renameMap'[H[i].arch] = H[g].prev
        BY <3>0, <1>4, <1>h
      <4>2. g = i
        BY <3>1, <4>1
      <4> QED
        BY <3>0, <4>1, <4>2, <1>15, <1>h
    <3>2. CASE \E j \in k + 1 .. i - 1 : H[j].arch = H[i].arch
      <4>1. PICK j \in k + 1 .. i - 1 : H[j].arch = H[i].arch
        BY <3>2
      <4>2. PICK g \in 1 .. n : /\ g < i /\ H[i].arch = H[g].arch
                                /\ \A m \in g + 1 .. i - 1 : H[m].arch # H[g].arch
                                /\ H[i].prev = H[g].new
        BY <3>0, <4>1, <1>7
      <4>3. g \in k + 1 .. n
        BY <4>1, <4>2
      <4> QED
        BY <4>2, <4>3, <1>12
    <3> QED
      BY <3>1, <3>2
  <2>2. Prevs \subseteq Prevs' \cup Mapped' \cup Elements(f) \cup C
    <3>1. ASSUME NEW i \in 1 .. n PROVE H[i].prev \in Prevs' \cup Mapped' \cup Elements(f) \cup C
      BY <2>1, <1>3, <1>15
    <3> QED
      BY <3>1, <1>n DEF Prevs
  <2>3. Mapped \subseteq Mapped' \cup Elements(f) \cup C
    <3> SUFFICES ASSUME NEW a \in ArchRegs PROVE renameMap[a] \in Mapped' \cup Elements(f) \cup C
      BY DEF Mapped
    <3>1. CASE \A i \in k + 1 .. n : H[i].arch # a
      BY <3>1, <1>4, <1>15
    <3>2. CASE \E i \in k + 1 .. n : H[i].arch = a
      <4>1. PICK i \in 1 .. n : H[i].arch = a /\ \A m \in i + 1 .. n : H[m].arch # a
        BY <3>2, <1>2, <1>n, <1>t, LastFor
      <4>2. i \in k + 1 .. n
        BY <3>2, <4>1
      <4>3. H[i].new = renameMap[a]
        BY <4>1, <1>6
      <4> QED
        BY <4>2, <4>3, <1>12
    <3> QED
      BY <3>1, <3>2
  <2>4. PhysRegs \subseteq (L \cup C) \cup Elements(freeList') \cup Elements(freeingInProgress')
                             \cup Mapped' \cup Prevs'
    BY <2>2, <2>3, <1>0, <1>14 DEF Lossy, Accounted
  <2>5. Mapped' \cup Prevs' \cup Elements(f) \cup C \subseteq Mapped \cup Prevs
    <3>1. Mapped' \cup Prevs' \subseteq Mapped \cup Prevs
      BY <1>1, <1>2, <1>4, <1>15, <1>n DEF Mapped, Prevs
    <3>2. Elements(f) \cup C \subseteq Mapped \cup Prevs
      BY <1>2, <1>12, <1>n, NewsDistinct
    <3> QED
      BY <3>1, <3>2
  <2>6. \A x \in L : x \notin Elements(freeList') \cup Elements(freeingInProgress')
                            \cup Mapped' \cup Prevs'
    BY <2>5, <1>0, <1>14 DEF Lossy, Accounted
  <2>7. \A x \in C : x \notin Elements(freeList') \cup Elements(freeingInProgress')
                            \cup Mapped' \cup Prevs'
    <3> TAKE x \in C
    <3>1. PICK i \in k + 1 .. n : x = H[i].new
      BY <1>12
    <3>2. x \notin Elements(f)
      BY <1>f
    <3>3. x \notin Elements(freeList) /\ x \notin Elements(freeingInProgress)
      BY <3>1, <1>9
    <3>4. x \notin Mapped' /\ x \notin Prevs'
      BY <3>1, <1>9, <1>15
    <3> QED
      BY <3>2, <3>3, <3>4, <1>0, <1>14
  <2> QED
    BY <2>4, <2>6, <2>7 DEF Accounted
<1>19. HistoryOrdered'
  <2>1. /\ \A i, j \in 1 .. n : i < j => H[i].seq < H[j].seq
        /\ \A i \in 1 .. n : H[i].seq <= seqNum
    BY <1>n DEF Lossy, HistoryOrdered
  <2> QED
    BY <2>1, <1>0, <1>1 DEF Lossy, HistoryOrdered
<1>20. WindowMatchesHistory'
  <2>1. ASSUME NEW inst \in window', inst.dest # NoDest
        PROVE  \E i \in 1 .. k : /\ H'[i].seq = inst.seq
                                  /\ H'[i].arch = inst.dest
                                  /\ H'[i].new = inst.new
    <3>1. inst \in window /\ inst.seq <= sn
      BY <1>0
    <3>2. PICK i \in 1 .. n : /\ H[i].seq = inst.seq
                              /\ H[i].arch = inst.dest /\ H[i].new = inst.new
      BY <2>1, <3>1, <1>n DEF Lossy, WindowMatchesHistory
    <3>3. i \in 1 .. k
      BY <3>1, <3>2, <1>0, <1>2, <1>3, <1>h
    <3> QED
      BY <3>2, <3>3, <1>1
  <2>2. ASSUME NEW i \in 1 .. k, H'[i].seq > doneSeqNum
        PROVE  \E inst \in window' : inst.seq = H'[i].seq /\ inst.dest = H'[i].arch
    <3>1. PICK inst \in window : inst.seq = H[i].seq /\ inst.dest = H[i].arch
      BY <2>2, <1>1, <1>n DEF Lossy, WindowMatchesHistory
    <3> QED
      BY <3>1, <1>0, <1>1, <1>2
  <2> QED
    BY <2>1, <2>2, <1>0, <1>1 DEF Lossy, WindowMatchesHistory
<1>21. HistoryChained'
  <2>0. ASSUME NEW i \in 1 .. k, NEW j \in 1 .. k, i < j, H[j].arch = H[i].arch,
               \A m \in i + 1 .. j - 1 : H[m].arch # H[i].arch
        PROVE  NextFor(i, j)'
    BY <2>0, <1>1 DEF NextFor
  <2>1. ASSUME NEW i \in 1 .. k
        PROVE  \/ /\ renameMap'[H'[i].arch] = H'[i].new
                  /\ \A j \in i + 1 .. k : H'[j].arch # H'[i].arch
               \/ \E j \in 1 .. k : NextFor(i, j)' /\ H'[j].prev = H'[i].new
    <3>0. i \in 1 .. n /\ H'[i] = H[i] /\ H[i].arch \in ArchRegs
      BY <1>1, <1>h
    <3>1. CASE /\ renameMap[H[i].arch] = H[i].new
               /\ \A j \in i + 1 .. n : H[j].arch # H[i].arch
      <4>1. \A j \in k + 1 .. n : j \in i + 1 .. n
        OBVIOUS
      <4>2. \A j \in i + 1 .. k : j \in i + 1 .. n /\ j \in 1 .. k
        OBVIOUS
      <4>3. renameMap'[H[i].arch] = H[i].new
        BY <3>0, <3>1, <4>1, <1>4
      <4> QED
        BY <3>0, <3>1, <4>2, <4>3, <1>1
    <3>2. CASE \E q \in 1 .. n : /\ i < q /\ H[q].arch = H[i].arch
                                 /\ \A m \in i + 1 .. q - 1 : H[m].arch # H[i].arch
                                 /\ H[q].prev = H[i].new
      <4>1. PICK q \in 1 .. n : /\ i < q /\ H[q].arch = H[i].arch
                                /\ \A m \in i + 1 .. q - 1 : H[m].arch # H[i].arch
                                /\ H[q].prev = H[i].new
        BY <3>2
      <4>2. CASE q \in 1 .. k
        BY <3>0, <4>1, <4>2, <2>0, <1>1
      <4>3. CASE q \in k + 1 .. n
        <5>1. \A j \in k + 1 .. q - 1 : j \in i + 1 .. q - 1
          OBVIOUS
        <5>2. PICK g \in k + 1 .. n : /\ H[g].arch = H[i].arch
                                      /\ \A j \in k + 1 .. g - 1 : H[j].arch # H[i].arch
                                      /\ renameMap'[H[i].arch] = H[g].prev
          BY <3>0, <4>1, <4>3, <1>4
        <5>3. g = q
          <6>1. ~ (g < q)
            BY <4>1, <5>1, <5>2
          <6>2. ~ (q < g)
            BY <4>1, <4>3, <5>2
          <6> QED
            BY <6>1, <6>2
        <5>4. \A j \in i + 1 .. k : j \in i + 1 .. q - 1 /\ j \in 1 .. k
          BY <4>3
        <5> QED
          BY <3>0, <4>1, <5>2, <5>3, <5>4, <1>1
      <4> QED
        BY <4>2, <4>3, <1>3
    <3> QED
      BY <3>0, <3>1, <3>2, <1>6
  <2>2. ASSUME NEW j \in 1 .. k
        PROVE  \/ \A i \in 1 .. j - 1 : H'[i].arch # H'[j].arch
               \/ \E i \in 1 .. k : NextFor(i, j)' /\ H'[j].prev = H'[i].new
    <3>0. j \in 1 .. n /\ H'[j] = H[j] /\ \A i \in 1 .. j - 1 : i \in 1 .. k
      BY <1>1
    <3>1. CASE \A i \in 1 .. j - 1 : H[i].arch # H[j].arch
      BY <3>0, <3>1, <1>1
    <3>2. CASE \E i \in 1 .. n : /\ i < j /\ H[j].arch = H[i].arch
                                 /\ \A m \in i + 1 .. j - 1 : H[m].arch # H[i].arch
                                 /\ H[j].prev = H[i].new
      <4>1. PICK i \in 1 .. n : /\ i < j /\ H[j].arch = H[i].arch
                                /\ \A m \in i + 1 .. j - 1 : H[m].arch # H[i].arch
                                /\ H[j].prev = H[i].new
        BY <3>2
      <4>2. i \in 1 .. k
        BY <4>1
      <4> QED
        BY <3>0, <4>1, <4>2, <2>0, <1>1
    <3> QED
      BY <3>0, <3>1, <3>2, <1>7
  <2>3. Len(H') = k /\ DOMAIN H' = 1 .. k
    BY <1>1
  <2> QED
    BY <2>1, <2>2, <2>3 DEF HistoryChained
<1>22. CommitMapTracks'
  <2> SUFFICES ASSUME NEW a \in ArchRegs
               PROVE  /\ (\A i \in 1 .. k : H[i].arch = a => H[i].seq <= doneSeqNum)
                          => commitRenameMap[a] = renameMap'[a]
                      /\ \A i \in 1 .. k :
                           /\ H[i].arch = a
                           /\ H[i].seq > doneSeqNum
                           /\ \A j \in 1 .. i - 1 : H[j].arch = a => H[j].seq <= doneSeqNum
                           => commitRenameMap[a] = H[i].prev
    <3>1. \A i \in 1 .. k : H'[i] = H[i] /\ \A j \in 1 .. i - 1 : H'[j] = H[j]
      BY <1>1
    <3>2. DOMAIN H' = 1 .. k /\ doneSeqNum' = doneSeqNum /\ commitRenameMap' = commitRenameMap
      BY <1>0, <1>1
    <3>3. ASSUME NEW a \in ArchRegs
          PROVE  /\ (\A i \in 1 .. k : H'[i].arch = a => H'[i].seq <= doneSeqNum)
                     => commitRenameMap[a] = renameMap'[a]
                 /\ \A i \in 1 .. k :
                      /\ H'[i].arch = a
                      /\ H'[i].seq > doneSeqNum
                      /\ \A j \in 1 .. i - 1 : H'[j].arch = a => H'[j].seq <= doneSeqNum
                      => commitRenameMap[a] = H'[i].prev
      <4>1. ASSUME \A i \in 1 .. k : H'[i].arch = a => H'[i].seq <= doneSeqNum
            PROVE  commitRenameMap[a] = renameMap'[a]
        BY <3>1, <4>1
      <4>2. ASSUME NEW i \in 1 .. k, H'[i].arch = a, H'[i].seq > doneSeqNum,
                   \A j \in 1 .. i - 1 : H'[j].arch = a => H'[j].seq <= doneSeqNum
            PROVE  commitRenameMap[a] = H'[i].prev
        <5>1. \A j \in 1 .. i - 1 : H[j].arch = a => H[j].seq <= doneSeqNum
          BY <3>1, <4>2
        <5>2. H[i].arch = a /\ H[i].seq > doneSeqNum
          BY <3>1, <4>2
        <5>3. commitRenameMap[a] = H[i].prev
          BY <5>1, <5>2
        <5> QED
          BY <5>3, <3>1
      <4> QED
        BY <4>1, <4>2
    <3> QED
      BY <3>2, <3>3 DEF CommitMapTracks
  <2>0. /\ (\A i \in 1 .. n : H[i].arch = a => H[i].seq <= doneSeqNum)
           => commitRenameMap[a] = renameMap[a]
        /\ \A i \in 1 .. n :
             /\ H[i].arch = a
             /\ H[i].seq > doneSeqNum
             /\ \A j \in 1 .. i - 1 : H[j].arch = a => H[j].seq <= doneSeqNum
             => commitRenameMap[a] = H[i].prev
    BY <1>n DEF Lossy, CommitMapTracks
  <2>1. ASSUME \A i \in 1 .. k : H[i].arch = a => H[i].seq <= doneSeqNum
        PROVE  commitRenameMap[a] = renameMap'[a]
    <3>1. CASE \A i \in k + 1 .. n : H[i].arch # a
      BY <2>0, <2>1, <3>1, <1>3, <1>4
    <3>2. CASE ~(\A i \in k + 1 .. n : H[i].arch # a)
      <4>1. PICK g \in k + 1 .. n : /\ H[g].arch = a
                                    /\ \A j \in k + 1 .. g - 1 : H[j].arch # a
                                    /\ renameMap'[a] = H[g].prev
        BY <3>2, <1>4
      <4>2. g \in 1 .. n /\ H[g].seq > doneSeqNum
        BY <1>0, <1>2, <1>h
      <4>3. \A j \in 1 .. g - 1 : j \in 1 .. k \/ j \in k + 1 .. g - 1
        OBVIOUS
      <4> QED
        BY <2>0, <2>1, <4>1, <4>2, <4>3
    <3> QED
      BY <3>1, <3>2
  <2> QED
    BY <2>0, <2>1, <1>1
<1>23. SourcesTracked'
  <2> SUFFICES ASSUME NEW inst \in window'
               PROVE  /\ \/ \E a \in ArchRegs : renameMap'[a] = inst.src
                         \/ \E i \in 1 .. k : H[i].prev = inst.src /\ H[i].seq >= inst.seq
                      /\ \A i \in 1 .. k : H[i].new = inst.src => H[i].seq < inst.seq
    BY <1>1 DEF SourcesTracked
  <2>0. /\ inst \in window /\ inst.seq <= sn /\ inst.seq \in Nat
    BY <1>0, <1>t, WindowTypes DEF SeqNums
  <2>1. \A i \in 1 .. n : H[i].new = inst.src => H[i].seq < inst.seq
    BY <2>0, <1>n DEF Lossy, SourcesTracked
  <2>2. \A i \in k + 1 .. n : H[i].new # inst.src
    BY <2>0, <2>1, <1>0, <1>2, <1>h
  <2>3. inst.src \in Mapped \cup Prevs
    BY <2>0 DEF Lossy, SourcesTracked, Mapped, Prevs
  <2>4. inst.src \notin Elements(freeList) /\ inst.src \notin Elements(freeingInProgress)
    BY <2>3 DEF Lossy, NoDoubleOwner
  <2>5. inst.src \in PhysRegs
    BY <2>0, <1>t, WindowTypes
  <2>9. inst.src \notin L
    BY <2>3 DEF Lossy, Accounted
  <2>6. inst.src \in Mapped' \cup Prevs'
    BY <2>2, <2>4, <2>5, <2>9, <1>0, <1>12, <1>14, <1>18 DEF Accounted
  <2>7. CASE inst.src \in Mapped'
    BY <2>1, <2>7, <1>1, <1>15
  <2>8. CASE inst.src \in Prevs'
    <3>1. PICK i \in 1 .. k : H[i].prev = inst.src
      BY <2>8, <1>15
    <3>2. \A a \in ArchRegs : renameMap[a] # inst.src
      BY <3>1, <1>1, <1>5
    <3>3. PICK j \in 1 .. n : H[j].prev = inst.src /\ H[j].seq >= inst.seq
      BY <3>2, <2>0, <1>n DEF Lossy, SourcesTracked
    <3>4. j = i
      BY <3>1, <3>3, <1>1, <1>5
    <3> QED
      BY <3>1, <3>3, <3>4, <2>1, <1>1
  <2> QED
    BY <2>6, <2>7, <2>8
<1> QED
  BY <1>17, <1>18, <1>19, <1>20, <1>21, <1>22, <1>23 DEF Lossy

\* The two loops of rename.cc without the hook.
LEMMA RemoveFromHistoryIInv ==
  ASSUME IInv, TypeOK', NEW sn \in 0 .. doneSeqNum, removeFromHistory(sn)
  PROVE  IInv'
<1> DEFINE H == historyBuffer
<1>t. TypeOK /\ Lossy({}) /\ Len(H) \in Nat /\ DOMAIN H = 1 .. Len(H)
  BY LossyNothing, HistoryTypes DEF IInv
<1>k. PICK k \in 1 .. Len(H) :
        /\ OldEntries(sn, k)
        /\ freeList' = freeList \o [i \in 1 .. k |-> H[i].prev]
        /\ H' = SubSeq(H, k + 1, Len(H))
  BY DEF removeFromHistory
<1> DEFINE f == [i \in 1 .. k |-> H[i].prev]
<1>1. f \in Seq(PhysRegs)
  BY <1>t, HistoryTypes
<1>2. DOMAIN f = 1 .. k /\ \A i \in 1 .. k : f[i] = H[i].prev /\ i \in DOMAIN H
  BY <1>t
<1>u. UNCHANGED <<renameMap, commitRenameMap, freeingInProgress, window, seqNum,
                  doneSeqNum>>
  BY DEF removeFromHistory
<1>f. freeList' = freeList \o f
  BY <1>k
<1> HIDE DEF f
<1>3. Elements(f) = {H[i].prev : i \in 1 .. k}
  BY <1>2 DEF Elements
<1>4. Distinct(f)
  BY <1>2 DEF Distinct, IInv, NoDoubleOwner
<1>5. RetireStep(sn, k, f)
  BY <1>k, <1>1, <1>3, <1>4, <1>u, <1>f DEF RetireStep
<1>6. Lossy({})'
  BY <1>t, <1>5, RetireKeeps
<1> QED
  BY <1>6, LossyNothing

\* doSquash is the undoing of renames, and loses no register.
LEMMA DoSquashIInv ==
  ASSUME IInv, TypeOK', NEW sn \in doneSeqNum .. seqNum, doSquash(sn)
  PROVE  IInv'
<1> DEFINE H == historyBuffer
<1>t. TypeOK /\ Lossy({}) /\ DOMAIN H = 1 .. Len(H)
  BY LossyNothing, HistoryTypes DEF IInv
<1>n. PICK n \in Nat : n = Len(H)
  BY <1>t, HistoryTypes
<1>k. PICK k \in 0 .. n :
        /\ OldEntries(sn, k)
        /\ renameMap' = UndoneMap(k)
        /\ freeingInProgress' = freeingInProgress \o UndoneRegs(k)
        /\ H' = SubSeq(H, 1, k)
        /\ window' = {inst \in window : inst.seq <= sn}
        /\ UNCHANGED <<commitRenameMap, freeList, seqNum, doneSeqNum>>
  BY <1>n DEF doSquash
<1>1. UndoneRegs(k) \in Seq(PhysRegs)
  BY <1>t, <1>n, UndoneRegsType
<1>2. /\ DOMAIN UndoneRegs(k) = 1 .. n - k
      /\ \A i \in 1 .. n - k : UndoneRegs(k)[i] = H[n + 1 - i].new
                               /\ n + 1 - i \in k + 1 .. n /\ n + 1 - i \in 1 .. n
  BY <1>n DEF UndoneRegs
<1>3. Elements(UndoneRegs(k)) = {H[i].new : i \in k + 1 .. n}
  <2>1. \A x \in Elements(UndoneRegs(k)) : x \in {H[i].new : i \in k + 1 .. n}
    BY <1>2 DEF Elements
  <2>2. ASSUME NEW i \in k + 1 .. n PROVE H[i].new \in Elements(UndoneRegs(k))
    <3>1. n + 1 - i \in 1 .. n - k /\ n + 1 - (n + 1 - i) = i
      OBVIOUS
    <3>2. UndoneRegs(k)[n + 1 - i] = H[i].new
      BY <3>1, <1>2
    <3> QED
      BY <3>1, <3>2, <1>2 DEF Elements
  <2> QED
    BY <2>1, <2>2
<1>4. Distinct(UndoneRegs(k))
  <2> SUFFICES ASSUME NEW i \in 1 .. n - k, NEW j \in 1 .. n - k,
                      UndoneRegs(k)[i] = UndoneRegs(k)[j]
               PROVE  i = j
    BY <1>2 DEF Distinct
  <2>1. \A x, y \in 1 .. n : H[x].new = H[y].new => x = y
    BY <1>n, <1>t, NewsDistinct
  <2>2. PICK x, y \in 1 .. n : x = n + 1 - i /\ y = n + 1 - j
    BY <1>2
  <2>3. H[x].new = H[y].new
    BY <1>2, <2>2
  <2>4. n + 1 - i = n + 1 - j
    BY <2>1, <2>2, <2>3
  <2> QED
    BY <2>4
<1>5. SquashStep(sn, k, UndoneRegs(k), {})
  BY <1>n, <1>k, <1>1, <1>3, <1>4 DEF SquashStep
<1>6. \E q \in 0 .. Len(historyBuffer) : SquashStep(sn, q, UndoneRegs(k), {})
  BY <1>n, <1>5
<1>7. {} \cup {} = {}
  OBVIOUS
<1>8. Lossy({} \cup {})'
  BY <1>t, <1>6, SquashKeeps
<1> QED
  BY <1>7, <1>8, LossyNothing

----------------------------------------------------------------------------
\* A stuttering step keeps the invariant.
LEMMA StutterKeeps ==
  ASSUME NEW L, Lossy(L), UNCHANGED vars
  PROVE  Lossy(L)'
<1>0. TypeOK'
  BY NextTypeOK DEF Lossy
<1>u. /\ Elements(freeList') = Elements(freeList) /\ Distinct(freeList') = Distinct(freeList)
      /\ Elements(freeingInProgress') = Elements(freeingInProgress)
      /\ Distinct(freeingInProgress') = Distinct(freeingInProgress)
      /\ Mapped' = Mapped /\ Prevs' = Prevs
  BY DEF vars, Mapped, Prevs
<1>1. NoDoubleOwner' /\ Accounted(L)'
  BY <1>u DEF vars, Lossy, NoDoubleOwner, Accounted
<1>2. HistoryOrdered' /\ WindowMatchesHistory' /\ HistoryChained'
  BY DEF vars, Lossy, HistoryOrdered, WindowMatchesHistory, HistoryChained, NextFor
<1>3. CommitMapTracks' /\ SourcesTracked'
  BY DEF vars, Lossy, CommitMapTracks, SourcesTracked
<1> QED
  BY <1>0, <1>1, <1>2, <1>3 DEF Lossy

\* Every operation keeps the inductive invariant.
LEMMA NextIInv == IInv /\ [Next]_vars => IInv'
<1> SUFFICES ASSUME IInv, [Next]_vars PROVE IInv'
  OBVIOUS
<1>t. TypeOK'
  BY NextTypeOK DEF IInv
<1>l. Lossy({})
  BY LossyNothing
<1>1. ASSUME NEW s \in ArchRegs, RenameNoDest(s) PROVE IInv'
  BY <1>1, <1>t, <1>l, LossyNothing, RenameNoDestKeeps
<1>2. ASSUME NEW s \in ArchRegs, NEW d \in ArchRegs, RenameDest(s, d) PROVE IInv'
  BY <1>2, <1>t, <1>l, LossyNothing, RenameDestKeeps
<1>3. ASSUME NEW inst \in window, Commit(inst) PROVE IInv'
  BY <1>3, <1>t, <1>l, LossyNothing, CommitKeeps
<1>4. ASSUME NEW sn \in 0 .. doneSeqNum, removeFromHistory(sn) PROVE IInv'
  BY <1>4, <1>t, RemoveFromHistoryIInv
<1>5. ASSUME NEW sn \in doneSeqNum .. seqNum, doSquash(sn) PROVE IInv'
  BY <1>5, <1>t, DoSquashIInv
<1>6. CASE FreeSquashed
  BY <1>6, <1>t, <1>l, LossyNothing, FreeSquashedKeeps
<1>7. CASE UNCHANGED vars
  BY <1>7, <1>l, LossyNothing, StutterKeeps
<1> QED
  BY <1>1, <1>2, <1>3, <1>4, <1>5, <1>6, <1>7 DEF Next

\* The committed registers are mapped or kept for a rollback.
LEMMA CommitMapLive ==
  ASSUME NEW L, Lossy(L), NEW a \in ArchRegs
  PROVE  commitRenameMap[a] \in Mapped \cup Prevs
<1> DEFINE H == historyBuffer
           S == {i \in DOMAIN H : H[i].arch = a /\ H[i].seq > doneSeqNum}
<1>t. TypeOK
  BY DEF Lossy
<1>h. /\ Len(H) \in Nat /\ DOMAIN H = 1 .. Len(H)
      /\ doneSeqNum \in Nat /\ \A i \in DOMAIN H : H[i].seq \in Nat
  <2>1. Len(H) \in Nat /\ DOMAIN H = 1 .. Len(H) /\ \A i \in 1 .. Len(H) : H[i].seq \in SeqNums
    BY <1>t, HistoryTypes
  <2>2. doneSeqNum \in Nat
    BY <1>t DEF TypeOK
  <2> QED
    BY <2>1, <2>2 DEF SeqNums
<1>1. CASE S = {}
  <2>1. \A i \in DOMAIN H : H[i].arch = a => H[i].seq <= doneSeqNum
    BY <1>1, <1>h
  <2> QED
    BY <2>1 DEF Lossy, CommitMapTracks, Mapped
<1>2. CASE S # {}
  <2>0. S \in SUBSET Nat
    BY <1>h
  <2>1. PICK i \in S : \A j \in S : i <= j
    BY <2>0, <1>2, SetHasMin
  <2>2. \A j \in 1 .. i - 1 : H[j].arch = a => H[j].seq <= doneSeqNum
    BY <2>1, <1>h
  <2>3. commitRenameMap[a] = H[i].prev
    BY <2>1, <2>2 DEF Lossy, CommitMapTracks
  <2> QED
    BY <2>1, <2>3 DEF Prevs
<1> QED
  BY <1>1, <1>2

\* It implies that nothing live is reclaimed.
LEMMA LossyKeepsLive ==
  ASSUME NEW L, Lossy(L)
  PROVE  CommittedStateKept /\ SourcesKept
<1>1. \A x \in Mapped \cup Prevs :
         x \notin Elements(freeList) \cup Elements(freeingInProgress)
  BY DEF Lossy, NoDoubleOwner
<1>2. CommittedStateKept
  BY <1>1, CommitMapLive DEF CommittedStateKept
<1>3. \A inst \in window : inst.src \in Mapped \cup Prevs
  BY DEF Lossy, SourcesTracked, Mapped, Prevs
<1>4. SourcesKept
  BY <1>1, <1>3 DEF SourcesKept
<1> QED
  BY <1>2, <1>4

\* It implies that a full squash is exact.
LEMMA LossyRollsBack ==
  ASSUME NEW L, Lossy(L)
  PROVE  RollbackExact
<1> SUFFICES ASSUME NEW k \in 0 .. Len(historyBuffer),
                    OldEntries(doneSeqNum, k)
             PROVE  UndoneMap(k) = commitRenameMap
  BY DEF RollbackExact
<1> DEFINE H == historyBuffer
           n == Len(H)
<1>t. TypeOK
  BY DEF Lossy
<1>h. /\ n \in Nat /\ DOMAIN H = 1 .. n
      /\ doneSeqNum \in Nat /\ \A i \in DOMAIN H : H[i].seq \in Nat
  <2>1. n \in Nat /\ DOMAIN H = 1 .. n /\ \A i \in 1 .. n : H[i].seq \in SeqNums
    BY <1>t, HistoryTypes
  <2>2. doneSeqNum \in Nat
    BY <1>t DEF TypeOK
  <2> QED
    BY <2>1, <2>2 DEF SeqNums
<1>o. /\ \A i \in 1 .. k : H[i].seq <= doneSeqNum
      /\ \A i \in k + 1 .. n : H[i].seq > doneSeqNum
  BY DEF OldEntries
<1>1. ASSUME NEW a \in ArchRegs PROVE UndoneMap(k)[a] = commitRenameMap[a]
  <2>1. CASE /\ \A i \in k + 1 .. n : H[i].arch # a
             /\ UndoneMap(k)[a] = renameMap[a]
    <3>1. \A i \in DOMAIN H : i \in 1 .. k \/ i \in k + 1 .. n
      BY <1>h
    <3>2. \A i \in DOMAIN H : H[i].arch = a => H[i].seq <= doneSeqNum
      BY <2>1, <3>1, <1>o
    <3> QED
      BY <2>1, <3>2 DEF Lossy, CommitMapTracks
  <2>2. ASSUME NEW i \in k + 1 .. n, FirstUndone(k, a, i), UndoneMap(k)[a] = H[i].prev
        PROVE  UndoneMap(k)[a] = commitRenameMap[a]
    <3>1. \A j \in 1 .. i - 1 : j \in 1 .. k \/ j \in k + 1 .. i - 1
      BY <1>h
    <3>2. \A j \in 1 .. i - 1 : H[j].arch = a => H[j].seq <= doneSeqNum
      BY <2>2, <3>1, <1>o DEF FirstUndone
    <3>3. i \in DOMAIN H /\ H[i].arch = a /\ H[i].seq > doneSeqNum
      BY <2>2, <1>h, <1>o DEF FirstUndone
    <3> QED
      BY <2>2, <3>2, <3>3 DEF Lossy, CommitMapTracks
  <2> QED
    BY <2>1, <2>2, <1>t, UndoneMapValue
<1>2. UndoneMap(k) \in [ArchRegs -> PhysRegs] /\ commitRenameMap \in [ArchRegs -> PhysRegs]
  BY <1>t, UndoneMapType DEF TypeOK
<1> QED
  BY <1>1, <1>2

\* It implies that a rename always replaced one register by another: the new
\* register is still mapped or was replaced by a later entry.
LEMMA LossyChanges ==
  ASSUME NEW L, Lossy(L)
  PROVE  RenameChanges
<1> SUFFICES ASSUME NEW i \in DOMAIN historyBuffer,
                    historyBuffer[i].new = historyBuffer[i].prev
             PROVE  FALSE
  BY DEF RenameChanges
<1>1. TypeOK /\ NoDoubleOwner /\ HistoryChained
  BY DEF Lossy
<1>2. CASE renameMap[historyBuffer[i].arch] = historyBuffer[i].new
  <2>1. historyBuffer[i].arch \in ArchRegs
    BY <1>1, HistoryTypes
  <2>2. historyBuffer[i].new \in Mapped \cap Prevs
    BY <1>2, <2>1 DEF Mapped, Prevs
  <2> QED
    BY <1>1, <2>2 DEF NoDoubleOwner
<1>3. CASE \E j \in DOMAIN historyBuffer :
             NextFor(i, j) /\ historyBuffer[j].prev = historyBuffer[i].new
  <2>1. PICK j \in DOMAIN historyBuffer :
          i < j /\ historyBuffer[j].prev = historyBuffer[i].prev
    BY <1>3 DEF NextFor
  <2>2. i = j
    BY <1>1, <2>1 DEF NoDoubleOwner
  <2>3. i \in Int
    BY <1>1 DEF TypeOK
  <2> QED
    BY <2>1, <2>2, <2>3
<1> QED
  BY <1>1, <1>2, <1>3 DEF HistoryChained

\* The inductive invariant implies all of these.
LEMMA IInvImplies ==
  IInv => CommittedStateKept /\ SourcesKept /\ RollbackExact /\ RenameChanges
<1> SUFFICES ASSUME IInv
             PROVE  CommittedStateKept /\ SourcesKept /\ RollbackExact /\ RenameChanges
  OBVIOUS
<1>1. Lossy({})
  BY LossyNothing
<1> QED
  BY <1>1, LossyKeepsLive, LossyRollsBack, LossyChanges

\* The inductive invariant holds in every behaviour of the renaming state.
THEOREM Invariance == Spec => []IInv
<1>1. Init => IInv
  BY InitIInv
<1>2. IInv /\ [Next]_vars => IInv'
  BY NextIInv
<1> QED
  BY <1>1, <1>2, PTL DEF Spec

\* A physical register is never in two places at once (rename.cc's map,
\* history, free list and pending-free list stay disjoint).
THEOREM OwnershipSafe == Spec => []NoDoubleOwner
<1>1. IInv => NoDoubleOwner
  BY DEF IInv
<1> QED
  BY <1>1, Invariance, PTL

\* No sequence of renames, commits and squashes loses a physical register.
THEOREM LeakFree == Spec => []NoLeak
<1>1. IInv => NoLeak
  BY DEF IInv
<1> QED
  BY <1>1, Invariance, PTL

\* The committed state and the sources of in-flight instructions are never
\* on the free list or on their way there.
THEOREM LiveRegistersKept == Spec => [](CommittedStateKept /\ SourcesKept)
<1> QED
  BY IInvImplies, Invariance, PTL

\* In particular no source of an instruction in flight, squashed or late in
\* retiring as its neighbours may be, is reclaimed before it is read.
THEOREM SourcesSafe == Spec => []SourcesKept
<1>1. CommittedStateKept /\ SourcesKept => SourcesKept
  OBVIOUS
<1> QED
  BY <1>1, LiveRegistersKept, PTL

\* Rename's history and Commit's map always agree on what a full squash
\* restores.
THEOREM RollbackCorrect == Spec => []RollbackExact
<1> QED
  BY IInvImplies, Invariance, PTL

\* Both history loops' test newPhysReg != prevPhysReg never skips an entry:
\* the new register is still mapped or was replaced by a later entry, and
\* those places are disjoint.
THEOREM NoEntrySkipped == Spec => []RenameChanges
<1> QED
  BY IInvImplies, Invariance, PTL

----------------------------------------------------------------------------
\* The CPU under injection (ChaosRename).

\* An increasing enumeration of S.
Enumerates(e, S) ==
    /\ e \in [1 .. Cardinality(S) -> S]
    /\ \A i, j \in 1 .. Cardinality(S) : i < j => e[i] < e[j]

\* The sets of positions are finite.
LEMMA PositionsFinite ==
  ASSUME NEW n \in Nat, NEW S \in SUBSET (1 .. n)
  PROVE  IsFiniteSet(S) /\ Cardinality(S) \in Nat
<1>1. IsFiniteSet(1 .. n)
  BY FS_Interval
<1>2. IsFiniteSet(S)
  BY <1>1, FS_Subset
<1> QED
  BY <1>2, FS_CardinalityType

\* Positions have an increasing enumeration, by the largest of them last.
LEMMA EnumerationExists ==
  ASSUME NEW n \in Nat, NEW S \in SUBSET (1 .. n)
  PROVE  \E e : Enumerates(e, S)
<1> DEFINE Bad == {m \in Nat : \E T \in SUBSET (1 .. m) : \A e : ~Enumerates(e, T)}
<1>1. SUFFICES Bad = {}
  BY <1>1
<1>2. SUFFICES ASSUME Bad # {} PROVE FALSE
  OBVIOUS
<1>3. PICK m \in Bad : \A k \in Bad : m <= k
  BY <1>2, SetHasMin
<1>4. m \in Nat
  OBVIOUS
<1>5. PICK T \in SUBSET (1 .. m) : \A e : ~Enumerates(e, T)
  OBVIOUS
<1>6. IsFiniteSet(T) /\ Cardinality(T) \in Nat
  BY <1>4, PositionsFinite
<1>7. CASE T = {}
  <2>1. Cardinality(T) = 0
    BY <1>7, FS_EmptySet
  <2>2. Enumerates([i \in 1 .. 0 |-> i], T)
    BY <2>1, <1>7 DEF Enumerates
  <2> QED
    BY <2>2, <1>5
<1>8. CASE m = 0
  BY <1>7, <1>8
<1>9. CASE m # 0 /\ m \notin T
  <2>1. m - 1 \in Nat /\ T \in SUBSET (1 .. m - 1)
    BY <1>4, <1>9
  <2>2. m - 1 \in Bad
    BY <2>1, <1>5
  <2>3. m <= m - 1
    BY <2>2, <1>3
  <2> QED
    BY <2>3, <1>4
<1>10. CASE m # 0 /\ m \in T
  <2> DEFINE U == T \ {m}
             c == Cardinality(U)
  <2>1. m - 1 \in Nat /\ U \in SUBSET (1 .. m - 1)
    BY <1>4, <1>10
  <2>2. c \in Nat /\ Cardinality(T) = c + 1
    <3>1. IsFiniteSet(U) /\ Cardinality(U) = Cardinality(T) - 1
      BY <1>6, <1>10, FS_RemoveElement
    <3>2. Cardinality(U) \in Nat
      BY <2>1, PositionsFinite
    <3> QED
      BY <3>1, <3>2, <1>6
  <2>3. \E e : Enumerates(e, U)
    <3>1. SUFFICES ASSUME \A e : ~Enumerates(e, U) PROVE FALSE
      OBVIOUS
    <3>2. m - 1 \in Bad
      BY <3>1, <2>1
    <3>3. m <= m - 1
      BY <3>2, <1>3
    <3> QED
      BY <3>3, <1>4
  <2>4. PICK e : Enumerates(e, U)
    BY <2>3
  <2> DEFINE g == [i \in 1 .. c + 1 |-> IF i = c + 1 THEN m ELSE e[i]]
  <2>5. /\ \A i \in 1 .. c : e[i] \in U
        /\ \A i, j \in 1 .. c : i < j => e[i] < e[j]
    BY <2>4 DEF Enumerates
  <2> HIDE DEF c, U
  <2>6. \A i \in 1 .. c : e[i] \in T /\ e[i] \in Nat /\ e[i] < m
    <3>1. \A x \in U : x \in T /\ x \in Nat /\ x < m
      BY <2>1, <1>4 DEF U
    <3> QED
      BY <3>1, <2>5
  <2>7. \A i \in 1 .. c + 1 : i \in 1 .. c \/ i = c + 1
    BY <2>2
  <2>8. g \in [1 .. c + 1 -> T]
    BY <2>6, <2>7, <1>10
  <2>9. ASSUME NEW i \in 1 .. c + 1, NEW j \in 1 .. c + 1, i < j PROVE g[i] < g[j]
    <3>1. i \in 1 .. c /\ i # c + 1
      BY <2>2, <2>9
    <3>2. CASE j = c + 1
      BY <3>1, <3>2, <2>6
    <3>3. CASE j \in 1 .. c /\ j # c + 1
      BY <3>1, <3>3, <2>5, <2>9
    <3> QED
      BY <3>2, <3>3, <2>7
  <2>10. Enumerates(g, T)
    BY <2>2, <2>8, <2>9 DEF Enumerates
  <2> QED
    BY <2>10, <1>5
<1> QED
  BY <1>8, <1>9, <1>10

\* InOrder lists every position of S once.
LEMMA InOrderEnumerates ==
  ASSUME NEW n \in Nat, NEW S \in SUBSET (1 .. n)
  PROVE  /\ IsFiniteSet(S) /\ Cardinality(S) \in Nat
         /\ DOMAIN InOrder(S) = 1 .. Cardinality(S)
         /\ \A i \in 1 .. Cardinality(S) : InOrder(S)[i] \in S
         /\ \A i, j \in 1 .. Cardinality(S) : InOrder(S)[i] = InOrder(S)[j] => i = j
         /\ \A x \in S : \E i \in 1 .. Cardinality(S) : InOrder(S)[i] = x
<1> DEFINE c == Cardinality(S)
           e == InOrder(S)
<1>0. IsFiniteSet(S) /\ c \in Nat
  BY PositionsFinite
<1>1. \E g \in [1 .. c -> S] : \A i, j \in DOMAIN g : i < j => g[i] < g[j]
  <2>1. PICK g : Enumerates(g, S)
    BY EnumerationExists
  <2>2. g \in [1 .. c -> S] /\ \A i, j \in 1 .. c : i < j => g[i] < g[j]
    BY <2>1 DEF Enumerates
  <2> HIDE DEF c
  <2>3. DOMAIN g = 1 .. c
    BY <2>2
  <2> QED
    BY <2>2, <2>3
<1>2. e \in [1 .. c -> S] /\ \A i, j \in DOMAIN e : i < j => e[i] < e[j]
  BY <1>1, Zenon DEF InOrder
<1> HIDE DEF e, c
<1>3. /\ DOMAIN e = 1 .. c
      /\ \A i \in 1 .. c : e[i] \in S
      /\ \A i, j \in 1 .. c : i < j => e[i] < e[j]
  BY <1>2
<1>4. ASSUME NEW i \in 1 .. c, NEW j \in 1 .. c, e[i] = e[j] PROVE i = j
  <2>0. \A x \in S : x \in Int
    OBVIOUS
  <2>1. e[i] \in Int /\ e[j] \in Int
    BY <2>0, <1>3
  <2>2. ~(i < j) /\ ~(j < i)
    BY <2>1, <1>3, <1>4
  <2> QED
    BY <2>2, <1>0
<1>5. e \in Injection(1 .. c, S)
  BY <1>2, <1>4 DEF Injection, IsInjective
<1>6. e \in Surjection(1 .. c, S)
  <2>1. Cardinality(1 .. c) = c
    BY <1>0, FS_Interval
  <2> QED
    BY <2>1, <1>0, <1>5, FS_Injection DEF c
<1>7. \A x \in S : \E i \in 1 .. c : e[i] = x
  BY <1>6 DEF Surjection
<1> QED
  BY <1>0, <1>3, <1>4, <1>7 DEF c, e

\* The registers that retiring the entries S frees.
Freed(S) == [i \in DOMAIN InOrder(S) |-> historyBuffer[InOrder(S)[i]].prev]

\* They are listed in order, each once if no two entries replaced the same.
LEMMA FreedSeq ==
  ASSUME TypeOK, NEW S \in SUBSET (1 .. Len(historyBuffer))
  PROVE  /\ Freed(S) \in Seq(PhysRegs)
         /\ Len(Freed(S)) = Cardinality(S)
         /\ Elements(Freed(S)) = {historyBuffer[i].prev : i \in S}
         /\ (\A i, j \in S : historyBuffer[i].prev = historyBuffer[j].prev => i = j)
            => Distinct(Freed(S))
<1>n. Len(historyBuffer) \in Nat
  BY HistoryTypes
<1> DEFINE c == Cardinality(S)
           e == InOrder(S)
           f == Freed(S)
<1>1. /\ c \in Nat /\ DOMAIN e = 1 .. c
      /\ \A i \in 1 .. c : e[i] \in S
      /\ \A i, j \in 1 .. c : e[i] = e[j] => i = j
      /\ \A x \in S : \E i \in 1 .. c : e[i] = x
  BY <1>n, InOrderEnumerates
<1>2. f = [i \in 1 .. c |-> historyBuffer[e[i]].prev]
  BY <1>1 DEF Freed
<1>3. \A x \in S : historyBuffer[x].prev \in PhysRegs
  BY HistoryTypes
<1> HIDE DEF c, e, f
<1>4. \A i \in 1 .. c : historyBuffer[e[i]].prev \in PhysRegs
  BY <1>1, <1>3
<1>5. f \in Seq(PhysRegs) /\ Len(f) = c /\ DOMAIN f = 1 .. c
  BY <1>1, <1>2, <1>4
<1>6. Elements(f) = {historyBuffer[i].prev : i \in S}
  <2>1. \A x \in Elements(f) : x \in {historyBuffer[i].prev : i \in S}
    BY <1>1, <1>2, <1>5 DEF Elements
  <2>2. ASSUME NEW x \in S PROVE historyBuffer[x].prev \in Elements(f)
    <3>1. PICK i \in 1 .. c : e[i] = x
      BY <1>1
    <3>2. i \in DOMAIN f /\ f[i] = historyBuffer[x].prev
      BY <3>1, <1>2, <1>5
    <3> QED
      BY <3>2 DEF Elements
  <2> QED
    BY <2>1, <2>2
<1>7. ASSUME \A i, j \in S : historyBuffer[i].prev = historyBuffer[j].prev => i = j
      PROVE  Distinct(f)
  <2> SUFFICES ASSUME NEW i \in 1 .. c, NEW j \in 1 .. c, f[i] = f[j] PROVE i = j
    BY <1>5 DEF Distinct
  <2>1. historyBuffer[e[i]].prev = historyBuffer[e[j]].prev
    BY <1>2
  <2>2. e[i] = e[j]
    BY <2>1, <1>1, <1>7
  <2> QED
    BY <2>2, <1>1
<1> QED
  BY <1>5, <1>6, <1>7 DEF c, f

\* The registers a squash releases.
LEMMA ReleasedSeq ==
  ASSUME TypeOK, NEW U \in SUBSET (1 .. Len(historyBuffer)), NEW C \in SUBSET U
  PROVE  /\ Released(U, C) \in Seq(PhysRegs)
         /\ Len(Released(U, C)) = Cardinality(U \ C)
         /\ Elements(Released(U, C)) = {historyBuffer[i].new : i \in U \ C}
         /\ (\A i, j \in U : historyBuffer[i].new = historyBuffer[j].new => i = j)
            => Distinct(Released(U, C))
<1>n. Len(historyBuffer) \in Nat
  BY HistoryTypes
<1> DEFINE S == U \ C
           c == Cardinality(S)
           e == InOrder(S)
           f == Released(U, C)
<1>s. S \in SUBSET (1 .. Len(historyBuffer)) /\ S \subseteq U
  OBVIOUS
<1>1. /\ c \in Nat /\ DOMAIN e = 1 .. c
      /\ \A i \in 1 .. c : e[i] \in S
      /\ \A i, j \in 1 .. c : e[i] = e[j] => i = j
      /\ \A x \in S : \E i \in 1 .. c : e[i] = x
  BY <1>n, <1>s, InOrderEnumerates
<1>2. f = [i \in 1 .. c |-> historyBuffer[e[c + 1 - i]].new]
  BY <1>1 DEF Released
<1>3. \A x \in S : historyBuffer[x].new \in PhysRegs
  BY <1>s, HistoryTypes
<1> HIDE DEF c, e, f, S
<1>4. \A i \in 1 .. c : c + 1 - i \in 1 .. c /\ c + 1 - (c + 1 - i) = i
  BY <1>1
<1>5. \A i \in 1 .. c : e[c + 1 - i] \in S
  BY <1>1, <1>4
<1>6. \A i \in 1 .. c : historyBuffer[e[c + 1 - i]].new \in PhysRegs
  BY <1>3, <1>5
<1>7. f \in Seq(PhysRegs) /\ Len(f) = c /\ DOMAIN f = 1 .. c
  BY <1>1, <1>2, <1>6
<1>8. Elements(f) = {historyBuffer[i].new : i \in S}
  <2>1. \A x \in Elements(f) : x \in {historyBuffer[i].new : i \in S}
    BY <1>2, <1>5, <1>7 DEF Elements
  <2>2. ASSUME NEW x \in S PROVE historyBuffer[x].new \in Elements(f)
    <3>1. PICK i \in 1 .. c : e[i] = x
      BY <1>1
    <3>2. c + 1 - i \in DOMAIN f /\ f[c + 1 - i] = historyBuffer[x].new
      BY <3>1, <1>2, <1>4, <1>7
    <3> QED
      BY <3>2 DEF Elements
  <2> QED
    BY <2>1, <2>2
<1>9. ASSUME \A i, j \in U : historyBuffer[i].new = historyBuffer[j].new => i = j
      PROVE  Distinct(f)
  <2> SUFFICES ASSUME NEW i \in 1 .. c, NEW j \in 1 .. c, f[i] = f[j] PROVE i = j
    BY <1>7 DEF Distinct
  <2>1. PICK x, y \in 1 .. c : x = c + 1 - i /\ y = c + 1 - j
    BY <1>4
  <2>2. historyBuffer[e[x]].new = historyBuffer[e[y]].new
    BY <2>1, <1>2
  <2>3. e[x] \in U /\ e[y] \in U
    BY <1>1, <1>s
  <2>5. e[x] = e[y]
    BY <2>2, <2>3, <1>9
  <2>4. x = y
    BY <2>5, <1>1
  <2> QED
    BY <2>1, <2>4, <1>1
<1> QED
  BY <1>7, <1>8, <1>9 DEF c, f, S

\* The map a squash restores, without CHOOSE.
LEMMA RestoredValue ==
  ASSUME TypeOK, NEW U \in SUBSET (1 .. Len(historyBuffer)), NEW a \in ArchRegs
  PROVE  \/ /\ \A i \in U : historyBuffer[i].arch # a
            /\ Restored(U)[a] = renameMap[a]
         \/ \E i \in U : /\ historyBuffer[i].arch = a
                         /\ \A j \in U : historyBuffer[j].arch = a => i <= j
                         /\ Restored(U)[a] = historyBuffer[i].prev
<1> DEFINE mine == {i \in U : historyBuffer[i].arch = a}
           first == CHOOSE i \in mine : \A j \in mine : i <= j
<1>1. CASE mine = {}
  BY <1>1 DEF Restored
<1>2. CASE mine # {}
  <2>0. Len(historyBuffer) \in Nat
    BY HistoryTypes
  <2>a. \A i \in 1 .. Len(historyBuffer) : i \in Nat
    BY <2>0
  <2>1. mine \in SUBSET Nat
    BY <2>a, Zenon
  <2>2. \E i \in mine : \A j \in mine : i <= j
    BY <2>1, <1>2, SetHasMin
  <2>3. first \in mine /\ \A j \in mine : first <= j
    BY <2>2, Zenon
  <2>4. Restored(U)[a] = historyBuffer[first].prev
    BY <1>2 DEF Restored
  <2> HIDE DEF first
  <2> QED
    BY <2>3, <2>4
<1> QED
  BY <1>1, <1>2

\* It is a map.
LEMMA RestoredType ==
  ASSUME TypeOK, NEW U \in SUBSET (1 .. Len(historyBuffer))
  PROVE  Restored(U) \in [ArchRegs -> PhysRegs]
<1>1. \A i \in U : historyBuffer[i].prev \in PhysRegs
  BY HistoryTypes
<1>2. \A a \in ArchRegs : Restored(U)[a] \in PhysRegs
  BY <1>1, RestoredValue DEF TypeOK
<1>3. DOMAIN Restored(U) = ArchRegs /\ Restored(U) = [a \in ArchRegs |-> Restored(U)[a]]
  BY DEF Restored
<1> QED
  BY <1>2, <1>3, Zenon

----------------------------------------------------------------------------
\* Both loops of rename.cc leave alone what is not theirs and keep the types.
LEMMA RetireHistoryTypes ==
  ASSUME ChaosTypeOK, NEW sn \in 0 .. doneSeqNum, RetireHistory(sn)
  PROVE  ChaosTypeOK'
<1> DEFINE H == historyBuffer
<1>t. TypeOK
  BY DEF ChaosTypeOK
<1>1. PICK k \in 1 .. Len(H) :
        /\ freeList' = freeList \o Freed({i \in 1 .. k : Renamed(H[i])})
        /\ H' = SubSeq(H, k + 1, Len(H))
  BY DEF RetireHistory, Freed
<1>2. UNCHANGED <<renameMap, commitRenameMap, freeingInProgress, window, seqNum,
                  doneSeqNum, mode, faultCount, stuckMappings, leaked, marked, popped>>
  BY DEF RetireHistory, chaosVars
<1> DEFINE S == {i \in 1 .. k : Renamed(H[i])}
<1>3. S \in SUBSET (1 .. Len(H)) /\ Len(H) \in Nat
  BY <1>t, HistoryTypes
<1>4. Freed(S) \in Seq(PhysRegs)
  BY <1>t, <1>3, FreedSeq
<1> HIDE DEF S
<1>5. freeList' \in Seq(PhysRegs)
  BY <1>t, <1>1, <1>4 DEF S, TypeOK
<1>6. H' \in Seq(RenameHistory)
  BY <1>t, <1>1, <1>3 DEF TypeOK
<1>7. TypeOK'
  BY <1>t, <1>2, <1>5, <1>6 DEF TypeOK
<1> QED
  BY <1>2, <1>7 DEF ChaosTypeOK

\* The same for the loop of doSquash.
LEMMA SquashHistoryTypes ==
  ASSUME ChaosTypeOK, NEW sn \in doneSeqNum .. seqNum, SquashHistory(sn)
  PROVE  ChaosTypeOK'
<1> DEFINE H == historyBuffer
           Undone(k) == {i \in k + 1 .. Len(H) : Renamed(H[i])}
<1>t. TypeOK
  BY DEF ChaosTypeOK
<1>1. PICK k \in 0 .. Len(H) :
        /\ renameMap' = Restored(Undone(k))
        /\ H' = SubSeq(H, 1, k)
        /\ window' = {inst \in window : inst.seq <= sn}
        /\ \E leaks \in SUBSET Undone(k) :
             /\ freeingInProgress' = freeingInProgress \o Released(Undone(k), leaks)
             /\ leaked' = leaked \cup {H[i].new : i \in leaks}
             /\ faultCount' = faultCount + Cardinality(leaks)
        /\ UNCHANGED <<commitRenameMap, freeList, seqNum, doneSeqNum, mode,
                       stuckMappings, marked, popped>>
  BY DEF SquashHistory
<1> DEFINE U == Undone(k)
<1>2. PICK leaks \in SUBSET U :
             /\ freeingInProgress' = freeingInProgress \o Released(U, leaks)
             /\ leaked' = leaked \cup {H[i].new : i \in leaks}
             /\ faultCount' = faultCount + Cardinality(leaks)
  BY <1>1
<1>3. U \in SUBSET (1 .. Len(H)) /\ Len(H) \in Nat
  BY <1>t, HistoryTypes
<1>r. renameMap' = Restored(U)
  BY <1>1
<1> HIDE DEF U
<1>4. leaks \in SUBSET (1 .. Len(H))
  BY <1>2, <1>3
<1>5. /\ Released(U, leaks) \in Seq(PhysRegs)
      /\ Restored(U) \in [ArchRegs -> PhysRegs]
      /\ Cardinality(leaks) \in Nat
      /\ {H[i].new : i \in leaks} \subseteq PhysRegs
  BY <1>t, <1>2, <1>3, <1>4, ReleasedSeq, RestoredType, PositionsFinite, HistoryTypes
<1>6. freeingInProgress' \in Seq(PhysRegs)
  BY <1>t, <1>2, <1>5 DEF TypeOK
<1>7. H' \in Seq(RenameHistory)
  BY <1>t, <1>1, <1>3 DEF TypeOK
<1>8. TypeOK'
  BY <1>t, <1>1, <1>r, <1>5, <1>6, <1>7 DEF TypeOK
<1>9. faultCount' \in Nat /\ leaked' \subseteq PhysRegs
  BY <1>2, <1>5 DEF ChaosTypeOK
<1> QED
  BY <1>1, <1>8, <1>9 DEF ChaosTypeOK

\* No step, faulty or not, makes a map or a list name a register the
\* register file does not have.
LEMMA ChaosNextTypes == ChaosTypeOK /\ [ChaosNext]_allVars => ChaosTypeOK'
<1> SUFFICES ASSUME ChaosTypeOK, [ChaosNext]_allVars PROVE ChaosTypeOK'
  OBVIOUS
<1>t. TypeOK
  BY DEF ChaosTypeOK
<1>1. CASE UNCHANGED allVars
  <2>1. UNCHANGED vars /\ UNCHANGED chaosVars
    BY <1>1 DEF allVars
  <2>2. TypeOK'
    BY <2>1, <1>t, NextTypeOK
  <2> QED
    BY <2>1, <2>2 DEF ChaosTypeOK, chaosVars
<1>2. CASE /\ \/ \E s \in ArchRegs : RenameNoDest(s)
              \/ \E s, d \in ArchRegs : RenameDest(s, d)
              \/ \E inst \in window : Commit(inst)
              \/ FreeSquashed
           /\ UNCHANGED chaosVars
  <2>1. TypeOK'
    BY <1>2, <1>t, NextTypeOK DEF Next
  <2> QED
    BY <1>2, <2>1 DEF ChaosTypeOK, chaosVars
<1>3. ASSUME NEW a \in ArchRegs, NEW p \in PhysRegs, Remap(a, p)
      PROVE  /\ TypeOK' /\ faultCount' \in Nat
             /\ UNCHANGED <<mode, leaked, marked, popped>>
  <2>1. renameMap' \in [ArchRegs -> PhysRegs]
    BY <1>3, <1>t DEF Remap, TypeOK
  <2>2. TypeOK'
    BY <2>1, <1>3, <1>t DEF Remap, TypeOK
  <2> QED
    BY <2>2, <1>3 DEF Remap, ChaosTypeOK
<1>4. \A a \in ArchRegs : renameMap[a] \in PhysRegs
  BY <1>t DEF TypeOK
<1>5. ASSUME NEW a \in ArchRegs, NEW b \in MaskBits, MapBitFlip(a, b)
      PROVE  ChaosTypeOK'
  BY <1>3, <1>5 DEF MapBitFlip, ChaosTypeOK
<1>6. ASSUME NEW a \in ArchRegs, NEW donor \in ArchRegs, F5Substitute(a, donor)
      PROVE  ChaosTypeOK'
  BY <1>3, <1>4, <1>6 DEF F5Substitute, ChaosTypeOK
<1>7. ASSUME NEW a \in ArchRegs, NEW donor \in ArchRegs, F4FieldStuck(a, donor)
      PROVE  ChaosTypeOK'
  <2>1. /\ DOMAIN stuckMappings' = DOMAIN stuckMappings \cup {a}
        /\ \A x \in DOMAIN stuckMappings' :
              stuckMappings'[x] = IF x = a THEN renameMap[donor] ELSE stuckMappings[x]
    BY <1>7 DEF F4FieldStuck
  <2>2. /\ DOMAIN stuckMappings' \subseteq ArchRegs
        /\ \A x \in DOMAIN stuckMappings' : stuckMappings'[x] \in PhysRegs
    BY <2>1, <1>4 DEF ChaosTypeOK
  <2>3. Remap(a, renameMap[donor])
    BY <1>7 DEF F4FieldStuck
  <2> QED
    BY <2>2, <2>3, <1>3, <1>4 DEF ChaosTypeOK
<1>8. ASSUME NEW p \in PhysRegs, MarkFree(p) PROVE ChaosTypeOK'
  <2>1. /\ Append(freeList, p) \in Seq(PhysRegs)
        /\ Head(Append(freeList, p)) \in PhysRegs
        /\ Tail(Append(freeList, p)) \in Seq(PhysRegs)
    <3> DEFINE q == Append(freeList, p)
    <3>1. q \in Seq(PhysRegs) /\ q # <<>>
      BY <1>t DEF TypeOK
    <3> HIDE DEF q
    <3>2. Head(q) \in PhysRegs /\ Tail(q) \in Seq(PhysRegs)
      BY <3>1
    <3> QED
      BY <3>1, <3>2 DEF q
  <2>2. freeList' \in Seq(PhysRegs) /\ popped' \in PhysRegs \cup {NoReg}
    BY <2>1, <1>8 DEF MarkFree, ChaosTypeOK
  <2>3. TypeOK'
    BY <2>2, <1>8, <1>t DEF MarkFree, TypeOK
  <2> QED
    BY <2>2, <2>3, <1>8 DEF MarkFree, ChaosTypeOK
<1>9. CASE CheckPermanent
  <2>1. renameMap' \in [ArchRegs -> PhysRegs]
    BY <1>4, <1>9 DEF CheckPermanent, ChaosTypeOK
  <2>2. TypeOK'
    BY <2>1, <1>9, <1>t DEF CheckPermanent, TypeOK
  <2> QED
    BY <2>2, <1>9 DEF CheckPermanent, ChaosTypeOK, chaosVars
<1>10. CASE CPUStep
  BY <1>2, <1>10, RetireHistoryTypes, SquashHistoryTypes DEF CPUStep
<1>11. CASE Inject
  BY <1>5, <1>6, <1>7, <1>8, <1>9, <1>11 DEF Inject, Targets
<1> QED
  BY <1>1, <1>10, <1>11 DEF ChaosNext

----------------------------------------------------------------------------
\* The entries that own a register, and those up to and after position k.
RenamedEntries == {i \in DOMAIN historyBuffer : Renamed(historyBuffer[i])}
RenamedUpTo(k) == {i \in 1 .. k : Renamed(historyBuffer[i])}
RenamedAfter(k) == {i \in k + 1 .. Len(historyBuffer) : Renamed(historyBuffer[i])}

\* Every entry that owns a register is either up to k or after it.
LEMMA EntriesSplit ==
  ASSUME TypeOK, NEW k \in 0 .. Len(historyBuffer)
  PROVE  /\ Cardinality(RenamedEntries) \in Nat /\ Cardinality(RenamedUpTo(k)) \in Nat
         /\ Cardinality(RenamedAfter(k)) \in Nat
         /\ Cardinality(RenamedEntries) =
              Cardinality(RenamedUpTo(k)) + Cardinality(RenamedAfter(k))
<1> DEFINE n == Len(historyBuffer)
<1>0. n \in Nat /\ DOMAIN historyBuffer = 1 .. n
  BY HistoryTypes
<1>1. /\ RenamedEntries \in SUBSET (1 .. n) /\ RenamedUpTo(k) \in SUBSET (1 .. n)
      /\ RenamedAfter(k) \in SUBSET (1 .. n)
  BY <1>0 DEF RenamedEntries, RenamedUpTo, RenamedAfter
<1>2. /\ IsFiniteSet(RenamedUpTo(k)) /\ IsFiniteSet(RenamedAfter(k))
      /\ Cardinality(RenamedEntries) \in Nat /\ Cardinality(RenamedUpTo(k)) \in Nat
      /\ Cardinality(RenamedAfter(k)) \in Nat
  BY <1>0, <1>1, PositionsFinite
<1>3. RenamedEntries = RenamedUpTo(k) \cup RenamedAfter(k)
  <2>1. \A i : i \in 1 .. n <=> (i \in 1 .. k \/ i \in k + 1 .. n)
    BY <1>0
  <2> QED
    BY <1>0, <2>1 DEF RenamedEntries, RenamedUpTo, RenamedAfter
<1>4. RenamedUpTo(k) \cap RenamedAfter(k) = {}
  <2>1. \A i : ~(i \in 1 .. k /\ i \in k + 1 .. n)
    BY <1>0
  <2> QED
    BY <2>1, Zenon DEF RenamedUpTo, RenamedAfter
<1>5. Cardinality(RenamedUpTo(k) \cap RenamedAfter(k)) = 0
  BY <1>4, FS_EmptySet
<1>6. Cardinality(RenamedUpTo(k) \cup RenamedAfter(k)) =
        Cardinality(RenamedUpTo(k)) + Cardinality(RenamedAfter(k))
          - Cardinality(RenamedUpTo(k) \cap RenamedAfter(k))
  BY <1>2, FS_Union, Zenon
<1> QED
  BY <1>2, <1>3, <1>5, <1>6

\* Dropping the k oldest entries leaves as many that own a register.
LEMMA EntriesRetired ==
  ASSUME TypeOK, NEW k \in 1 .. Len(historyBuffer),
         historyBuffer' = SubSeq(historyBuffer, k + 1, Len(historyBuffer))
  PROVE  /\ Cardinality(RenamedEntries') \in Nat
         /\ Cardinality(RenamedEntries') <= Cardinality(RenamedAfter(k))
<1> DEFINE H == historyBuffer
           n == Len(H)
           g == [i \in RenamedEntries' |-> i + k]
<1>0. n \in Nat /\ DOMAIN H = 1 .. n
  BY HistoryTypes
<1>1. DOMAIN H' = 1 .. n - k /\ \A i \in 1 .. n - k : H'[i] = H[i + k] /\ i + k \in k + 1 .. n
  <2>1. DOMAIN H' = 1 .. n - k /\ \A i \in 1 .. n - k : H'[i] = H[i + k]
    BY <1>0 DEF TypeOK
  <2> QED
    BY <2>1, <1>0
<1>2. RenamedEntries' \in SUBSET (1 .. n - k)
  BY <1>1 DEF RenamedEntries
<1>3. \A i \in RenamedEntries' : i + k \in RenamedAfter(k)
  BY <1>1 DEF RenamedEntries, RenamedAfter, Renamed
<1>4. \A i, j \in RenamedEntries' : i + k = j + k => i = j
  BY <1>0, <1>2
<1>5. g \in Injection(RenamedEntries', RenamedAfter(k))
  BY <1>3, <1>4 DEF Injection, IsInjective
<1>6. RenamedAfter(k) \in SUBSET (1 .. n)
  BY <1>0 DEF RenamedAfter
<1>7. IsFiniteSet(RenamedAfter(k))
  BY <1>0, <1>6, PositionsFinite
<1>8. n - k \in Nat
  BY <1>0
<1> HIDE DEF g, n
<1> QED
  BY <1>2, <1>5, <1>7, <1>8, FS_Injection, PositionsFinite

\* Keeping the k oldest entries.
LEMMA EntriesKept ==
  ASSUME TypeOK, NEW k \in 0 .. Len(historyBuffer),
         historyBuffer' = SubSeq(historyBuffer, 1, k)
  PROVE  RenamedEntries' = RenamedUpTo(k)
<1>1. DOMAIN historyBuffer' = 1 .. k /\ \A i \in 1 .. k : historyBuffer'[i] = historyBuffer[i]
  BY HistoryTypes DEF TypeOK
<1> QED
  BY <1>1 DEF RenamedEntries, RenamedUpTo, Renamed

\* One more entry.
LEMMA EntriesAdded ==
  ASSUME TypeOK, NEW h, historyBuffer' = Append(historyBuffer, h)
  PROVE  /\ Cardinality(RenamedEntries) \in Nat /\ Cardinality(RenamedEntries') \in Nat
         /\ Cardinality(RenamedEntries') <= Cardinality(RenamedEntries) + 1
<1> DEFINE H == historyBuffer
           n == Len(H)
<1>0. n \in Nat /\ DOMAIN H = 1 .. n
  BY HistoryTypes
<1>1. DOMAIN H' = 1 .. n + 1 /\ \A i \in 1 .. n : H'[i] = H[i]
  BY <1>0 DEF TypeOK
<1>2. RenamedEntries \in SUBSET (1 .. n) /\ RenamedEntries' \in SUBSET (1 .. n + 1)
  BY <1>0, <1>1 DEF RenamedEntries
<1>3. /\ IsFiniteSet(RenamedEntries) /\ Cardinality(RenamedEntries) \in Nat
      /\ Cardinality(RenamedEntries') \in Nat
  <2>1. n + 1 \in Nat
    BY <1>0
  <2> QED
    BY <2>1, <1>0, <1>2, PositionsFinite
<1>4. RenamedEntries' \in SUBSET (RenamedEntries \cup {n + 1})
  <2>1. \A i \in 1 .. n + 1 : i \in 1 .. n \/ i = n + 1
    BY <1>0
  <2> QED
    BY <2>1, <1>0, <1>1 DEF RenamedEntries, Renamed
<1>5. /\ IsFiniteSet(RenamedEntries \cup {n + 1})
      /\ Cardinality(RenamedEntries \cup {n + 1}) <= Cardinality(RenamedEntries) + 1
  <2>1. /\ IsFiniteSet(RenamedEntries \cup {n + 1})
        /\ Cardinality(RenamedEntries \cup {n + 1}) =
             IF n + 1 \in RenamedEntries THEN Cardinality(RenamedEntries)
             ELSE Cardinality(RenamedEntries) + 1
    BY <1>3, FS_AddElement, Zenon
  <2> QED
    BY <2>1, <1>3
<1>6. Cardinality(RenamedEntries') <= Cardinality(RenamedEntries \cup {n + 1})
  BY <1>4, <1>5, FS_Subset
<1>7. Cardinality(RenamedEntries \cup {n + 1}) \in Nat
  BY <1>5, FS_CardinalityType
<1> QED
  BY <1>3, <1>5, <1>6, <1>7

\* The slots a register can be owned from never outnumber the registers,
\* unless the free list itself is corrupted.
Conserved == mode \notin FreeListModes => OwnerSlots <= NumPhys

\* OwnerSlots, with the counts it adds up.
SlotsSum ==
    /\ OwnerSlots = Len(freeList) + Len(freeingInProgress) + NumArch
                      + Cardinality(RenamedEntries)
    /\ Len(freeList) \in Nat /\ Len(freeingInProgress) \in Nat
    /\ NumArch \in Nat /\ NumPhys \in Nat /\ Cardinality(RenamedEntries) \in Nat

\* The sum is what OwnerSlots is.
LEMMA SlotsCounted == TypeOK => SlotsSum
<1> SUFFICES ASSUME TypeOK PROVE SlotsSum
  OBVIOUS
<1>0. Len(historyBuffer) \in Nat
  BY HistoryTypes
<1>1. 0 \in 0 .. Len(historyBuffer)
  BY <1>0
<1>2. Cardinality(RenamedEntries) \in Nat
  BY <1>1, EntriesSplit
<1>3. OwnerSlots = Len(freeList) + Len(freeingInProgress) + NumArch
                           + Cardinality(RenamedEntries)
  BY DEF OwnerSlots, RenamedEntries
<1> QED
  BY <1>2, <1>3, SizesAssumption DEF TypeOK, SlotsSum

\* The same in the next state.
LEMMA SlotsCountedNext == TypeOK' => SlotsSum'
  BY SlotsCounted, PTL

\* The CPU starts with every register in one slot.
LEMMA InitConserved == ChaosInit => Conserved
<1> SUFFICES ASSUME ChaosInit PROVE OwnerSlots <= NumPhys
  BY DEF Conserved
<1>1. Init /\ TypeOK
  BY InitTypeOK DEF ChaosInit
<1>2. /\ Len(freeList) = NumPhys - NumArch /\ Len(freeingInProgress) = 0
      /\ historyBuffer = <<>>
  BY <1>1, SizesAssumption DEF Init
<1>3. RenamedEntries = {}
  BY <1>2 DEF RenamedEntries
<1>4. Cardinality(RenamedEntries) = 0
  BY <1>3, FS_EmptySet
<1> QED
  BY <1>1, <1>2, <1>4, SlotsCounted, SizesAssumption DEF SlotsSum

\* A rename moves a register from the free list to the map, and the one it
\* replaces to the history; the other operations move registers too.
LEMMA CPUConserves ==
  ASSUME ChaosTypeOK, ChaosTypeOK', CPUStep
  PROVE  OwnerSlots' <= OwnerSlots /\ OwnerSlots \in Nat /\ OwnerSlots' \in Nat
<1> DEFINE H == historyBuffer
           r == Cardinality(RenamedEntries)
           F == Len(freeList)
           G == Len(freeingInProgress)
<1>t. TypeOK /\ TypeOK'
  BY DEF ChaosTypeOK
<1>n. Len(H) \in Nat
  BY <1>t, HistoryTypes
<1>c. /\ OwnerSlots = F + G + NumArch + r
      /\ F \in Nat /\ G \in Nat /\ NumArch \in Nat /\ r \in Nat
  BY <1>t, SlotsCounted DEF SlotsSum
<1>d. /\ OwnerSlots' = F' + G' + NumArch + r'
      /\ F' \in Nat /\ G' \in Nat /\ r' \in Nat
  BY <1>t, SlotsCountedNext DEF SlotsSum
<1>s. SUFFICES F' + G' + r' <= F + G + r
  BY <1>s, <1>c, <1>d
<1>l. \A p, q \in Seq(PhysRegs) : Len(p \o q) = Len(p) + Len(q)
  OBVIOUS
<1>1. CASE /\ UNCHANGED <<freeList, freeingInProgress, historyBuffer>>
  <2>1. RenamedEntries' = RenamedEntries
    BY <1>1 DEF RenamedEntries, Renamed
  <2> QED
    BY <2>1, <1>1, <1>c
<1>2. ASSUME NEW s \in ArchRegs, NEW d \in ArchRegs, RenameDest(s, d)
      PROVE  F' + G' + r' <= F + G + r
  <2>1. F' = F - 1 /\ G' = G
    BY <1>2, <1>t DEF RenameDest, canRename, TypeOK
  <2>2. r' <= r + 1
    BY <1>2, <1>t, EntriesAdded DEF RenameDest
  <2> QED
    BY <2>1, <2>2, <1>c, <1>d
<1>3. CASE FreeSquashed
  <2>1. F' = F + G /\ G' = 0
    BY <1>3, <1>t, <1>l DEF FreeSquashed, TypeOK
  <2>2. RenamedEntries' = RenamedEntries
    BY <1>3 DEF RenamedEntries, Renamed, FreeSquashed
  <2> QED
    BY <2>1, <2>2, <1>c
<1>4. ASSUME NEW sn \in 0 .. doneSeqNum, RetireHistory(sn)
      PROVE  F' + G' + r' <= F + G + r
  <2>1. PICK k \in 1 .. Len(H) :
          /\ freeList' = freeList \o Freed(RenamedUpTo(k))
          /\ H' = SubSeq(H, k + 1, Len(H))
    BY <1>4 DEF RetireHistory, Freed, RenamedUpTo
  <2>2. RenamedUpTo(k) \in SUBSET (1 .. Len(H)) /\ k \in 0 .. Len(H)
    BY <1>n DEF RenamedUpTo
  <2>3. Freed(RenamedUpTo(k)) \in Seq(PhysRegs)
        /\ Len(Freed(RenamedUpTo(k))) = Cardinality(RenamedUpTo(k))
    BY <2>2, <1>t, FreedSeq
  <2>4. F' = F + Cardinality(RenamedUpTo(k))
    BY <2>1, <2>3, <1>t, <1>l DEF TypeOK
  <2>5. G' = G
    BY <1>4 DEF RetireHistory
  <2>6. r' <= Cardinality(RenamedAfter(k))
    BY <2>1, <1>t, EntriesRetired
  <2>7. /\ r = Cardinality(RenamedUpTo(k)) + Cardinality(RenamedAfter(k))
        /\ Cardinality(RenamedUpTo(k)) \in Nat /\ Cardinality(RenamedAfter(k)) \in Nat
    BY <2>2, <1>t, EntriesSplit
  <2> HIDE DEF r, F, G
  <2>8. PICK u, a, x \in Nat : /\ u = Cardinality(RenamedUpTo(k))
                               /\ a = Cardinality(RenamedAfter(k)) /\ x = r'
    BY <2>7, <1>d
  <2>9. F' = F + u /\ x <= a /\ r = u + a /\ r' = x
    BY <2>4, <2>6, <2>7, <2>8
  <2> QED
    BY <2>5, <2>9, <1>c
<1>5. ASSUME NEW sn \in doneSeqNum .. seqNum, SquashHistory(sn)
      PROVE  F' + G' + r' <= F + G + r
  <2>1. PICK k \in 0 .. Len(H) :
          /\ H' = SubSeq(H, 1, k)
          /\ \E leaks \in SUBSET RenamedAfter(k) :
               freeingInProgress' = freeingInProgress \o Released(RenamedAfter(k), leaks)
    BY <1>5 DEF SquashHistory, RenamedAfter
  <2> DEFINE U == RenamedAfter(k)
  <2>2. PICK leaks \in SUBSET U :
               freeingInProgress' = freeingInProgress \o Released(U, leaks)
    BY <2>1
  <2>3. U \in SUBSET (1 .. Len(H))
    BY <1>n DEF RenamedAfter
  <2>4. /\ Released(U, leaks) \in Seq(PhysRegs)
        /\ Len(Released(U, leaks)) = Cardinality(U \ leaks)
    BY <2>3, <1>t, ReleasedSeq
  <2>5. G' = G + Cardinality(U \ leaks)
    BY <2>2, <2>4, <1>t, <1>l DEF TypeOK
  <2>6. Cardinality(U \ leaks) <= Cardinality(U) /\ Cardinality(U \ leaks) \in Nat
    <3>1. IsFiniteSet(U)
      BY <2>3, <1>n, PositionsFinite
    <3>2. (U \ leaks) \in SUBSET U
      OBVIOUS
    <3> QED
      BY <3>1, <3>2, FS_Subset, FS_CardinalityType
  <2>7. F' = F
    BY <1>5 DEF SquashHistory
  <2>8. r' = Cardinality(RenamedUpTo(k))
    BY <2>1, <1>t, EntriesKept
  <2>9. /\ r = Cardinality(RenamedUpTo(k)) + Cardinality(U)
        /\ Cardinality(RenamedUpTo(k)) \in Nat /\ Cardinality(U) \in Nat
    BY <1>t, EntriesSplit
  <2> HIDE DEF r, F, G, U
  <2>10. PICK u, a, x \in Nat : /\ u = Cardinality(RenamedUpTo(k))
                                /\ a = Cardinality(U) /\ x = Cardinality(U \ leaks)
    BY <2>6, <2>9
  <2>11. G' = G + x /\ x <= a /\ r = u + a /\ r' = u
    BY <2>5, <2>6, <2>8, <2>9, <2>10
  <2> QED
    BY <2>7, <2>11, <1>c
<1>6. ASSUME NEW s \in ArchRegs, RenameNoDest(s) PROVE F' + G' + r' <= F + G + r
  BY <1>1, <1>6 DEF RenameNoDest
<1>7. ASSUME NEW inst \in window, Commit(inst) PROVE F' + G' + r' <= F + G + r
  BY <1>1, <1>7 DEF Commit
<1> QED
  BY <1>2, <1>3, <1>4, <1>5, <1>6, <1>7 DEF CPUStep

\* A fault in the rename map touches no other structure.
LEMMA InjectConserves ==
  ASSUME ChaosTypeOK, ChaosTypeOK', Inject, mode \notin FreeListModes
  PROVE  OwnerSlots' = OwnerSlots
<1>1. UNCHANGED <<freeList, freeingInProgress, historyBuffer>>
  BY DEF Inject, MapBitFlip, F5Substitute, F4FieldStuck, Remap, MarkFree, CheckPermanent
<1> QED
  BY <1>1 DEF OwnerSlots, Renamed

\* The injectors' types and the conservation of owner slots, together.
ChaosInv == ChaosTypeOK /\ Conserved

\* It holds initially.
LEMMA ChaosInitInv == ChaosInit => ChaosInv
<1> SUFFICES ASSUME ChaosInit PROVE ChaosInv
  OBVIOUS
<1>1. TypeOK
  BY InitTypeOK DEF ChaosInit
<1>2. ChaosTypeOK
  BY <1>1, ChaosAssumption DEF ChaosInit, ChaosTypeOK
<1> QED
  BY <1>2, InitConserved DEF ChaosInv

\* Every step keeps it.
LEMMA ChaosNextInv == ChaosInv /\ [ChaosNext]_allVars => ChaosInv'
<1> SUFFICES ASSUME ChaosInv, [ChaosNext]_allVars PROVE ChaosInv'
  OBVIOUS
<1>1. ChaosTypeOK /\ ChaosTypeOK'
  BY ChaosNextTypes DEF ChaosInv
<1>m. mode' = mode
  BY DEF ChaosNext, CPUStep, Inject, allVars, chaosVars, RetireHistory, SquashHistory,
         MapBitFlip, F5Substitute, F4FieldStuck, Remap, MarkFree, CheckPermanent
<1>2. SUFFICES ASSUME mode \notin FreeListModes PROVE OwnerSlots' <= NumPhys
  BY <1>1, <1>m DEF ChaosInv, Conserved
<1>3. OwnerSlots <= NumPhys /\ NumPhys \in Nat
  BY <1>2, SizesAssumption DEF ChaosInv, Conserved
<1>4. CASE CPUStep
  <2>1. OwnerSlots' <= OwnerSlots /\ OwnerSlots \in Nat /\ OwnerSlots' \in Nat
    BY <1>1, <1>4, CPUConserves
  <2> QED
    BY <2>1, <1>3
<1>5. CASE Inject
  BY <1>1, <1>2, <1>3, <1>5, InjectConserves
<1>6. CASE UNCHANGED allVars
  <2>1. OwnerSlots' = OwnerSlots
    BY <1>6 DEF allVars, vars, OwnerSlots, Renamed
  <2> QED
    BY <2>1, <1>3
<1> QED
  BY <1>4, <1>5, <1>6 DEF ChaosNext

\* Under any injector no map, list or history entry ever names a register
\* the register file does not have, and faults in the rename map or the
\* spec_leak hook never create an owner slot.
THEOREM ChaosInvariance == ChaosSpec => []ChaosInv
  BY ChaosInitInv, ChaosNextInv, PTL DEF ChaosSpec

\* setEntry on the front map is never followed by a release: whatever the
\* two history loops free afterwards, RAT faults do not make the lists, the
\* map and the history hold more registers than exist.
THEOREM RATConserves == ChaosSpec => []RATFaultsConserve
<1>1. ChaosInv => RATFaultsConserve
  BY DEF ChaosInv, Conserved, RATFaultsConserve, RATModes, FreeListModes
<1> QED
  BY <1>1, ChaosInvariance, PTL

----------------------------------------------------------------------------
\* What spec_leak leaves: the renaming state is sound but for the leaked
\* registers, and there are as many of them as faults.
LeakInv ==
    mode = "spec_leak" =>
        /\ Lossy(leaked)
        /\ Cardinality(leaked) = faultCount

\* Lossy speaks of the set, whatever names it.
LEMMA LossyRigid ==
  ASSUME NEW L
  PROVE  /\ L = leaked => (Lossy(L) <=> Lossy(leaked))
         /\ L = leaked' => (Lossy(L)' <=> Lossy(leaked)')
  BY DEF Lossy, Accounted

\* Nothing has leaked yet.
LEMMA InitLeakInv == ChaosInit => LeakInv
<1> SUFFICES ASSUME ChaosInit PROVE Lossy(leaked) /\ Cardinality(leaked) = faultCount
  BY DEF LeakInv
<1>1. Init /\ leaked = {} /\ faultCount = 0
  BY DEF ChaosInit
<1>2. Lossy({})
  BY <1>1, InitIInv, LossyNothing
<1> QED
  BY <1>1, <1>2, FS_EmptySet

\* With no double owner every entry owns a register, so both loops handle
\* every entry.
LEMMA LossyAllRenamed ==
  ASSUME NEW L, Lossy(L), NEW k \in 0 .. Len(historyBuffer)
  PROVE  /\ RenamedUpTo(k) = 1 .. k
         /\ RenamedAfter(k) = k + 1 .. Len(historyBuffer)
<1>1. RenameChanges /\ TypeOK
  BY LossyChanges DEF Lossy
<1>2. DOMAIN historyBuffer = 1 .. Len(historyBuffer) /\ Len(historyBuffer) \in Nat
  BY <1>1, HistoryTypes
<1>3. \A i \in 1 .. Len(historyBuffer) : Renamed(historyBuffer[i])
  BY <1>1, <1>2 DEF RenameChanges, Renamed
<1> QED
  BY <1>2, <1>3 DEF RenamedUpTo, RenamedAfter

\* Undoing all the entries after k is what RegRename's doSquash does.
LEMMA RestoredIsUndone ==
  ASSUME TypeOK, NEW k \in 0 .. Len(historyBuffer)
  PROVE  Restored(k + 1 .. Len(historyBuffer)) = UndoneMap(k)
<1> DEFINE H == historyBuffer
           U == k + 1 .. Len(H)
<1>0. Len(H) \in Nat /\ U \in SUBSET (1 .. Len(H)) /\ \A i \in U : i \in Nat
  BY HistoryTypes
<1>1. ASSUME NEW a \in ArchRegs PROVE Restored(U)[a] = UndoneMap(k)[a]
  <2>1. \/ /\ \A i \in U : H[i].arch # a
           /\ Restored(U)[a] = renameMap[a]
        \/ \E i \in U : /\ H[i].arch = a
                        /\ \A j \in U : H[j].arch = a => i <= j
                        /\ Restored(U)[a] = H[i].prev
    BY <1>0, RestoredValue
  <2>2. \/ /\ \A i \in U : H[i].arch # a
           /\ UndoneMap(k)[a] = renameMap[a]
        \/ \E i \in U : FirstUndone(k, a, i) /\ UndoneMap(k)[a] = H[i].prev
    BY UndoneMapValue
  <2>3. CASE \A i \in U : H[i].arch # a
    BY <2>1, <2>2, <2>3 DEF FirstUndone
  <2>4. CASE ~(\A i \in U : H[i].arch # a)
    <3>1. PICK i \in U : /\ H[i].arch = a
                         /\ \A j \in U : H[j].arch = a => i <= j
                         /\ Restored(U)[a] = H[i].prev
      BY <2>1, <2>4
    <3>2. PICK j \in U : FirstUndone(k, a, j) /\ UndoneMap(k)[a] = H[j].prev
      BY <2>2, <2>4
    <3>3. H[j].arch = a /\ \A m \in k + 1 .. j - 1 : H[m].arch # a
      BY <3>2 DEF FirstUndone
    <3>4. i <= j
      BY <3>1, <3>3
    <3>5. i \notin k + 1 .. j - 1
      BY <3>1, <3>3
    <3>6. i = j
      BY <3>4, <3>5, <1>0
    <3> QED
      BY <3>1, <3>2, <3>6
  <2> QED
    BY <2>3, <2>4
<1>2. /\ Restored(U) \in [ArchRegs -> PhysRegs]
      /\ UndoneMap(k) \in [ArchRegs -> PhysRegs]
  BY <1>0, RestoredType, UndoneMapType
<1> HIDE DEF U
<1>3. Restored(U) = UndoneMap(k)
  BY <1>1, <1>2
<1> QED
  BY <1>3 DEF U

\* Retiring in a run with spec_leak.
LEMMA RetireLeaks ==
  ASSUME NEW L, Lossy(L), TypeOK', NEW sn \in 0 .. doneSeqNum, RetireHistory(sn)
  PROVE  Lossy(L)'
<1> DEFINE H == historyBuffer
<1>t. TypeOK /\ NoDoubleOwner
  BY DEF Lossy
<1>n. Len(H) \in Nat /\ DOMAIN H = 1 .. Len(H)
  BY <1>t, HistoryTypes
<1>1. PICK k \in 1 .. Len(H) :
        /\ OldEntries(sn, k)
        /\ freeList' = freeList \o Freed(RenamedUpTo(k))
        /\ H' = SubSeq(H, k + 1, Len(H))
        /\ UNCHANGED <<renameMap, commitRenameMap, freeingInProgress, window,
                       seqNum, doneSeqNum>>
  BY DEF RetireHistory, Freed, RenamedUpTo
<1>2. RenamedUpTo(k) = 1 .. k /\ (1 .. k) \in SUBSET (1 .. Len(H))
  <2>1. k \in 0 .. Len(H)
    BY <1>n
  <2> QED
    BY <2>1, <1>n, LossyAllRenamed
<1>3. \A i, j \in 1 .. k : H[i].prev = H[j].prev => i = j
  BY <1>t, <1>n, <1>2 DEF NoDoubleOwner
<1>4. /\ Freed(1 .. k) \in Seq(PhysRegs) /\ Distinct(Freed(1 .. k))
      /\ Elements(Freed(1 .. k)) = {H[i].prev : i \in 1 .. k}
  BY <1>t, <1>2, <1>3, FreedSeq
<1>5. RetireStep(sn, k, Freed(1 .. k))
  BY <1>1, <1>2, <1>4 DEF RetireStep
<1>f. PICK f : f = Freed(1 .. k)
  OBVIOUS
<1>6. \E q \in 1 .. Len(H) : RetireStep(sn, q, f)
  BY <1>5, <1>f
<1> QED
  BY <1>6, RetireKeeps

\* A squash in a run with spec_leak: exactly the claimed registers are lost.
LEMMA SquashLeaks ==
  ASSUME NEW L, Lossy(L), L \in SUBSET PhysRegs, L = leaked, TypeOK',
         NEW sn \in doneSeqNum .. seqNum, SquashHistory(sn)
  PROVE  /\ Lossy(leaked)'
         /\ \E m \in Nat : /\ faultCount' = faultCount + m
                           /\ Cardinality(leaked') = Cardinality(L) + m
<1> DEFINE H == historyBuffer
           n == Len(H)
<1>t. TypeOK
  BY DEF Lossy
<1>n. n \in Nat /\ DOMAIN H = 1 .. n
  BY <1>t, HistoryTypes
<1>1. PICK k \in 0 .. n :
        /\ OldEntries(sn, k)
        /\ renameMap' = Restored(RenamedAfter(k))
        /\ H' = SubSeq(H, 1, k)
        /\ window' = {inst \in window : inst.seq <= sn}
        /\ \E leaks \in SUBSET RenamedAfter(k) :
             /\ freeingInProgress' =
                  freeingInProgress \o Released(RenamedAfter(k), leaks)
             /\ leaked' = leaked \cup {H[i].new : i \in leaks}
             /\ faultCount' = faultCount + Cardinality(leaks)
        /\ UNCHANGED <<commitRenameMap, freeList, seqNum, doneSeqNum>>
  BY DEF SquashHistory, RenamedAfter
<1> DEFINE U == k + 1 .. n
<1>2. RenamedAfter(k) = U /\ U \in SUBSET (1 .. n)
  BY <1>n, LossyAllRenamed
<1>3. PICK leaks \in SUBSET U :
             /\ freeingInProgress' = freeingInProgress \o Released(U, leaks)
             /\ leaked' = leaked \cup {H[i].new : i \in leaks}
             /\ faultCount' = faultCount + Cardinality(leaks)
  BY <1>1, <1>2
<1>4. renameMap' = UndoneMap(k)
  BY <1>1, <1>2, <1>t, RestoredIsUndone
<1>d. /\ \A i, j \in 1 .. n : H[i].new = H[j].new => i = j
      /\ \A i \in 1 .. n : H[i].new \in Mapped \cup Prevs
  BY NewsDistinct
<1>5. \A i, j \in U : H[i].new = H[j].new => i = j
  BY <1>2, <1>d
<1>6. /\ Released(U, leaks) \in Seq(PhysRegs)
      /\ Elements(Released(U, leaks)) = {H[i].new : i \in U \ leaks}
      /\ Distinct(Released(U, leaks))
  BY <1>t, <1>2, <1>5, ReleasedSeq
<1>f. PICK f, C : f = Released(U, leaks) /\ C = {H[i].new : i \in leaks}
  OBVIOUS
<1> HIDE DEF U
<1>7. Elements(f) \cup C = {H[i].new : i \in U}
  BY <1>6, <1>f
<1>8. Elements(f) \cap C = {}
  BY <1>5, <1>6, <1>f
<1>9. SquashStep(sn, k, f, C)
  BY <1>1, <1>3, <1>4, <1>6, <1>7, <1>8, <1>f DEF SquashStep, U
<1>10. \E q \in 0 .. Len(H) : SquashStep(sn, q, f, C)
  BY <1>9
<1>11. Lossy(L \cup C)'
  BY <1>10, SquashKeeps
<1>12. leaked' = L \cup C
  BY <1>3, <1>f
<1>13. Lossy(leaked)'
  <2>1. PICK M : M = L \cup C
    OBVIOUS
  <2>2. Lossy(M)'
    BY <2>1, <1>11
  <2> QED
    BY <2>1, <2>2, <1>12, LossyRigid
<1>14. /\ IsFiniteSet(leaks) /\ Cardinality(leaks) \in Nat
       /\ IsFiniteSet(C) /\ Cardinality(C) = Cardinality(leaks)
  <2>1. IsFiniteSet(leaks) /\ Cardinality(leaks) \in Nat
    BY <1>2, <1>3, <1>n, PositionsFinite
  <2> DEFINE g == [i \in leaks |-> H[i].new]
  <2>2. g \in Bijection(leaks, C)
    BY <1>3, <1>5, <1>f DEF Bijection, Injection, Surjection, IsInjective
  <2>3. ExistsBijection(leaks, C)
    BY <2>2 DEF ExistsBijection
  <2> QED
    BY <2>1, <2>3, FS_Bijection
<1>15. IsFiniteSet(L) /\ Cardinality(L) \in Nat
  <2>1. IsFiniteSet(PhysRegs)
    BY SizesAssumption, FS_Interval DEF PhysRegs
  <2> QED
    BY <2>1, FS_Subset, FS_CardinalityType
<1>16. L \cap C = {}
  <2>1. \A x \in C : x \in Mapped \cup Prevs
    BY <1>2, <1>d, <1>f
  <2> QED
    BY <2>1 DEF Lossy, Accounted
<1>17. Cardinality(L \cup C) = Cardinality(L) + Cardinality(C)
  <2>1. Cardinality(L \cap C) = 0
    BY <1>16, FS_EmptySet
  <2>2. Cardinality(L \cup C) = Cardinality(L) + Cardinality(C) - Cardinality(L \cap C)
    BY <1>14, <1>15, FS_Union, Zenon
  <2> QED
    BY <2>1, <2>2, <1>14, <1>15
<1> QED
  BY <1>3, <1>12, <1>13, <1>14, <1>17

\* Every step keeps the invariant of spec_leak.
LEMMA NextLeakInv == ChaosInv /\ LeakInv /\ [ChaosNext]_allVars => LeakInv'
<1> SUFFICES ASSUME ChaosInv, LeakInv, [ChaosNext]_allVars, mode' = "spec_leak"
             PROVE  Lossy(leaked)' /\ Cardinality(leaked') = faultCount'
  BY DEF LeakInv
<1>1. ChaosTypeOK /\ ChaosTypeOK' /\ TypeOK /\ TypeOK'
  BY ChaosNextTypes DEF ChaosInv, ChaosTypeOK
<1>m. mode = "spec_leak"
  BY DEF ChaosNext, CPUStep, Inject, allVars, chaosVars, RetireHistory, SquashHistory,
         MapBitFlip, F5Substitute, F4FieldStuck, Remap, MarkFree, CheckPermanent
<1>2. Lossy(leaked) /\ Cardinality(leaked) = faultCount
  BY <1>m DEF LeakInv
<1>3. PICK L : L = leaked
  OBVIOUS
<1>4. Lossy(L) /\ L \in SUBSET PhysRegs
  BY <1>1, <1>2, <1>3, LossyRigid DEF ChaosTypeOK
<1>s. ASSUME Lossy(L)', UNCHANGED chaosVars
      PROVE  Lossy(leaked)' /\ Cardinality(leaked') = faultCount'
  <2>1. leaked' = leaked /\ faultCount' = faultCount
    BY <1>s DEF chaosVars
  <2> QED
    BY <2>1, <1>s, <1>2, <1>3, LossyRigid
<1>5. ASSUME NEW s \in ArchRegs, RenameNoDest(s) PROVE Lossy(L)'
  BY <1>1, <1>4, <1>5, RenameNoDestKeeps
<1>6. ASSUME NEW s \in ArchRegs, NEW d \in ArchRegs, RenameDest(s, d) PROVE Lossy(L)'
  BY <1>1, <1>4, <1>6, RenameDestKeeps
<1>7. ASSUME NEW inst \in window, Commit(inst) PROVE Lossy(L)'
  BY <1>1, <1>4, <1>7, CommitKeeps
<1>8. ASSUME FreeSquashed PROVE Lossy(L)'
  BY <1>1, <1>4, <1>8, FreeSquashedKeeps
<1>9. ASSUME NEW sn \in 0 .. doneSeqNum, RetireHistory(sn)
      PROVE  Lossy(leaked)' /\ Cardinality(leaked') = faultCount'
  <2>1. Lossy(L)'
    BY <1>1, <1>4, <1>9, RetireLeaks
  <2>2. UNCHANGED chaosVars
    BY <1>9 DEF RetireHistory
  <2> QED
    BY <2>1, <2>2, <1>s
<1>10. ASSUME NEW sn \in doneSeqNum .. seqNum, SquashHistory(sn)
       PROVE  Lossy(leaked)' /\ Cardinality(leaked') = faultCount'
  <2>1. /\ Lossy(leaked)'
        /\ \E m \in Nat : /\ faultCount' = faultCount + m
                          /\ Cardinality(leaked') = Cardinality(L) + m
    BY <1>1, <1>3, <1>4, <1>10, SquashLeaks
  <2> QED
    BY <2>1, <1>2, <1>3
<1>11. CASE UNCHANGED allVars
  <2>1. UNCHANGED vars /\ UNCHANGED chaosVars
    BY <1>11 DEF allVars
  <2>2. Lossy(L)'
    BY <1>4, <2>1, StutterKeeps
  <2> QED
    BY <2>1, <2>2, <1>s
<1>12. ~Inject
  BY <1>m DEF Inject, MapBitFlip, F5Substitute, F4FieldStuck, MarkFree, CheckPermanent,
              FreeListModes
<1>13. CASE CPUStep
  BY <1>5, <1>6, <1>7, <1>8, <1>9, <1>10, <1>13, <1>s DEF CPUStep
<1> QED
  BY <1>11, <1>12, <1>13 DEF ChaosNext

\* The invariant holds in every behaviour of the CPU under injection.
THEOREM LeakInvariance == ChaosSpec => []LeakInv
<1>1. ChaosInit => ChaosInv /\ LeakInv
  BY ChaosInitInv, InitLeakInv
<1>2. (ChaosInv /\ LeakInv) /\ [ChaosNext]_allVars => (ChaosInv /\ LeakInv)'
  BY ChaosNextInv, NextLeakInv
<1> QED
  BY <1>1, <1>2, PTL DEF ChaosSpec

\* The spec_leak hook in Rename::doSquash costs exactly one register per
\* fault and nothing else: ownership, the committed state, the sources in
\* flight and the rollback stay as they are without faults.
THEOREM LeakContained == ChaosSpec => []SpecLeakContained
<1>1. ChaosInv /\ LeakInv => SpecLeakContained
  <2> SUFFICES ASSUME ChaosInv, LeakInv, mode = "spec_leak"
               PROVE  /\ NoDoubleOwner
                      /\ leaked \cap Owned = {}
                      /\ PhysRegs = Owned \cup leaked
                      /\ Cardinality(leaked) = faultCount
                      /\ CommittedStateKept
                      /\ SourcesKept
                      /\ RollbackExact
    BY DEF SpecLeakContained
  <2>1. Lossy(leaked) /\ Cardinality(leaked) = faultCount
    BY DEF LeakInv
  <2>2. PICK L : L = leaked
    OBVIOUS
  <2>3. Lossy(L)
    BY <2>1, <2>2, LossyRigid
  <2>4. CommittedStateKept /\ SourcesKept /\ RollbackExact /\ RenameChanges
    BY <2>3, LossyKeepsLive, LossyRollsBack, LossyChanges
  <2>5. RenamedPrevs = Prevs
    BY <2>4 DEF RenamedPrevs, Prevs, RenameChanges, Renamed
  <2>6. NoDoubleOwner /\ Accounted(leaked) /\ TypeOK
    BY <2>1 DEF Lossy
  <2>7. leaked \cap Owned = {}
    BY <2>5, <2>6 DEF Accounted, Owned
  <2>8. Owned \cup leaked \subseteq PhysRegs
    <3>1. /\ Elements(freeList) \subseteq PhysRegs
          /\ Elements(freeingInProgress) \subseteq PhysRegs
          /\ Mapped \subseteq PhysRegs
      BY <2>6 DEF TypeOK, Elements, Mapped
    <3>2. Prevs \subseteq PhysRegs
      BY <2>6, HistoryTypes DEF Prevs
    <3> QED
      BY <3>1, <3>2, <2>5 DEF Owned, ChaosInv, ChaosTypeOK
  <2>9. PhysRegs \subseteq Owned \cup leaked
    BY <2>5, <2>6 DEF Accounted, Owned
  <2> QED
    BY <2>1, <2>4, <2>6, <2>7, <2>8, <2>9
<1> QED
  BY <1>1, ChaosInvariance, LeakInvariance, PTL
----------------------------------------------------------------------------
\* The fault ledger.  Followed along one architectural register, each entry
\* that owns a register should have been replaced by the next one, or still
\* be mapped; a fault in the rename map breaks such a link.

\* The entries of a history H that own a register, the later ones for the
\* register of entry i, and the first ones of their register.
Owning(H) == {i \in DOMAIN H : Renamed(H[i])}
LaterFor(H, i) == {j \in Owning(H) : i < j /\ H[j].arch = H[i].arch}
Oldest(H) == {i \in Owning(H) : \A m \in Owning(H) : m < i => H[m].arch # H[i].arch}

\* What came after entry i, in the history or in the map M, is p.
Succeeds(H, M, i, p) ==
    \/ LaterFor(H, i) = {} /\ p = M[H[i].arch]
    \/ \E j \in LaterFor(H, i) : /\ \A m \in LaterFor(H, i) : j <= m
                                 /\ p = H[j].prev

\* The entries whose new register is not what came after them.
BrokenLinks(H, M) == {i \in Owning(H) : ~Succeeds(H, M, i, H[i].new)}

\* Undoing everything would restore these mappings ...
Unrenamed(H) == {a \in ArchRegs : \A i \in Owning(H) : H[i].arch # a}
Roots(H, M) == {M[a] : a \in Unrenamed(H)} \cup {H[i].prev : i \in Oldest(H)}

\* ... and release these registers.
News(H) == {H[i].new : i \in Owning(H)}

\* A history as a function on positions.
Hist(H, n) ==
    /\ n \in Nat
    /\ DOMAIN H = 1 .. n
    /\ \A i \in 1 .. n : H[i].arch \in ArchRegs

\* G and N are the history and the map once a rename has added h.
AddedTo(H, n, M, h, G, N) ==
    /\ Hist(H, n)
    /\ h.arch \in ArchRegs /\ h.prev = M[h.arch] /\ Renamed(h)
    /\ N[h.arch] = h.new /\ \A a \in ArchRegs : a # h.arch => N[a] = M[a]
    /\ DOMAIN G = 1 .. n + 1 /\ (\A i \in 1 .. n : G[i] = H[i]) /\ G[n + 1] = h

\* It extends the links and keeps the roots.
LEMMA LinksAdded ==
  ASSUME NEW H, NEW n, NEW M, NEW h, NEW G, NEW N, AddedTo(H, n, M, h, G, N)
  PROVE  /\ BrokenLinks(G, N) \subseteq BrokenLinks(H, M)
         /\ Roots(H, M) \subseteq Roots(G, N)
         /\ News(H) \subseteq News(G) /\ h.new \in News(G)
<1>h. /\ Hist(H, n)
      /\ h.arch \in ArchRegs /\ h.prev = M[h.arch] /\ Renamed(h)
      /\ N[h.arch] = h.new /\ \A a \in ArchRegs : a # h.arch => N[a] = M[a]
      /\ DOMAIN G = 1 .. n + 1 /\ (\A i \in 1 .. n : G[i] = H[i]) /\ G[n + 1] = h
  BY DEF AddedTo
<1> USE <1>h
<1>0. n \in Nat /\ DOMAIN H = 1 .. n /\ \A i \in 1 .. n : H[i].arch \in ArchRegs
  BY DEF Hist
<1>1. /\ n + 1 \in 1 .. n + 1 /\ \A i \in 1 .. n + 1 : i \in 1 .. n \/ i = n + 1
      /\ \A i \in 1 .. n : i \in 1 .. n + 1 /\ i < n + 1 /\ ~(n + 1 < i) /\ i \in Nat
      /\ ~(n + 1 < n + 1) /\ n + 1 \notin 1 .. n
  BY <1>0
<1>2. Owning(G) = Owning(H) \cup {n + 1} /\ Owning(H) \subseteq 1 .. n
  BY <1>0, <1>1 DEF Owning
<1>4. \A i \in Owning(H) : G[i] = H[i]
  BY <1>2
<1>5. LaterFor(G, n + 1) = {}
  BY <1>1, <1>2 DEF LaterFor
<1>6. ASSUME NEW i \in Owning(H), H[i].arch # h.arch
      PROVE  LaterFor(G, i) = LaterFor(H, i)
  BY <1>2, <1>4, <1>6 DEF LaterFor
<1>7. ASSUME NEW i \in Owning(H), H[i].arch = h.arch
      PROVE  LaterFor(G, i) = LaterFor(H, i) \cup {n + 1}
  BY <1>1, <1>2, <1>4, <1>7 DEF LaterFor
<1>l. \A i : LaterFor(H, i) \subseteq Owning(H)
  BY DEF LaterFor
<1>8. ASSUME NEW i \in Owning(H), Succeeds(H, M, i, H[i].new)
      PROVE  Succeeds(G, N, i, G[i].new)
  <2>1. CASE H[i].arch # h.arch
    <3>1. N[H[i].arch] = M[H[i].arch]
      BY <2>1, <1>0, <1>2
    <3>2. \A j \in LaterFor(H, i) : G[j] = H[j]
      BY <1>l, <1>4
    <3> QED
      BY <2>1, <3>1, <3>2, <1>4, <1>6, <1>8 DEF Succeeds
  <2>2. CASE H[i].arch = h.arch /\ LaterFor(H, i) = {}
    <3>1. LaterFor(G, i) = {n + 1} /\ G[i].new = h.prev
      BY <2>2, <1>4, <1>7, <1>8 DEF Succeeds
    <3>2. n + 1 <= n + 1
      BY <1>0
    <3> QED
      BY <3>1, <3>2 DEF Succeeds
  <2>3. CASE H[i].arch = h.arch /\ LaterFor(H, i) # {}
    <3>1. PICK j \in LaterFor(H, i) : /\ \A m \in LaterFor(H, i) : j <= m
                                      /\ H[i].new = H[j].prev
      BY <2>3, <1>8 DEF Succeeds
    <3>2. j \in Owning(H) /\ j <= n + 1
      BY <1>l, <1>2, <1>0
    <3>3. \A m \in LaterFor(G, i) : j <= m
      BY <2>3, <3>1, <3>2, <1>7
    <3>4. j \in LaterFor(G, i) /\ G[i].new = G[j].prev
      BY <2>3, <3>1, <3>2, <1>4, <1>7
    <3> QED
      BY <3>3, <3>4 DEF Succeeds
  <2> QED
    BY <2>1, <2>2, <2>3
<1>9. Succeeds(G, N, n + 1, G[n + 1].new)
  BY <1>5 DEF Succeeds
<1>10. BrokenLinks(G, N) \subseteq BrokenLinks(H, M)
  BY <1>2, <1>8, <1>9 DEF BrokenLinks
<1>11. ASSUME NEW a \in Unrenamed(H) PROVE M[a] \in Roots(G, N)
  <2>0. a \in ArchRegs /\ \A i \in Owning(H) : H[i].arch # a
    BY DEF Unrenamed
  <2>1. CASE a = h.arch
    <3>1. n + 1 \in Oldest(G)
      BY <2>0, <2>1, <1>1, <1>2, <1>4 DEF Oldest
    <3> QED
      BY <3>1, <2>1 DEF Roots
  <2>2. CASE a # h.arch
    <3>1. a \in Unrenamed(G)
      BY <2>0, <2>2, <1>2, <1>4 DEF Unrenamed
    <3> QED
      BY <3>1, <2>0, <2>2 DEF Roots
  <2> QED
    BY <2>1, <2>2
<1>12. ASSUME NEW i \in Oldest(H) PROVE H[i].prev \in Roots(G, N)
  <2>1. i \in Owning(H) /\ \A m \in Owning(H) : m < i => H[m].arch # H[i].arch
    BY DEF Oldest
  <2>2. i \in Oldest(G)
    BY <2>1, <1>1, <1>2, <1>4 DEF Oldest
  <2> QED
    BY <2>1, <2>2, <1>4 DEF Roots
<1>13. Roots(H, M) \subseteq Roots(G, N)
  BY <1>11, <1>12 DEF Roots
<1>14. News(H) \subseteq News(G) /\ h.new \in News(G)
  BY <1>2, <1>4 DEF News
<1> QED
  BY <1>10, <1>13, <1>14

\* G is the history once its k oldest entries are retired.
RetiredFrom(H, n, k, G) ==
    /\ Hist(H, n) /\ k \in 1 .. n
    /\ DOMAIN G = 1 .. n - k /\ \A i \in 1 .. n - k : G[i] = H[i + k]

\* Retiring them frees the roots they replaced and turns what came after
\* them into roots: only the new register of a broken link is forgotten.
LEMMA LinksRetired ==
  ASSUME NEW H, NEW n, NEW k, NEW G, RetiredFrom(H, n, k, G)
  PROVE  \A M :
           /\ \A i \in BrokenLinks(G, M) : i + k \in BrokenLinks(H, M) /\ k < i + k /\ i \in Nat
           /\ Roots(H, M) \cup News(H) \subseteq
                Roots(G, M) \cup News(G)
                  \cup {H[i].prev : i \in {j \in 1 .. k : Renamed(H[j])}}
                  \cup {H[i].new : i \in {j \in BrokenLinks(H, M) : j <= k}}
<1> TAKE M
<1>h. /\ Hist(H, n) /\ k \in 1 .. n
      /\ DOMAIN G = 1 .. n - k /\ \A i \in 1 .. n - k : G[i] = H[i + k]
  BY DEF RetiredFrom
<1> USE <1>h
<1> DEFINE Replaced == {H[i].prev : i \in {j \in 1 .. k : Renamed(H[j])}}
           Gone == {H[i].new : i \in {j \in BrokenLinks(H, M) : j <= k}}
           All == Roots(G, M) \cup News(G) \cup Replaced \cup Gone
<1>0. n \in Nat /\ k \in Nat /\ k <= n /\ DOMAIN H = 1 .. n
      /\ \A i \in 1 .. n : H[i].arch \in ArchRegs
  BY DEF Hist
<1>1. /\ \A i \in Owning(G) : i \in Nat /\ i + k \in Owning(H) /\ k < i + k /\ G[i] = H[i + k]
      /\ \A i \in Owning(H) : i \in Nat
      /\ \A i \in Owning(H) : k < i => i - k \in Nat /\ i - k \in Owning(G) /\ (i - k) + k = i
                                       /\ G[i - k] = H[i]
      /\ \A i \in Owning(H) : i <= k => i \in {j \in 1 .. k : Renamed(H[j])}
  <2>1. \A i \in 1 .. n - k : i \in Nat /\ i + k \in 1 .. n /\ k < i + k
    BY <1>0
  <2>2. \A i \in 1 .. n : k < i => i - k \in Nat /\ i - k \in 1 .. n - k /\ (i - k) + k = i
    BY <1>0
  <2>3. \A i \in 1 .. n : i <= k => i \in 1 .. k
    BY <1>0
  <2>4. \A i \in 1 .. n : i \in Nat
    BY <1>0
  <2>5. \A i \in Owning(G) : i \in Nat /\ i + k \in Owning(H) /\ k < i + k /\ G[i] = H[i + k]
    BY <1>0, <2>1 DEF Owning
  <2>6. \A i \in Owning(H) : k < i => i - k \in Nat /\ i - k \in Owning(G) /\ (i - k) + k = i
                                       /\ G[i - k] = H[i]
    BY <1>0, <2>2 DEF Owning
  <2>7. \A i \in Owning(H) : i <= k => i \in {j \in 1 .. k : Renamed(H[j])}
    BY <1>0, <2>3 DEF Owning
  <2>8. \A i \in Owning(H) : i \in Nat
    BY <1>0, <2>4 DEF Owning
  <2> QED
    BY <2>5, <2>6, <2>7, <2>8
<1>2. ASSUME NEW i \in Owning(G) PROVE
        /\ \A j \in LaterFor(G, i) : j \in Nat /\ j + k \in LaterFor(H, i + k) /\ G[j] = H[j + k]
        /\ \A j \in LaterFor(H, i + k) : j \in Nat /\ j - k \in Nat /\ j - k \in LaterFor(G, i)
                                         /\ G[j - k] = H[j]
  <2>1. i \in Nat /\ G[i] = H[i + k]
    BY <1>1
  <2>2. ASSUME NEW j \in LaterFor(G, i) PROVE j \in Nat /\ j + k \in LaterFor(H, i + k) /\ G[j] = H[j + k]
    <3>1. j \in Owning(G) /\ i < j /\ G[j].arch = G[i].arch
      BY DEF LaterFor
    <3>2. j \in Nat /\ j + k \in Owning(H) /\ G[j] = H[j + k]
      BY <3>1, <1>1
    <3>3. i + k < j + k
      BY <3>1, <3>2, <2>1, <1>0
    <3> QED
      BY <3>1, <3>2, <3>3, <2>1 DEF LaterFor
  <2>3. ASSUME NEW j \in LaterFor(H, i + k)
        PROVE  j \in Nat /\ j - k \in Nat /\ j - k \in LaterFor(G, i) /\ G[j - k] = H[j]
    <3>1. j \in Owning(H) /\ i + k < j /\ H[j].arch = H[i + k].arch
      BY DEF LaterFor
    <3>2. j \in Nat /\ k < j
      BY <3>1, <2>1, <1>0, <1>1
    <3>3. j - k \in Nat /\ j - k \in Owning(G) /\ G[j - k] = H[j]
      BY <3>1, <3>2, <1>1
    <3>4. i < j - k
      BY <3>1, <3>2, <2>1, <1>0
    <3> QED
      BY <3>1, <3>2, <3>3, <3>4, <2>1 DEF LaterFor
  <2> QED
    BY <2>2, <2>3
<1>3. ASSUME NEW i \in Owning(G), NEW p, Succeeds(H, M, i + k, p)
      PROVE  Succeeds(G, M, i, p)
  <2>0. G[i] = H[i + k]
    BY <1>1
  <2>1. CASE LaterFor(H, i + k) = {}
    <3>1. LaterFor(G, i) = {}
      BY <2>1, <1>2
    <3> QED
      BY <2>0, <2>1, <3>1, <1>3 DEF Succeeds
  <2>2. CASE LaterFor(H, i + k) # {}
    <3>1. PICK j \in LaterFor(H, i + k) : /\ \A m \in LaterFor(H, i + k) : j <= m
                                          /\ p = H[j].prev
      BY <2>2, <1>3 DEF Succeeds
    <3>2. j \in Nat /\ j - k \in LaterFor(G, i) /\ G[j - k] = H[j]
      BY <1>2
    <3>3. ASSUME NEW m \in LaterFor(G, i) PROVE j - k <= m
      <4>1. m \in Nat /\ j <= m + k
        BY <1>2, <3>1
      <4> QED
        BY <4>1, <3>2, <1>0
    <3> QED
      BY <3>1, <3>2, <3>3 DEF Succeeds
  <2> QED
    BY <2>1, <2>2
<1>4. ASSUME NEW i \in BrokenLinks(G, M)
      PROVE  i + k \in BrokenLinks(H, M) /\ k < i + k /\ i \in Nat
  <2>1. i \in Owning(G) /\ ~Succeeds(G, M, i, G[i].new)
    BY DEF BrokenLinks
  <2>2. i \in Nat /\ i + k \in Owning(H) /\ k < i + k /\ G[i] = H[i + k]
    BY <2>1, <1>1
  <2> QED
    BY <2>1, <2>2, <1>3 DEF BrokenLinks
<1> HIDE DEF Replaced, Gone
<1>5. ASSUME NEW a \in Unrenamed(H) PROVE M[a] \in All
  <2>1. a \in Unrenamed(G)
    BY <1>1 DEF Unrenamed
  <2> QED
    BY <2>1 DEF Roots
<1>6. ASSUME NEW i \in Owning(H), i <= k PROVE H[i].prev \in All
  BY <1>1, <1>6 DEF Replaced
<1>7. ASSUME NEW i \in Owning(H), ~(i <= k),
             \A m \in Owning(H) : k < m /\ m < i => H[m].arch # H[i].arch
      PROVE  H[i].prev \in All
  <2>1. i \in Nat /\ k < i
    BY <1>0, <1>1, <1>7
  <2>2. i - k \in Nat /\ i - k \in Owning(G) /\ G[i - k] = H[i]
    BY <2>1, <1>1
  <2>3. ASSUME NEW m \in Owning(G), m < i - k PROVE G[m].arch # G[i - k].arch
    <3>1. m \in Nat /\ m + k \in Owning(H) /\ k < m + k /\ G[m] = H[m + k]
      BY <1>1
    <3>2. m + k < i
      BY <3>1, <2>1, <2>3, <1>0
    <3> QED
      BY <3>1, <3>2, <2>2, <1>7
  <2>4. i - k \in Oldest(G)
    BY <2>2, <2>3 DEF Oldest
  <2> QED
    BY <2>2, <2>4 DEF Roots
<1>8. ASSUME NEW i \in Oldest(H) PROVE H[i].prev \in All
  <2>1. i \in Owning(H) /\ \A m \in Owning(H) : m < i => H[m].arch # H[i].arch
    BY DEF Oldest
  <2> QED
    BY <2>1, <1>6, <1>7
<1>9. ASSUME NEW i \in Owning(H) PROVE H[i].new \in All
  <2>0. i \in Nat
    BY <1>1
  <2>1. CASE k < i
    <3>1. i - k \in Owning(G) /\ G[i - k] = H[i]
      BY <2>1, <1>1
    <3> QED
      BY <3>1 DEF News
  <2>2. CASE i <= k /\ i \in BrokenLinks(H, M)
    BY <2>2 DEF Gone
  <2>3. CASE i <= k /\ i \notin BrokenLinks(H, M)
    <3>1. Succeeds(H, M, i, H[i].new)
      BY <2>3 DEF BrokenLinks
    <3>2. CASE LaterFor(H, i) = {}
      <4>1. H[i].new = M[H[i].arch] /\ H[i].arch \in ArchRegs
        BY <3>1, <3>2, <1>0 DEF Succeeds, Owning
      <4>2. ASSUME NEW j \in Owning(G) PROVE G[j].arch # H[i].arch
        <5>1. j \in Nat /\ j + k \in Owning(H) /\ k < j + k /\ G[j] = H[j + k]
          BY <1>1
        <5>2. i < j + k
          BY <5>1, <2>0, <2>3, <1>0
        <5> QED
          BY <5>1, <5>2, <3>2 DEF LaterFor
      <4>3. H[i].arch \in Unrenamed(G)
        BY <4>1, <4>2 DEF Unrenamed
      <4> QED
        BY <4>1, <4>3 DEF Roots
    <3>3. CASE LaterFor(H, i) # {}
      <4>1. PICK j \in LaterFor(H, i) : /\ \A m \in LaterFor(H, i) : j <= m
                                        /\ H[i].new = H[j].prev
        BY <3>1, <3>3 DEF Succeeds
      <4>2. j \in Owning(H) /\ j \in Nat /\ H[j].arch = H[i].arch
        BY <1>1 DEF LaterFor
      <4>3. ASSUME NEW m \in Owning(H), k < m, m < j PROVE H[m].arch # H[j].arch
        <5>1. m \in Nat /\ i < m /\ ~(j <= m)
          BY <4>2, <4>3, <2>0, <2>3, <1>0, <1>1
        <5> QED
          BY <5>1, <4>1, <4>2 DEF LaterFor
      <4> QED
        BY <4>1, <4>2, <4>3, <1>6, <1>7
    <3> QED
      BY <3>2, <3>3
  <2> QED
    BY <2>0, <2>1, <2>2, <2>3, <1>0
<1> HIDE DEF All
<1>10. Roots(H, M) \cup News(H) \subseteq All
  BY <1>5, <1>8, <1>9 DEF Roots, News
<1> QED
  BY <1>4, <1>10 DEF All, Replaced, Gone

\* G and N are the history and the map once the entries after k, of which
\* U own a register, are undone.
UndoneFrom(H, n, M, k, U, G, N) ==
    /\ Hist(H, n) /\ k \in 0 .. n
    /\ U = {i \in k + 1 .. n : Renamed(H[i])}
    /\ \A a \in ArchRegs :
          \/ (\A i \in U : H[i].arch # a) /\ N[a] = M[a]
          \/ \E i \in U : /\ H[i].arch = a
                          /\ \A j \in U : H[j].arch = a => i <= j
                          /\ N[a] = H[i].prev
    /\ DOMAIN G = 1 .. k /\ \A i \in 1 .. k : G[i] = H[i]

\* Undoing them keeps the links of the others and the roots.
LEMMA LinksUndone ==
  ASSUME NEW H, NEW n, NEW M, NEW k, NEW U, NEW G, NEW N, UndoneFrom(H, n, M, k, U, G, N)
  PROVE  /\ BrokenLinks(G, N) \subseteq BrokenLinks(H, M)
         /\ Roots(H, M) \subseteq Roots(G, N)
         /\ News(H) = News(G) \cup {H[i].new : i \in U}
<1>h. /\ Hist(H, n) /\ k \in 0 .. n
      /\ U = {i \in k + 1 .. n : Renamed(H[i])}
      /\ \A a \in ArchRegs :
            \/ (\A i \in U : H[i].arch # a) /\ N[a] = M[a]
            \/ \E i \in U : /\ H[i].arch = a
                            /\ \A j \in U : H[j].arch = a => i <= j
                            /\ N[a] = H[i].prev
      /\ DOMAIN G = 1 .. k /\ \A i \in 1 .. k : G[i] = H[i]
  BY DEF UndoneFrom
<1> USE <1>h
<1>0. n \in Nat /\ k \in Nat /\ k <= n /\ DOMAIN H = 1 .. n
      /\ \A i \in 1 .. n : H[i].arch \in ArchRegs
  BY DEF Hist
<1>1. /\ \A i \in Owning(H) : i \in Nat /\ (i <= k => i \in Owning(G)) /\ (k < i => i \in U)
                              /\ H[i].arch \in ArchRegs
      /\ \A i \in Owning(G) : i \in Owning(H) /\ i <= k /\ G[i] = H[i]
      /\ \A i \in U : i \in Owning(H) /\ k < i
  <2>1. \A i \in 1 .. n : i \in Nat /\ (i <= k => i \in 1 .. k) /\ (k < i => i \in k + 1 .. n)
    BY <1>0
  <2>2. \A i \in 1 .. k : i \in 1 .. n /\ i <= k
    BY <1>0
  <2>3. \A i \in k + 1 .. n : i \in 1 .. n /\ k < i
    BY <1>0
  <2>4. \A i \in Owning(H) : i \in Nat /\ (i <= k => i \in Owning(G)) /\ (k < i => i \in U)
                              /\ H[i].arch \in ArchRegs
    BY <2>1, <1>0 DEF Owning
  <2>5. \A i \in Owning(G) : i \in Owning(H) /\ i <= k /\ G[i] = H[i]
    BY <2>2, <1>0 DEF Owning
  <2>6. \A i \in U : i \in Owning(H) /\ k < i
    BY <2>3, <1>0 DEF Owning
  <2> QED
    BY <2>4, <2>5, <2>6
<1>2. ASSUME NEW i \in Owning(G), NEW j PROVE j \in LaterFor(G, i) <=> j \in LaterFor(H, i) /\ j <= k
  BY <1>1 DEF LaterFor
<1>3. ASSUME NEW i \in Owning(G), NEW p, Succeeds(H, M, i, p)
      PROVE  Succeeds(G, N, i, p)
  <2> DEFINE a == H[i].arch
  <2>0. i \in Owning(H) /\ i \in Nat /\ i <= k /\ G[i] = H[i] /\ a \in ArchRegs
    BY <1>1
  <2>u. \A j \in U : H[j].arch = a => j \in LaterFor(H, i)
    <3>1. ASSUME NEW j \in U PROVE j \in Owning(H) /\ j \in Nat /\ i < j
      BY <1>0, <1>1, <2>0
    <3> QED
      BY <3>1 DEF LaterFor
  <2>1. CASE LaterFor(H, i) = {}
    <3>1. LaterFor(G, i) = {}
      BY <2>1, <1>2
    <3>2. N[a] = M[a]
      BY <2>0, <2>1, <2>u
    <3> QED
      BY <2>0, <2>1, <3>1, <3>2, <1>3 DEF Succeeds
  <2>2. CASE LaterFor(H, i) # {}
    <3>1. PICK j \in LaterFor(H, i) : /\ \A m \in LaterFor(H, i) : j <= m
                                      /\ p = H[j].prev
      BY <2>2, <1>3 DEF Succeeds
    <3>2. j \in Owning(H) /\ j \in Nat /\ H[j].arch = a /\ \A m \in LaterFor(H, i) : m \in Nat
      BY <1>1 DEF LaterFor
    <3>3. CASE j <= k
      <4>1. j \in LaterFor(G, i) /\ \A m \in LaterFor(G, i) : j <= m
        BY <3>1, <3>3, <1>2
      <4>2. G[j] = H[j]
        BY <3>2, <3>3, <1>1
      <4> QED
        BY <4>1, <4>2, <3>1 DEF Succeeds
    <3>4. CASE k < j
      <4>1. LaterFor(G, i) = {}
        <5>1. ASSUME NEW m \in LaterFor(H, i) PROVE ~(m <= k)
          BY <3>1, <3>2, <3>4, <1>0
        <5> QED
          BY <5>1, <1>2
      <4>2. j \in U
        BY <3>2, <3>4, <1>1
      <4>3. PICK m \in U : /\ H[m].arch = a
                           /\ \A x \in U : H[x].arch = a => m <= x
                           /\ N[a] = H[m].prev
        BY <4>2, <3>2, <2>0
      <4>4. m <= j /\ j <= m /\ m \in Nat
        BY <4>2, <4>3, <3>1, <3>2, <2>u
      <4>5. m = j
        BY <4>4, <3>2
      <4> QED
        BY <4>1, <4>3, <4>5, <3>1, <2>0 DEF Succeeds
    <3> QED
      BY <3>2, <3>3, <3>4, <1>0
  <2> QED
    BY <2>1, <2>2
<1>4. BrokenLinks(G, N) \subseteq BrokenLinks(H, M)
  BY <1>1, <1>3 DEF BrokenLinks
<1>5. ASSUME NEW a \in Unrenamed(H) PROVE M[a] \in Roots(G, N)
  <2>1. a \in ArchRegs /\ a \in Unrenamed(G) /\ \A i \in U : H[i].arch # a
    BY <1>1 DEF Unrenamed
  <2>2. N[a] = M[a]
    BY <2>1
  <2> QED
    BY <2>1, <2>2 DEF Roots
<1>6. ASSUME NEW i \in Oldest(H) PROVE H[i].prev \in Roots(G, N)
  <2> DEFINE a == H[i].arch
  <2>0. /\ i \in Owning(H) /\ i \in Nat /\ a \in ArchRegs
        /\ \A m \in Owning(H) : m < i => H[m].arch # a
    BY <1>1 DEF Oldest
  <2>1. CASE i <= k
    <3>1. i \in Owning(G) /\ G[i] = H[i]
      BY <2>0, <2>1, <1>1
    <3>2. i \in Oldest(G)
      BY <3>1, <2>0, <1>1 DEF Oldest
    <3> QED
      BY <3>1, <3>2 DEF Roots
  <2>2. CASE k < i
    <3>1. i \in U
      BY <2>0, <2>2, <1>1
    <3>2. PICK m \in U : /\ H[m].arch = a
                         /\ \A x \in U : H[x].arch = a => m <= x
                         /\ N[a] = H[m].prev
      BY <3>1, <2>0
    <3>3. m \in Nat /\ m <= i /\ ~(m < i)
      BY <3>1, <3>2, <2>0, <1>1
    <3>4. m = i
      BY <3>3, <2>0
    <3>5. ASSUME NEW j \in Owning(G) PROVE G[j].arch # a
      <4>1. j \in Owning(H) /\ j <= k /\ G[j] = H[j]
        BY <1>1
      <4>2. j \in Nat
        BY <4>1, <1>1
      <4>3. j < i
        BY <4>1, <4>2, <2>0, <2>2, <1>0
      <4> QED
        BY <4>1, <4>3, <2>0
    <3>6. a \in Unrenamed(G)
      BY <3>5, <2>0 DEF Unrenamed
    <3> QED
      BY <3>2, <3>4, <3>6 DEF Roots
  <2> QED
    BY <2>0, <2>1, <2>2, <1>0
<1>7. Roots(H, M) \subseteq Roots(G, N)
  BY <1>5, <1>6 DEF Roots
<1>8. News(H) = News(G) \cup {H[i].new : i \in U}
  <2>1. \A i \in Owning(H) : i <= k \/ k < i
    BY <1>0, <1>1
  <2>2. \A i \in Owning(H) : i \in Owning(G) \/ i \in U
    BY <2>1, <1>1
  <2> QED
    BY <2>2, <1>1 DEF News
<1> QED
  BY <1>4, <1>7, <1>8

\* A fault in the mapping of a breaks one link or displaces one root.
LEMMA LinksRemapped ==
  ASSUME NEW H, NEW n, Hist(H, n), NEW M, NEW N, NEW a \in ArchRegs,
         \A b \in ArchRegs : b # a => N[b] = M[b]
  PROVE  \/ /\ BrokenLinks(H, N) \subseteq BrokenLinks(H, M)
            /\ Roots(H, M) \subseteq Roots(H, N) \cup {M[a]}
         \/ /\ \E x : BrokenLinks(H, N) \subseteq BrokenLinks(H, M) \cup {x}
            /\ Roots(H, M) \subseteq Roots(H, N)
<1>0. n \in Nat /\ \A i \in Owning(H) : i \in Nat /\ H[i].arch \in ArchRegs
  <2>1. n \in Nat /\ DOMAIN H = 1 .. n /\ \A i \in 1 .. n : H[i].arch \in ArchRegs
    BY DEF Hist
  <2>2. \A i \in 1 .. n : i \in Nat
    BY <2>1
  <2> QED
    BY <2>1, <2>2 DEF Owning
<1>2. ASSUME NEW i \in BrokenLinks(H, N), i \notin BrokenLinks(H, M)
      PROVE  i \in Owning(H) /\ H[i].arch = a /\ LaterFor(H, i) = {}
  <2>1. i \in Owning(H) /\ ~Succeeds(H, N, i, H[i].new) /\ Succeeds(H, M, i, H[i].new)
    BY <1>2 DEF BrokenLinks
  <2>2. N[H[i].arch] # M[H[i].arch] /\ LaterFor(H, i) = {}
    BY <2>1 DEF Succeeds
  <2> QED
    BY <2>1, <2>2, <1>0
<1>3. \A i, j \in BrokenLinks(H, N) : i \notin BrokenLinks(H, M) /\ j \notin BrokenLinks(H, M) => i = j
  <2> SUFFICES ASSUME NEW i \in BrokenLinks(H, N), NEW j \in BrokenLinks(H, N),
                      i \notin BrokenLinks(H, M), j \notin BrokenLinks(H, M)
               PROVE  i = j
    OBVIOUS
  <2>1. /\ i \in Owning(H) /\ H[i].arch = a /\ LaterFor(H, i) = {}
        /\ j \in Owning(H) /\ H[j].arch = a /\ LaterFor(H, j) = {}
    BY <1>2
  <2>2. ~(i < j) /\ ~(j < i)
    BY <2>1 DEF LaterFor
  <2> QED
    BY <2>1, <2>2, <1>0
<1>4. CASE a \in Unrenamed(H)
  <2>1. BrokenLinks(H, N) \subseteq BrokenLinks(H, M)
    BY <1>2, <1>4 DEF Unrenamed
  <2>2. Roots(H, M) \subseteq Roots(H, N) \cup {M[a]}
    <3>1. \A b \in Unrenamed(H) : b = a \/ N[b] = M[b]
      BY DEF Unrenamed
    <3> QED
      BY <3>1 DEF Roots
  <2> QED
    BY <2>1, <2>2
<1>5. CASE a \notin Unrenamed(H)
  <2>1. \E x : BrokenLinks(H, N) \subseteq BrokenLinks(H, M) \cup {x}
    <3>1. CASE BrokenLinks(H, N) \subseteq BrokenLinks(H, M)
      BY <3>1
    <3>2. CASE ~(BrokenLinks(H, N) \subseteq BrokenLinks(H, M))
      <4>1. PICK x \in BrokenLinks(H, N) : x \notin BrokenLinks(H, M)
        BY <3>2
      <4>2. BrokenLinks(H, N) \subseteq BrokenLinks(H, M) \cup {x}
        BY <4>1, <1>3
      <4> QED
        BY <4>2
    <3> QED
      BY <3>1, <3>2
  <2>2. Roots(H, M) \subseteq Roots(H, N)
    <3>1. \A b \in Unrenamed(H) : N[b] = M[b]
      BY <1>5 DEF Unrenamed
    <3> QED
      BY <3>1 DEF Roots
  <2> QED
    BY <2>1, <2>2
<1> QED
  BY <1>4, <1>5

\* The registers the map and the history name.
Held(H, M) == {M[a] : a \in ArchRegs} \cup {H[i].prev : i \in Owning(H)} \cup News(H)

\* What came after entry i.
SuccessorOf(H, M, i) == CHOOSE p : Succeeds(H, M, i, p)

\* A nonempty set of positions has a greatest one.
LEMMA SetHasMax ==
  ASSUME NEW n \in Nat, NEW S \in SUBSET (1 .. n), S # {}
  PROVE  \E m \in S : \A k \in S : k <= m
<1> DEFINE T == {x \in 0 .. n : n - x \in S}
<1>0. \A i \in S : i \in 1 .. n
  OBVIOUS
<1>1. \A i \in 1 .. n : n - i \in 0 .. n /\ n - (n - i) = i
  OBVIOUS
<1>2. \A i \in S : n - i \in T
  BY <1>0, <1>1
<1>t. \A x \in 0 .. n : x \in Nat
  OBVIOUS
<1>3. T \in SUBSET Nat /\ T # {}
  <2>1. PICK i \in S : TRUE
    OBVIOUS
  <2>2. n - i \in T
    BY <2>1, <1>2
  <2>3. T \in SUBSET Nat
    BY <1>t
  <2> QED
    BY <2>2, <2>3
<1>4. PICK x \in T : \A y \in T : x <= y
  BY <1>3, SetHasMin
<1>5. n - x \in S /\ x \in Nat
  BY <1>3, <1>4
<1>6. ASSUME NEW k \in S PROVE k <= n - x
  <2>1. x <= n - k
    BY <1>2, <1>4
  <2>2. k \in 1 .. n
    BY <1>0
  <2> QED
    BY <2>1, <2>2, <1>5
<1> QED
  BY <1>5, <1>6

\* Only one thing came after an entry.
LEMMA SuccessorUnique ==
  ASSUME NEW H, NEW M, NEW i, \A j \in Owning(H) : j \in Nat
  PROVE  /\ \A p, q : Succeeds(H, M, i, p) /\ Succeeds(H, M, i, q) => p = q
         /\ \A p : Succeeds(H, M, i, p) => SuccessorOf(H, M, i) = p
<1>1. ASSUME NEW p, NEW q, Succeeds(H, M, i, p), Succeeds(H, M, i, q) PROVE p = q
  <2>1. CASE LaterFor(H, i) = {}
    BY <1>1, <2>1 DEF Succeeds
  <2>2. CASE LaterFor(H, i) # {}
    <3>1. PICK j \in LaterFor(H, i) : /\ \A m \in LaterFor(H, i) : j <= m
                                      /\ p = H[j].prev
      BY <1>1, <2>2 DEF Succeeds
    <3>2. PICK l \in LaterFor(H, i) : /\ \A m \in LaterFor(H, i) : l <= m
                                      /\ q = H[l].prev
      BY <1>1, <2>2 DEF Succeeds
    <3>3. j \in Nat /\ l \in Nat
      BY DEF LaterFor
    <3>4. j <= l /\ l <= j
      BY <3>1, <3>2
    <3>5. j = l
      BY <3>3, <3>4
    <3> QED
      BY <3>1, <3>2, <3>5
  <2> QED
    BY <2>1, <2>2
<1>2. ASSUME NEW p, Succeeds(H, M, i, p) PROVE SuccessorOf(H, M, i) = p
  <2>1. Succeeds(H, M, i, SuccessorOf(H, M, i))
    BY <1>2, Zenon DEF SuccessorOf
  <2> QED
    BY <2>1, <1>1, <1>2
<1> QED
  BY <1>1, <1>2

\* A rename keeps every register it knows of.
LEMMA HeldAdded ==
  ASSUME NEW H, NEW n, NEW M, NEW h, NEW G, NEW N, AddedTo(H, n, M, h, G, N)
  PROVE  Held(H, M) \subseteq Held(G, N)
<1>1. /\ n \in Nat /\ DOMAIN H = 1 .. n
      /\ h.arch \in ArchRegs /\ h.prev = M[h.arch] /\ Renamed(h)
      /\ N[h.arch] = h.new /\ \A a \in ArchRegs : a # h.arch => N[a] = M[a]
      /\ DOMAIN G = 1 .. n + 1 /\ (\A i \in 1 .. n : G[i] = H[i]) /\ G[n + 1] = h
  BY DEF AddedTo, Hist
<1>2. n + 1 \in 1 .. n + 1 /\ \A i \in 1 .. n : i \in 1 .. n + 1
  BY <1>1
<1>3. n + 1 \in Owning(G) /\ \A i \in Owning(H) : i \in Owning(G) /\ G[i] = H[i]
  BY <1>1, <1>2 DEF Owning
<1>4. \A a \in ArchRegs : M[a] \in Held(G, N)
  <2>1. M[h.arch] \in Held(G, N)
    BY <1>1, <1>3 DEF Held
  <2>2. \A a \in ArchRegs : a # h.arch => M[a] \in Held(G, N)
    BY <1>1 DEF Held
  <2> QED
    BY <2>1, <2>2
<1>5. \A i \in Owning(H) : H[i].prev \in Held(G, N) /\ H[i].new \in Held(G, N)
  BY <1>3 DEF Held, News
<1> QED
  BY <1>4, <1>5 DEF Held, News

\* Retiring forgets the new registers of broken links only.
LEMMA HeldRetired ==
  ASSUME NEW H, NEW n, NEW k, NEW G, RetiredFrom(H, n, k, G)
  PROVE  \A M : Held(H, M) \subseteq
                  Held(G, M) \cup {H[i].prev : i \in {j \in 1 .. k : Renamed(H[j])}}
                    \cup {H[i].new : i \in {j \in BrokenLinks(H, M) : j <= k}}
<1> TAKE M
<1> DEFINE Replaced == {H[i].prev : i \in {j \in 1 .. k : Renamed(H[j])}}
           Gone == {H[i].new : i \in {j \in BrokenLinks(H, M) : j <= k}}
<1>1. /\ n \in Nat /\ DOMAIN H = 1 .. n /\ k \in 1 .. n
      /\ DOMAIN G = 1 .. n - k /\ \A i \in 1 .. n - k : G[i] = H[i + k]
  BY DEF RetiredFrom, Hist
<1>2. Roots(H, M) \cup News(H) \subseteq Roots(G, M) \cup News(G) \cup Replaced \cup Gone
  BY LinksRetired
<1> HIDE DEF Gone
<1>3. Roots(G, M) \subseteq Held(G, M) /\ News(G) \subseteq Held(G, M)
  BY DEF Roots, Held, Unrenamed, Oldest
<1>4. ASSUME NEW i \in Owning(H) PROVE H[i].prev \in Held(G, M) \cup Replaced
  <2>1. i \in 1 .. n /\ Renamed(H[i])
    BY <1>1 DEF Owning
  <2>2. CASE i <= k
    <3>1. i \in 1 .. k
      BY <2>1, <2>2, <1>1
    <3> QED
      BY <3>1, <2>1
  <2>3. CASE ~(i <= k)
    <3>1. i - k \in 1 .. n - k /\ (i - k) + k = i
      BY <2>1, <2>3, <1>1
    <3>2. G[i - k] = H[i]
      BY <3>1, <1>1
    <3>3. i - k \in Owning(G)
      BY <3>1, <3>2, <2>1, <1>1 DEF Owning
    <3> QED
      BY <3>2, <3>3 DEF Held
  <2> QED
    BY <2>2, <2>3
<1> HIDE DEF Replaced
<1>5. \A a \in ArchRegs : M[a] \in Held(G, M)
  BY DEF Held
<1>6. Held(H, M) \subseteq Held(G, M) \cup Replaced \cup Gone
  <2>1. News(H) \subseteq Held(G, M) \cup Replaced \cup Gone
    BY <1>2, <1>3
  <2>2. \A x \in {M[a] : a \in ArchRegs} : x \in Held(G, M)
    BY <1>5
  <2>3. \A x \in {H[i].prev : i \in Owning(H)} : x \in Held(G, M) \cup Replaced
    BY <1>4
  <2> QED
    BY <2>1, <2>2, <2>3 DEF Held
<1> QED
  BY <1>6 DEF Replaced, Gone

\* Undoing forgets what came after the broken links only.
LEMMA HeldUndone ==
  ASSUME NEW H, NEW n, NEW M, NEW k, NEW U, NEW G, NEW N, UndoneFrom(H, n, M, k, U, G, N)
  PROVE  /\ Held(H, M) \subseteq
              Held(G, N) \cup {H[i].new : i \in U}
                \cup {SuccessorOf(H, M, i) : i \in {j \in BrokenLinks(H, M) : j \in U}}
         /\ \A i \in BrokenLinks(G, N) : i \notin U
<1>h. /\ Hist(H, n) /\ k \in 0 .. n
      /\ U = {i \in k + 1 .. n : Renamed(H[i])}
      /\ \A a \in ArchRegs :
            \/ (\A i \in U : H[i].arch # a) /\ N[a] = M[a]
            \/ \E i \in U : /\ H[i].arch = a
                            /\ \A j \in U : H[j].arch = a => i <= j
                            /\ N[a] = H[i].prev
      /\ DOMAIN G = 1 .. k /\ \A i \in 1 .. k : G[i] = H[i]
  BY DEF UndoneFrom
<1>0. n \in Nat /\ k \in Nat /\ k <= n /\ DOMAIN H = 1 .. n
      /\ \A i \in 1 .. n : H[i].arch \in ArchRegs
  BY <1>h DEF Hist
<1>1. /\ \A i \in Owning(H) : i \in Nat /\ H[i].arch \in ArchRegs
                              /\ ((i \in Owning(G) /\ G[i] = H[i]) \/ i \in U)
                              /\ (k < i => i \in U)
      /\ \A i \in U : i \in Owning(H) /\ k < i /\ i \in 1 .. n
      /\ \A i \in Owning(G) : i <= k
  <2>1. \A i \in 1 .. n : i \in Nat /\ (i \in 1 .. k \/ i \in k + 1 .. n)
                          /\ (k < i => i \in k + 1 .. n)
    BY <1>0
  <2>2. \A i \in k + 1 .. n : i \in 1 .. n /\ k < i
    BY <1>0
  <2>3. \A i \in 1 .. k : i <= k
    BY <1>0
  <2>4. \A i \in Owning(H) : i \in Nat /\ H[i].arch \in ArchRegs
                              /\ ((i \in Owning(G) /\ G[i] = H[i]) \/ i \in U)
                              /\ (k < i => i \in U)
    BY <2>1, <1>0, <1>h DEF Owning
  <2>5. \A i \in U : i \in Owning(H) /\ k < i /\ i \in 1 .. n
    BY <2>2, <1>0, <1>h DEF Owning
  <2>6. \A i \in Owning(G) : i <= k
    BY <2>3, <1>h DEF Owning
  <2> QED
    BY <2>4, <2>5, <2>6
<1> DEFINE Undone == {H[i].new : i \in U}
           Gone == {SuccessorOf(H, M, i) : i \in {j \in BrokenLinks(H, M) : j \in U}}
           All == Held(G, N) \cup Undone \cup Gone
<1>2. ASSUME NEW i \in U, NEW p, Succeeds(H, M, i, p) PROVE p \in All
  <2>0. \A j \in Owning(H) : j \in Nat
    BY <1>1
  <2>1. /\ \A q : Succeeds(H, M, i, q) => p = q
        /\ SuccessorOf(H, M, i) = p
    BY <2>0, <1>2, SuccessorUnique
  <2>2. CASE i \in BrokenLinks(H, M)
    BY <2>1, <2>2
  <2>3. CASE i \notin BrokenLinks(H, M)
    <3>1. Succeeds(H, M, i, H[i].new)
      BY <2>3, <1>1 DEF BrokenLinks
    <3> QED
      BY <3>1, <2>1
  <2> QED
    BY <2>2, <2>3
<1> HIDE DEF Undone, Gone
<1>m. ASSUME NEW S \in SUBSET U, S # {} PROVE \E m \in S : \A j \in S : j <= m
  <2>1. S \in SUBSET (1 .. n)
    BY <1>1
  <2> QED
    BY <2>1, <1>0, <1>m, SetHasMax
<1>3. ASSUME NEW a \in ArchRegs PROVE M[a] \in All
  <2> DEFINE S == {i \in U : H[i].arch = a}
  <2>1. CASE S = {}
    <3>1. N[a] = M[a]
      BY <2>1, <1>h
    <3> QED
      BY <3>1 DEF Held
  <2>2. CASE S # {}
    <3>1. PICK l \in S : \A j \in S : j <= l
      BY <2>2, <1>m
    <3>2. l \in U /\ l \in Nat /\ k < l /\ H[l].arch = a
      BY <3>1, <1>1
    <3>3. ASSUME NEW j \in LaterFor(H, l) PROVE FALSE
      <4>1. j \in Owning(H) /\ j \in Nat /\ l < j /\ H[j].arch = a
        BY <3>2, <1>1 DEF LaterFor
      <4>2. k < j
        BY <4>1, <3>2, <1>0
      <4>3. j \in S
        BY <4>1, <4>2, <1>1
      <4> QED
        BY <4>1, <4>3, <3>1, <3>2
    <3>4. Succeeds(H, M, l, M[a])
      BY <3>2, <3>3 DEF Succeeds
    <3> QED
      BY <3>2, <3>4, <1>2
  <2> QED
    BY <2>1, <2>2
<1>4. ASSUME NEW i \in U PROVE H[i].prev \in All
  <2> DEFINE a == H[i].arch
             S == {j \in U : H[j].arch = a /\ j < i}
  <2>0. i \in Owning(H) /\ i \in Nat /\ k < i /\ a \in ArchRegs
    BY <1>1
  <2>1. CASE S = {}
    <3>1. PICK m \in U : /\ H[m].arch = a
                         /\ \A j \in U : H[j].arch = a => m <= j
                         /\ N[a] = H[m].prev
      BY <2>0, <1>h
    <3>2. m <= i /\ ~(m < i) /\ m \in Nat
      BY <3>1, <2>1, <1>1
    <3>3. m = i
      BY <3>2, <2>0
    <3> QED
      BY <3>1, <3>3, <2>0 DEF Held
  <2>2. CASE S # {}
    <3>1. PICK l \in S : \A j \in S : j <= l
      BY <2>2, <1>m
    <3>2. l \in U /\ l \in Nat /\ k < l /\ H[l].arch = a /\ l < i
      BY <3>1, <1>1
    <3>3. i \in LaterFor(H, l)
      BY <3>2, <2>0 DEF LaterFor
    <3>4. ASSUME NEW j \in LaterFor(H, l) PROVE i <= j
      <4>1. j \in Owning(H) /\ j \in Nat /\ l < j /\ H[j].arch = a
        BY <3>2, <1>1 DEF LaterFor
      <4>2. k < j
        BY <4>1, <3>2, <1>0
      <4>3. j \in U
        BY <4>1, <4>2, <1>1
      <4>4. ~(j < i)
        BY <4>1, <4>3, <3>1, <3>2
      <4> QED
        BY <4>1, <4>4, <2>0
    <3>5. Succeeds(H, M, l, H[i].prev)
      BY <3>3, <3>4 DEF Succeeds
    <3> QED
      BY <3>2, <3>5, <1>2
  <2> QED
    BY <2>1, <2>2
<1>5. ASSUME NEW i \in Owning(H) PROVE H[i].prev \in All /\ H[i].new \in All
  <2>1. CASE i \in U
    BY <2>1, <1>4 DEF Undone
  <2>2. CASE i \notin U
    <3>1. i \in Owning(G) /\ G[i] = H[i]
      BY <2>2, <1>1
    <3> QED
      BY <3>1 DEF Held, News
  <2> QED
    BY <2>1, <2>2
<1> HIDE DEF All
<1>6. Held(H, M) \subseteq All
  BY <1>3, <1>5 DEF Held, News
<1>7. \A i \in BrokenLinks(G, N) : i \notin U
  <2>1. ASSUME NEW i \in U, i \in Owning(G) PROVE FALSE
    BY <2>1, <1>0, <1>1
  <2> QED
    BY <2>1 DEF BrokenLinks
<1> QED
  BY <1>6, <1>7 DEF All, Undone, Gone

\* A fault in the mapping of a loses one register or breaks one link.
LEMMA HeldRemapped ==
  ASSUME NEW H, NEW n, Hist(H, n), NEW M, NEW N, NEW a \in ArchRegs,
         \A b \in ArchRegs : b # a => N[b] = M[b]
  PROVE  \/ /\ BrokenLinks(H, N) \subseteq BrokenLinks(H, M)
            /\ Held(H, M) \subseteq Held(H, N) \cup {M[a]}
         \/ Held(H, M) \subseteq Held(H, N)
<1>1. Held(H, M) \subseteq Held(H, N) \cup {M[a]}
  BY DEF Held
<1>2. ASSUME NEW i \in BrokenLinks(H, N), i \notin BrokenLinks(H, M)
      PROVE  M[a] \in News(H)
  <2>1. i \in Owning(H) /\ ~Succeeds(H, N, i, H[i].new) /\ Succeeds(H, M, i, H[i].new)
    BY <1>2 DEF BrokenLinks
  <2>2. N[H[i].arch] # M[H[i].arch] /\ H[i].new = M[H[i].arch]
    BY <2>1 DEF Succeeds
  <2>3. H[i].arch \in ArchRegs
    BY <2>1 DEF Owning, Hist
  <2>4. H[i].arch = a
    BY <2>2, <2>3
  <2> QED
    BY <2>1, <2>2, <2>4 DEF News
<1>3. M[a] \in News(H) => Held(H, M) \subseteq Held(H, N)
  BY <1>1 DEF Held
<1> QED
  BY <1>1, <1>2, <1>3
----------------------------------------------------------------------------
\* The registers that are free, on their way, at the root of a register's
\* links or a new register of the history: what a full squash would leave.
Base == Elements(freeList) \cup Elements(freeingInProgress)
          \cup Roots(historyBuffer, renameMap) \cup News(historyBuffer)
Broken == BrokenLinks(historyBuffer, renameMap)

\* All the registers some structure names.
Known == Elements(freeList) \cup Elements(freeingInProgress)
           \cup Held(historyBuffer, renameMap)

\* The ledger: a broken link counts as a fault that has yet to show, either
\* as a slot too many for the registers of Base or as a register no
\* structure names.
Balanced == OwnerSlots + Cardinality(Broken) <= faultCount + Cardinality(Base)
Spared == Cardinality(PhysRegs \ Known) + Cardinality(Broken) <= faultCount
Ledger == mode # "f4_field_stuck" => Balanced /\ Spared

\* Counting the images of positions.
LEMMA ImagesCounted ==
  ASSUME NEW S, IsFiniteSet(S), NEW f
  PROVE  /\ IsFiniteSet({f[x] : x \in S})
         /\ Cardinality({f[x] : x \in S}) <= Cardinality(S)
         /\ Cardinality({f[x] : x \in S}) \in Nat
<1> DEFINE T == {f[x] : x \in S}
           g == [x \in S |-> f[x]]
<1>1. g \in Surjection(S, T)
  BY DEF Surjection
<1> HIDE DEF T, g
<1>2. IsFiniteSet(T) /\ Cardinality(T) <= Cardinality(S)
  BY <1>1, FS_Surjection
<1>3. Cardinality(T) \in Nat
  BY <1>2, FS_CardinalityType
<1> QED
  BY <1>2, <1>3 DEF T

\* Losing the registers of X costs at most their number.
LEMMA LossCounted ==
  ASSUME NEW A, NEW B, NEW X, IsFiniteSet(B), IsFiniteSet(X), A \subseteq B \cup X
  PROVE  /\ Cardinality(A) \in Nat /\ Cardinality(B) \in Nat /\ Cardinality(X) \in Nat
         /\ Cardinality(A) <= Cardinality(B) + Cardinality(X)
<1>1. /\ IsFiniteSet(B \cup X)
      /\ Cardinality(B \cup X) = Cardinality(B) + Cardinality(X) - Cardinality(B \cap X)
  BY FS_Union
<1>2. IsFiniteSet(A) /\ Cardinality(A) <= Cardinality(B \cup X)
  BY <1>1, FS_Subset
<1>3. IsFiniteSet(B \cap X)
  BY FS_Subset
<1>4. /\ Cardinality(A) \in Nat /\ Cardinality(B) \in Nat /\ Cardinality(X) \in Nat
      /\ Cardinality(B \cap X) \in Nat
  BY <1>2, <1>3, FS_CardinalityType
<1> QED
  BY <1>1, <1>2, <1>4

\* Two disjoint parts of a finite set.
LEMMA DisjointCounted ==
  ASSUME NEW S, IsFiniteSet(S), NEW A \in SUBSET S, NEW B \in SUBSET S, A \cap B = {}
  PROVE  Cardinality(A) + Cardinality(B) <= Cardinality(S)
<1>1. IsFiniteSet(A) /\ IsFiniteSet(B)
  BY FS_Subset
<1>2. Cardinality(A \cap B) = 0
  BY FS_EmptySet
<1>3. /\ IsFiniteSet(A \cup B)
      /\ Cardinality(A \cup B) = Cardinality(A) + Cardinality(B) - Cardinality(A \cap B)
  BY <1>1, FS_Union
<1>4. /\ Cardinality(A) \in Nat /\ Cardinality(B) \in Nat /\ Cardinality(S) \in Nat
      /\ Cardinality(A \cup B) \in Nat
  BY <1>1, <1>3, FS_CardinalityType
<1>5. (A \cup B) \in SUBSET S
  OBVIOUS
<1>6. Cardinality(A \cup B) <= Cardinality(S)
  BY <1>5, FS_Subset
<1> QED
  BY <1>2, <1>3, <1>4, <1>6

\* The history as LinksAdded and its neighbours take it.
LEMMA HistoryIsHist == TypeOK => Hist(historyBuffer, Len(historyBuffer))
  BY HistoryTypes DEF Hist

\* Both sets are finite.
LedgerSets ==
    /\ IsFiniteSet(Base) /\ Cardinality(Base) \in Nat
    /\ IsFiniteSet(Broken) /\ Cardinality(Broken) \in Nat
    /\ Broken \in SUBSET (1 .. Len(historyBuffer))
    /\ IsFiniteSet(PhysRegs \ Known) /\ Cardinality(PhysRegs \ Known) \in Nat

\* Registers and positions are.
LEMMA LedgerFinite == TypeOK => LedgerSets
<1> SUFFICES ASSUME TypeOK PROVE LedgerSets
  OBVIOUS
<1>0. /\ Len(historyBuffer) \in Nat /\ DOMAIN historyBuffer = 1 .. Len(historyBuffer)
      /\ \A i \in 1 .. Len(historyBuffer) : /\ historyBuffer[i].new \in PhysRegs
                                            /\ historyBuffer[i].prev \in PhysRegs
  BY HistoryTypes
<1>1. Broken \in SUBSET (1 .. Len(historyBuffer))
  BY <1>0 DEF Broken, BrokenLinks, Owning
<1>2. Base \subseteq PhysRegs
  <2>1. Elements(freeList) \subseteq PhysRegs /\ Elements(freeingInProgress) \subseteq PhysRegs
    BY DEF TypeOK, Elements
  <2>2. Owning(historyBuffer) \subseteq 1 .. Len(historyBuffer)
    BY <1>0 DEF Owning
  <2>3. \A a \in Unrenamed(historyBuffer) : renameMap[a] \in PhysRegs
    BY DEF TypeOK, Unrenamed
  <2>4. \A i \in Oldest(historyBuffer) : historyBuffer[i].prev \in PhysRegs
    BY <2>2, <1>0 DEF Oldest
  <2>5. \A i \in Owning(historyBuffer) : historyBuffer[i].new \in PhysRegs
    BY <2>2, <1>0
  <2> QED
    BY <2>1, <2>3, <2>4, <2>5 DEF Base, Roots, News
<1>3. IsFiniteSet(PhysRegs)
  BY SizesAssumption, FS_Interval DEF PhysRegs
<1>4. IsFiniteSet(Base) /\ Cardinality(Base) \in Nat
  BY <1>2, <1>3, FS_Subset, FS_CardinalityType
<1>5. IsFiniteSet(Broken) /\ Cardinality(Broken) \in Nat
  BY <1>0, <1>1, PositionsFinite
<1>6. IsFiniteSet(PhysRegs \ Known) /\ Cardinality(PhysRegs \ Known) \in Nat
  BY <1>3, FS_Difference, FS_CardinalityType
<1> QED
  BY <1>1, <1>4, <1>5, <1>6 DEF LedgerSets

\* The same in the next state.
LEMMA LedgerFiniteNext == TypeOK' => LedgerSets'
  BY LedgerFinite, PTL

\* What the ledger is for: a register of Base is owned, unless it is the new
\* register of a broken link.
LEMMA LedgerBounds ==
  ASSUME ChaosTypeOK, Balanced, Spared
  PROVE  /\ OwnerSlots - Cardinality(Owned) <= faultCount
         /\ Cardinality(PhysRegs \ Owned) <= faultCount
<1> DEFINE H == historyBuffer
           X == {H[i].new : i \in Broken}
<1>t. TypeOK /\ faultCount \in Nat
  BY DEF ChaosTypeOK
<1>h. /\ Len(H) \in Nat /\ DOMAIN H = 1 .. Len(H)
      /\ \A i \in 1 .. Len(H) : /\ H[i].prev \in PhysRegs /\ H[i].arch \in ArchRegs
  BY <1>t, HistoryTypes
<1>p. Owning(H) = {i \in DOMAIN H : Renamed(H[i])}
  BY DEF Owning
<1>1. \A i \in Owning(H) : H[i].prev \in RenamedPrevs
  BY <1>p DEF RenamedPrevs
<1>2. \A a \in ArchRegs : renameMap[a] \in Mapped
  BY DEF Mapped
<1>3. ASSUME NEW i \in Owning(H), i \notin Broken PROVE H[i].new \in Mapped \cup RenamedPrevs
  <2>1. Succeeds(H, renameMap, i, H[i].new) /\ H[i].arch \in ArchRegs
    BY <1>3, <1>h, <1>p DEF Broken, BrokenLinks
  <2>2. \A j \in LaterFor(H, i) : j \in Owning(H)
    BY DEF LaterFor
  <2> QED
    BY <2>1, <2>2, <1>1, <1>2 DEF Succeeds
<1>4. Base \subseteq Owned \cup X /\ Known \subseteq Owned \cup X
  <2>1. \A a \in Unrenamed(H) : renameMap[a] \in Mapped
    BY <1>2 DEF Unrenamed
  <2>2. \A i \in Oldest(H) : H[i].prev \in RenamedPrevs
    BY <1>1 DEF Oldest
  <2>3. \A i \in Owning(H) : H[i].new \in Mapped \cup RenamedPrevs \cup X
    BY <1>3
  <2> HIDE DEF X
  <2> QED
    BY <2>1, <2>2, <2>3, <1>1, <1>2 DEF Base, Known, Owned, Roots, News, Held
<1>5. Owned \subseteq PhysRegs
  <2>1. /\ Elements(freeList) \subseteq PhysRegs
        /\ Elements(freeingInProgress) \subseteq PhysRegs
        /\ Mapped \subseteq PhysRegs
    BY <1>t DEF TypeOK, Elements, Mapped
  <2>2. RenamedPrevs \subseteq PhysRegs
    BY <1>h DEF RenamedPrevs
  <2> QED
    BY <2>1, <2>2 DEF Owned
<1>6. IsFiniteSet(Owned)
  <2>1. IsFiniteSet(PhysRegs)
    BY SizesAssumption, FS_Interval DEF PhysRegs
  <2> QED
    BY <2>1, <1>5, FS_Subset
<1>7. IsFiniteSet(X) /\ Cardinality(X) <= Cardinality(Broken) /\ Cardinality(X) \in Nat
  <2> DEFINE f == [i \in Broken |-> H[i].new]
  <2>1. X = {f[i] : i \in Broken}
    OBVIOUS
  <2>2. IsFiniteSet(Broken)
    BY <1>t, LedgerFinite DEF LedgerSets
  <2> HIDE DEF X, f
  <2> QED
    BY <2>1, <2>2, ImagesCounted
<1> HIDE DEF X
<1>8. /\ Cardinality(Base) <= Cardinality(Owned) + Cardinality(X)
      /\ Cardinality(Owned) \in Nat
  BY <1>4, <1>6, <1>7, LossCounted
<1>9. /\ Cardinality(Base) \in Nat /\ Cardinality(Broken) \in Nat
      /\ OwnerSlots \in Nat
      /\ IsFiniteSet(PhysRegs \ Known) /\ Cardinality(PhysRegs \ Known) \in Nat
  BY <1>t, LedgerFinite, SlotsCounted DEF SlotsSum, LedgerSets
<1>10. OwnerSlots - Cardinality(Owned) <= faultCount
  BY <1>t, <1>7, <1>8, <1>9 DEF Balanced
<1>11. /\ Cardinality(PhysRegs \ Owned) \in Nat
       /\ Cardinality(PhysRegs \ Owned) <= Cardinality(PhysRegs \ Known) + Cardinality(X)
  <2>1. PhysRegs \ Owned \subseteq (PhysRegs \ Known) \cup X
    BY <1>4
  <2> QED
    BY <2>1, <1>7, <1>9, LossCounted
<1>12. Cardinality(PhysRegs \ Owned) <= faultCount
  BY <1>t, <1>7, <1>9, <1>11 DEF Spared
<1> QED
  BY <1>10, <1>12

\* A step that loses the registers X from Base and Y from all structures, and
\* changes slots, links and faults by no more than that, keeps the ledger.
LEMMA LedgerKept ==
  ASSUME ChaosTypeOK, ChaosTypeOK', Balanced, Spared,
         NEW X, IsFiniteSet(X), Base \subseteq Base' \cup X,
         OwnerSlots' + Cardinality(Broken') + Cardinality(X) + faultCount
           <= OwnerSlots + Cardinality(Broken) + faultCount',
         NEW Y, IsFiniteSet(Y), Known \subseteq Known' \cup Y,
         Cardinality(Broken') + Cardinality(Y) + faultCount
           <= Cardinality(Broken) + faultCount'
  PROVE  Balanced' /\ Spared'
<1>1. TypeOK /\ TypeOK' /\ faultCount \in Nat /\ faultCount' \in Nat
  BY DEF ChaosTypeOK
<1>2. LedgerSets /\ LedgerSets' /\ SlotsSum /\ SlotsSum'
  BY <1>1, LedgerFinite, LedgerFiniteNext, SlotsCounted, SlotsCountedNext
<1>3. /\ Cardinality(Broken) \in Nat /\ Cardinality(Broken') \in Nat
      /\ OwnerSlots \in Nat /\ OwnerSlots' \in Nat
      /\ Cardinality(Base) \in Nat /\ Cardinality(Base') \in Nat
      /\ IsFiniteSet(Base')
      /\ IsFiniteSet(PhysRegs \ Known) /\ Cardinality(PhysRegs \ Known) \in Nat
  <2>1. OwnerSlots \in Nat /\ OwnerSlots' \in Nat
    BY <1>2 DEF SlotsSum
  <2>2. /\ Cardinality(Broken) \in Nat /\ Cardinality(Broken') \in Nat
        /\ Cardinality(Base) \in Nat /\ Cardinality(Base') \in Nat
        /\ IsFiniteSet(Base')
        /\ IsFiniteSet(PhysRegs \ Known) /\ Cardinality(PhysRegs \ Known) \in Nat
    BY <1>2, Zenon DEF LedgerSets
  <2> QED
    BY <2>1, <2>2
<1>4. Cardinality(X) \in Nat /\ Cardinality(Base) <= Cardinality(Base') + Cardinality(X)
  BY <1>3, LossCounted
<1>5. OwnerSlots + Cardinality(Broken) <= faultCount + Cardinality(Base)
  BY DEF Balanced
<1>6. OwnerSlots' + Cardinality(Broken') <= faultCount' + Cardinality(Base')
  BY <1>1, <1>3, <1>4, <1>5
<1>7. /\ Cardinality(Y) \in Nat /\ Cardinality(PhysRegs \ Known') \in Nat
      /\ Cardinality(PhysRegs \ Known') <= Cardinality(PhysRegs \ Known) + Cardinality(Y)
  <2>1. PhysRegs \ Known' \subseteq (PhysRegs \ Known) \cup Y
    OBVIOUS
  <2> QED
    BY <2>1, <1>3, LossCounted
<1>8. Cardinality(PhysRegs \ Known) + Cardinality(Broken) <= faultCount
  BY DEF Spared
<1>9. Cardinality(PhysRegs \ Known') + Cardinality(Broken') <= faultCount'
  BY <1>1, <1>3, <1>7, <1>8
<1>10. PhysRegs' = PhysRegs
  BY DEF PhysRegs
<1> QED
  BY <1>6, <1>9, <1>10 DEF Balanced, Spared

\* Steps that touch neither a list, the map nor the history.
LEMMA QuietBalance ==
  ASSUME Balanced, Spared,
         UNCHANGED <<freeList, freeingInProgress, historyBuffer, renameMap, faultCount>>
  PROVE  Balanced' /\ Spared'
<1>1. OwnerSlots' = OwnerSlots
  BY DEF OwnerSlots, Renamed
<1>2. Broken' = Broken
  BY DEF Broken
<1>3. Base' = Base /\ Known' = Known
  BY DEF Base, Known, Elements
<1>4. PhysRegs' = PhysRegs
  BY DEF PhysRegs
<1> QED
  BY <1>1, <1>2, <1>3, <1>4 DEF Balanced, Spared

\* Draining freeingInProgress.
LEMMA FreeSquashedBalance ==
  ASSUME ChaosTypeOK, ChaosTypeOK', Balanced, Spared, FreeSquashed, UNCHANGED chaosVars
  PROVE  Balanced' /\ Spared'
<1>1. CPUStep
  BY DEF CPUStep
<1>2. OwnerSlots' <= OwnerSlots /\ OwnerSlots \in Nat /\ OwnerSlots' \in Nat
  BY <1>1, CPUConserves
<1>3. Broken' = Broken /\ faultCount' = faultCount
  BY DEF Broken, FreeSquashed, chaosVars
<1>4. Elements(freeList') = Elements(freeList) \cup Elements(freeingInProgress)
  BY ConcatElements DEF ChaosTypeOK, TypeOK, FreeSquashed
<1>5. Base \subseteq Base' /\ Known \subseteq Known'
  <2>1. /\ Roots(historyBuffer, renameMap)' = Roots(historyBuffer, renameMap)
        /\ News(historyBuffer)' = News(historyBuffer)
        /\ Held(historyBuffer, renameMap)' = Held(historyBuffer, renameMap)
    BY DEF FreeSquashed
  <2>2. Elements(freeList)' = Elements(freeList')
    BY DEF Elements
  <2> QED
    BY <2>1, <2>2, <1>4 DEF Base, Known
<1>6. /\ Cardinality(Broken) \in Nat /\ faultCount \in Nat
  BY LedgerFinite DEF ChaosTypeOK, LedgerSets
<1>7. IsFiniteSet({}) /\ Cardinality({}) = 0
  BY FS_EmptySet
<1>8. /\ OwnerSlots' + Cardinality(Broken') + Cardinality({}) + faultCount
           <= OwnerSlots + Cardinality(Broken) + faultCount'
      /\ Cardinality(Broken') + Cardinality({}) + faultCount
           <= Cardinality(Broken) + faultCount'
  BY <1>2, <1>3, <1>6, <1>7
<1>9. Base \subseteq Base' \cup {} /\ Known \subseteq Known' \cup {}
  BY <1>5
<1> QED
  BY <1>7, <1>8, <1>9, LedgerKept

\* Popping the head of a list forgets at most that register.
LEMMA TailElements ==
  ASSUME NEW q \in Seq(PhysRegs), q # <<>>
  PROVE  /\ Elements(q) \subseteq Elements(Tail(q)) \cup {Head(q)}
         /\ Len(Tail(q)) = Len(q) - 1
<1>1. /\ Len(q) \in Nat /\ DOMAIN q = 1 .. Len(q)
      /\ Head(q) = q[1]
      /\ DOMAIN Tail(q) = 1 .. Len(q) - 1
      /\ Len(Tail(q)) = Len(q) - 1
      /\ \A i \in 1 .. Len(q) - 1 : Tail(q)[i] = q[i + 1]
  OBVIOUS
<1>2. \A i \in 1 .. Len(q) : i = 1 \/ (i - 1 \in 1 .. Len(q) - 1 /\ (i - 1) + 1 = i)
  BY <1>1
<1>3. \A i \in 1 .. Len(q) : i = 1 \/ q[i] = Tail(q)[i - 1]
  BY <1>1, <1>2
<1>4. ASSUME NEW x \in Elements(q) PROVE x \in Elements(Tail(q)) \cup {Head(q)}
  <2>1. PICK i \in 1 .. Len(q) : x = q[i]
    BY <1>1 DEF Elements
  <2>2. CASE i = 1
    BY <2>1, <2>2, <1>1
  <2>3. CASE i # 1
    <3>1. i - 1 \in DOMAIN Tail(q) /\ x = Tail(q)[i - 1]
      BY <2>1, <2>3, <1>1, <1>2, <1>3
    <3> QED
      BY <3>1 DEF Elements
  <2> QED
    BY <2>2, <2>3
<1> QED
  BY <1>1, <1>4

\* A rename.  The popped register is forgotten only when it is the one it
\* replaces, and then the entry owns no slot.
LEMMA RenameDestBalance ==
  ASSUME ChaosTypeOK, ChaosTypeOK', Balanced, Spared, UNCHANGED chaosVars,
         NEW s \in ArchRegs, NEW d \in ArchRegs, RenameDest(s, d)
  PROVE  Balanced' /\ Spared'
<1> DEFINE H == historyBuffer
           n == Len(H)
           M == renameMap
           h == [seq |-> seqNum + 1, arch |-> d, new |-> Head(freeList), prev |-> M[d]]
           r == Cardinality(RenamedEntries)
<1>t. /\ TypeOK /\ TypeOK' /\ faultCount \in Nat /\ faultCount' = faultCount
      /\ M \in [ArchRegs -> PhysRegs] /\ freeList \in Seq(PhysRegs) /\ freeList # <<>>
  BY DEF ChaosTypeOK, TypeOK, chaosVars, RenameDest, canRename
<1>h. Hist(H, n) /\ n \in Nat /\ DOMAIN H = 1 .. n
  BY <1>t, HistoryIsHist, HistoryTypes
<1>1. /\ H' = Append(H, h) /\ M' = [M EXCEPT ![d] = Head(freeList)]
      /\ freeList' = Tail(freeList) /\ freeingInProgress' = freeingInProgress
  BY DEF RenameDest
<1>2. /\ DOMAIN H' = 1 .. n + 1 /\ (\A i \in 1 .. n : H'[i] = H[i]) /\ H'[n + 1] = h
  BY <1>1, <1>t, <1>h DEF TypeOK
<1>3. /\ h.arch = d /\ h.new = Head(freeList) /\ h.prev = M[d]
      /\ Head(freeList) \in PhysRegs
  BY <1>t
<1>4. /\ Elements(freeList) \subseteq Elements(freeList') \cup {Head(freeList)}
      /\ Len(freeList') = Len(freeList) - 1
  BY <1>t, <1>1, TailElements
<1>5. /\ OwnerSlots = Len(freeList) + Len(freeingInProgress) + NumArch + r
      /\ Len(freeList) \in Nat /\ Len(freeingInProgress) \in Nat /\ NumArch \in Nat /\ r \in Nat
      /\ OwnerSlots' = Len(freeList') + Len(freeingInProgress') + NumArch + r'
      /\ Len(freeList') \in Nat /\ Len(freeingInProgress') \in Nat /\ r' \in Nat
  BY <1>t, SlotsCounted, SlotsCountedNext DEF SlotsSum
<1>o. OwnerSlots \in Nat /\ OwnerSlots' \in Nat
  BY <1>5
<1>6. /\ Cardinality(Broken) \in Nat /\ Cardinality(Broken') \in Nat /\ IsFiniteSet(Broken)
  BY <1>t, LedgerFinite, LedgerFiniteNext DEF LedgerSets
<1>e. Elements(freeList)' = Elements(freeList')
      /\ Elements(freeingInProgress)' = Elements(freeingInProgress)
  BY <1>1 DEF Elements
<1> HIDE DEF h
<1>7. CASE Renamed(h)
  <2>1. /\ Broken' \subseteq Broken
        /\ Roots(H, M) \subseteq Roots(H, M)'
        /\ News(H) \subseteq News(H)' /\ Head(freeList) \in News(H)'
        /\ Held(H, M) \subseteq Held(H, M)'
    <3>1. PICK G, N : G = H' /\ N = M'
      OBVIOUS
    <3>2. DOMAIN G = 1 .. n + 1 /\ (\A i \in 1 .. n : G[i] = H[i]) /\ G[n + 1] = h
      BY <3>1, <1>2
    <3>3. /\ h.arch \in ArchRegs /\ h.prev = M[h.arch]
          /\ N[h.arch] = h.new /\ \A a \in ArchRegs : a # h.arch => N[a] = M[a]
      BY <3>1, <1>1, <1>3, <1>t
    <3>4. AddedTo(H, n, M, h, G, N)
      BY <3>2, <3>3, <1>7, <1>h DEF AddedTo
    <3>5. /\ BrokenLinks(G, N) \subseteq BrokenLinks(H, M)
          /\ Roots(H, M) \subseteq Roots(G, N)
          /\ News(H) \subseteq News(G) /\ h.new \in News(G)
          /\ Held(H, M) \subseteq Held(G, N)
      BY <3>4, LinksAdded, HeldAdded
    <3> QED
      BY <3>1, <3>5, <1>3 DEF Broken
  <2>2. Base \subseteq Base' \cup {} /\ Known \subseteq Known' \cup {}
    <3>1. News(H)' \subseteq Held(H, M)'
      BY DEF Held
    <3> QED
      BY <3>1, <2>1, <1>4, <1>e DEF Base, Known
  <2>3. Cardinality(Broken') <= Cardinality(Broken)
    BY <2>1, <1>6, FS_Subset
  <2>4. r' <= r + 1
    BY <1>1, <1>t, EntriesAdded
  <2>5. IsFiniteSet({}) /\ Cardinality({}) = 0
    BY FS_EmptySet
  <2>6. OwnerSlots' <= OwnerSlots
    BY <2>4, <1>1, <1>4, <1>5
  <2>7. /\ OwnerSlots' + Cardinality(Broken') + Cardinality({}) + faultCount
             <= OwnerSlots + Cardinality(Broken) + faultCount'
        /\ Cardinality(Broken') + Cardinality({}) + faultCount
             <= Cardinality(Broken) + faultCount'
    BY <2>3, <2>5, <2>6, <1>o, <1>6, <1>t
  <2> QED
    BY <2>2, <2>5, <2>7, LedgerKept
<1>8. CASE ~Renamed(h)
  <2>1. M' = M
    <3>1. Head(freeList) = M[d]
      BY <1>3, <1>8 DEF Renamed
    <3> QED
      BY <3>1, <1>1, <1>t
  <2>2. Owning(H') = Owning(H) /\ \A i \in Owning(H) : H'[i] = H[i]
    <3>1. \A i \in 1 .. n + 1 : i \in 1 .. n \/ i = n + 1
      BY <1>h
    <3>2. \A i \in 1 .. n : i \in 1 .. n + 1
      BY <1>h
    <3> QED
      BY <3>1, <3>2, <1>2, <1>8, <1>h DEF Owning
  <2>3. PICK G : G = H'
    OBVIOUS
  <2>4. Owning(G) = Owning(H) /\ \A i \in Owning(H) : G[i] = H[i]
    BY <2>2, <2>3
  <2>5. \A i \in Owning(H) : LaterFor(G, i) = LaterFor(H, i)
    BY <2>4 DEF LaterFor
  <2>6. /\ BrokenLinks(G, M) = BrokenLinks(H, M) /\ Roots(G, M) = Roots(H, M)
        /\ News(G) = News(H) /\ Held(G, M) = Held(H, M)
    <3>1. \A i : \A j \in LaterFor(H, i) : j \in Owning(H)
      BY DEF LaterFor
    <3>2. \A i \in Owning(H) : Succeeds(G, M, i, G[i].new) <=> Succeeds(H, M, i, H[i].new)
      BY <2>4, <2>5, <3>1 DEF Succeeds
    <3>3. BrokenLinks(G, M) = BrokenLinks(H, M)
      BY <2>4, <3>2 DEF BrokenLinks
    <3>4. Oldest(G) = Oldest(H) /\ Unrenamed(G) = Unrenamed(H)
      BY <2>4 DEF Oldest, Unrenamed
    <3>5. \A i \in Oldest(H) : G[i] = H[i]
      BY <2>4 DEF Oldest
    <3>6. Roots(G, M) = Roots(H, M)
      BY <3>4, <3>5 DEF Roots
    <3>7. News(G) = News(H) /\ Held(G, M) = Held(H, M)
      BY <2>4 DEF News, Held
    <3> QED
      BY <3>3, <3>6, <3>7
  <2>7. /\ Broken' = Broken /\ Roots(H, M)' = Roots(H, M) /\ News(H)' = News(H)
        /\ Held(H, M)' = Held(H, M)
    BY <2>1, <2>3, <2>6 DEF Broken
  <2>8. Base \subseteq Base' \cup {Head(freeList)}
    BY <2>7, <1>4, <1>e DEF Base
  <2>k. Known \subseteq Known' \cup {}
    <3>1. Head(freeList) \in Held(H, M)
      BY <1>3, <1>8 DEF Renamed, Held
    <3> QED
      BY <3>1, <2>7, <1>4, <1>e DEF Known
  <2>9. r' = r
    <3>1. RenamedEntries' = Owning(H') /\ RenamedEntries = Owning(H)
      BY DEF RenamedEntries, Owning, Renamed
    <3> QED
      BY <3>1, <2>2
  <2>10. /\ IsFiniteSet({Head(freeList)}) /\ Cardinality({Head(freeList)}) = 1
         /\ IsFiniteSet({}) /\ Cardinality({}) = 0
    BY FS_Singleton, FS_EmptySet
  <2>11. OwnerSlots' = OwnerSlots - 1
    BY <2>9, <1>1, <1>4, <1>5
  <2>12. /\ OwnerSlots' + Cardinality(Broken') + Cardinality({Head(freeList)}) + faultCount
              <= OwnerSlots + Cardinality(Broken) + faultCount'
         /\ Cardinality(Broken') + Cardinality({}) + faultCount
              <= Cardinality(Broken) + faultCount'
    BY <2>7, <2>10, <2>11, <1>o, <1>6, <1>t
  <2> QED
    BY <2>8, <2>k, <2>10, <2>12, LedgerKept
<1> QED
  BY <1>7, <1>8

\* What is left of a sequence once its first k, or all but its first k,
\* elements are gone.
LEMMA PartsOfSeq ==
  ASSUME NEW S, NEW q \in Seq(S), NEW k \in 0 .. Len(q)
  PROVE  /\ DOMAIN SubSeq(q, k + 1, Len(q)) = 1 .. Len(q) - k
         /\ \A i \in 1 .. Len(q) - k : SubSeq(q, k + 1, Len(q))[i] = q[i + k]
         /\ DOMAIN SubSeq(q, 1, k) = 1 .. k
         /\ \A i \in 1 .. k : SubSeq(q, 1, k)[i] = q[i]
<1>1. Len(q) \in Nat /\ k \in Nat /\ k <= Len(q)
  OBVIOUS
<1>2. /\ DOMAIN SubSeq(q, k + 1, Len(q)) = 1 .. Len(q) - k
      /\ \A i \in 1 .. Len(q) - k : SubSeq(q, k + 1, Len(q))[i] = q[i + k]
  BY <1>1
<1>3. /\ DOMAIN SubSeq(q, 1, k) = 1 .. k
      /\ \A i \in 1 .. k : SubSeq(q, 1, k)[i] = q[i]
  BY <1>1
<1> QED
  BY <1>2, <1>3

\* Retiring: the links of the retired entries leave the count of broken ones
\* as their new registers leave Base.
LEMMA RetireBalance ==
  ASSUME ChaosTypeOK, ChaosTypeOK', Balanced, Spared, NEW sn \in 0 .. doneSeqNum, RetireHistory(sn)
  PROVE  Balanced' /\ Spared'
<1> DEFINE H == historyBuffer
           n == Len(H)
           M == renameMap
<1>t. /\ TypeOK /\ TypeOK' /\ faultCount \in Nat
  BY DEF ChaosTypeOK
<1>h. Hist(H, n) /\ n \in Nat /\ DOMAIN H = 1 .. n
  BY <1>t, HistoryIsHist, HistoryTypes
<1>1. PICK k \in 1 .. n :
        /\ freeList' = freeList \o Freed(RenamedUpTo(k))
        /\ H' = SubSeq(H, k + 1, n)
  BY DEF RetireHistory, Freed, RenamedUpTo
<1>2. /\ M' = M /\ freeingInProgress' = freeingInProgress /\ faultCount' = faultCount
  BY DEF RetireHistory, chaosVars
<1>3. CPUStep
  BY DEF CPUStep
<1>4. OwnerSlots' <= OwnerSlots /\ OwnerSlots \in Nat /\ OwnerSlots' \in Nat
  BY <1>3, CPUConserves
<1> DEFINE Old == {j \in Broken : j <= k}
           New == {j \in Broken : ~(j <= k)}
           X == {H[i].new : i \in Old}
           P == {H[i].prev : i \in RenamedUpTo(k)}
<1>5. PICK G : G = H'
  OBVIOUS
<1>6. RetiredFrom(H, n, k, G)
  <2>1. DOMAIN H' = 1 .. n - k /\ \A i \in 1 .. n - k : H'[i] = H[i + k]
    <3>1. H \in Seq(RenameHistory) /\ k \in 0 .. Len(H)
      BY <1>h, <1>t DEF TypeOK
    <3> HIDE DEF H
    <3> QED
      BY <3>1, <1>1, PartsOfSeq
  <2> QED
    BY <2>1, <1>5, <1>h DEF RetiredFrom
<1>7. /\ \A i \in BrokenLinks(G, M) : i + k \in BrokenLinks(H, M) /\ k < i + k /\ i \in Nat
      /\ Roots(H, M) \cup News(H) \subseteq
           Roots(G, M) \cup News(G)
             \cup {H[i].prev : i \in {j \in 1 .. k : Renamed(H[j])}}
             \cup {H[i].new : i \in {j \in BrokenLinks(H, M) : j <= k}}
  <2>1. \A Q :
         /\ \A i \in BrokenLinks(G, Q) : i + k \in BrokenLinks(H, Q) /\ k < i + k /\ i \in Nat
         /\ Roots(H, Q) \cup News(H) \subseteq
              Roots(G, Q) \cup News(G)
                \cup {H[i].prev : i \in {j \in 1 .. k : Renamed(H[j])}}
                \cup {H[i].new : i \in {j \in BrokenLinks(H, Q) : j <= k}}
    BY <1>6, LinksRetired
  <2> QED
    BY <2>1, Zenon
<1>8. /\ Broken' = BrokenLinks(G, M) /\ Broken = BrokenLinks(H, M)
      /\ Roots(H, M)' = Roots(G, M) /\ News(H)' = News(G)
  BY <1>2, <1>5 DEF Broken
<1>9. /\ Roots(H, M) \cup News(H) \subseteq Roots(H, M)' \cup News(H)' \cup P \cup X
      /\ Held(H, M) \subseteq Held(H, M)' \cup P \cup X
  <2>1. \A Q : Held(H, Q) \subseteq
                 Held(G, Q) \cup {H[i].prev : i \in {j \in 1 .. k : Renamed(H[j])}}
                   \cup {H[i].new : i \in {j \in BrokenLinks(H, Q) : j <= k}}
    BY <1>6, HeldRetired
  <2>2. Held(H, M) \subseteq Held(G, M) \cup P \cup X
    BY <2>1, <1>8 DEF RenamedUpTo
  <2>3. Held(H, M)' = Held(G, M)
    BY <1>2, <1>5
  <2>4. Roots(H, M) \cup News(H) \subseteq Roots(H, M)' \cup News(H)' \cup P \cup X
    BY <1>7, <1>8 DEF RenamedUpTo
  <2> QED
    BY <2>2, <2>3, <2>4
<1>10. Elements(freeList)' = Elements(freeList) \cup P
  <2>1. RenamedUpTo(k) \in SUBSET (1 .. n)
    BY <1>h DEF RenamedUpTo
  <2>2. Freed(RenamedUpTo(k)) \in Seq(PhysRegs) /\ Elements(Freed(RenamedUpTo(k))) = P
    BY <2>1, <1>t, FreedSeq
  <2>3. Elements(freeList') = Elements(freeList) \cup Elements(Freed(RenamedUpTo(k)))
    BY <2>2, <1>1, <1>t, ConcatElements DEF TypeOK
  <2>4. Elements(freeList)' = Elements(freeList')
    BY DEF Elements
  <2> QED
    BY <2>2, <2>3, <2>4
<1>11. Elements(freeingInProgress)' = Elements(freeingInProgress)
  BY <1>2 DEF Elements
<1> HIDE DEF P, X
<1>12. Base \subseteq Base' \cup X /\ Known \subseteq Known' \cup X
  BY <1>9, <1>10, <1>11 DEF Base, Known
<1>13. /\ IsFiniteSet(Broken) /\ Broken \in SUBSET (1 .. n)
       /\ Cardinality(Broken) \in Nat /\ Cardinality(Broken') \in Nat /\ IsFiniteSet(Broken')
  BY <1>t, LedgerFinite, LedgerFiniteNext DEF LedgerSets
<1>14. /\ IsFiniteSet(Old) /\ IsFiniteSet(New)
       /\ Cardinality(Old) \in Nat /\ Cardinality(New) \in Nat
  <2>1. Old \in SUBSET Broken /\ New \in SUBSET Broken
    OBVIOUS
  <2> QED
    BY <2>1, <1>13, FS_Subset, FS_CardinalityType
<1>15. Cardinality(Broken) = Cardinality(Old) + Cardinality(New)
  <2>1. Old \cup New = Broken /\ Old \cap New = {}
    OBVIOUS
  <2>2. Cardinality(Old \cap New) = 0
    BY <2>1, FS_EmptySet
  <2> HIDE DEF Old, New
  <2>3. Cardinality(Old \cup New) = Cardinality(Old) + Cardinality(New) - Cardinality(Old \cap New)
    BY <1>14, FS_Union
  <2>4. Cardinality(Old \cup New) = Cardinality(Old) + Cardinality(New)
    BY <2>2, <2>3, <1>14
  <2> QED
    BY <2>1, <2>4, Zenon
<1>16. Cardinality(Broken') <= Cardinality(New)
  <2> DEFINE g == [i \in Broken' |-> i + k]
  <2>1. \A i \in Broken' : i + k \in New /\ i \in Nat
    <3>1. ASSUME NEW i \in Broken' PROVE i + k \in Broken /\ k < i + k /\ i \in Nat
      BY <1>7, <1>8
    <3>2. ASSUME NEW i \in Nat, k < i + k PROVE ~(i + k <= k)
      BY <3>2, <1>h
    <3> QED
      BY <3>1, <3>2
  <2>2. \A i, j \in Broken' : i + k = j + k => i = j
    BY <2>1, <1>h
  <2> HIDE DEF New
  <2>3. g \in Injection(Broken', New)
    BY <2>1, <2>2 DEF Injection, IsInjective
  <2> HIDE DEF g
  <2> QED
    BY <2>3, <1>14, FS_Injection
<1>17. IsFiniteSet(X) /\ Cardinality(X) <= Cardinality(Old) /\ Cardinality(X) \in Nat
  <2> DEFINE f == [i \in Old |-> H[i].new]
  <2>1. X = {f[i] : i \in Old}
    BY DEF X
  <2> HIDE DEF f, Old
  <2> QED
    BY <2>1, <1>14, ImagesCounted
<1> HIDE DEF Old, New
<1>18. /\ OwnerSlots' + Cardinality(Broken') + Cardinality(X) + faultCount
            <= OwnerSlots + Cardinality(Broken) + faultCount'
       /\ Cardinality(Broken') + Cardinality(X) + faultCount
            <= Cardinality(Broken) + faultCount'
  <2>1. PICK b, bp, o, w, x \in Nat :
          /\ b = Cardinality(Broken) /\ bp = Cardinality(Broken')
          /\ o = Cardinality(Old) /\ w = Cardinality(New) /\ x = Cardinality(X)
    BY <1>13, <1>14, <1>17
  <2>2. b = o + w /\ bp <= w /\ x <= o
    BY <2>1, <1>15, <1>16, <1>17
  <2>3. bp + x <= b
    BY <2>2
  <2>4. PICK s, sp, c \in Nat :
          s = OwnerSlots /\ sp = OwnerSlots' /\ c = faultCount /\ c = faultCount'
    BY <1>2, <1>4, <1>t
  <2>5. sp <= s
    BY <2>4, <1>4
  <2>6. sp + bp + x + c <= s + b + c /\ bp + x + c <= b + c
    BY <2>3, <2>5
  <2> QED
    BY <2>1, <2>4, <2>6
<1> QED
  BY <1>12, <1>17, <1>18, LedgerKept

\* A squash: what it does not claim moves from the history to
\* freeingInProgress, and each claimed register is a fault.
LEMMA SquashBalance ==
  ASSUME ChaosTypeOK, ChaosTypeOK', Balanced, Spared,
         NEW sn \in doneSeqNum .. seqNum, SquashHistory(sn)
  PROVE  Balanced' /\ Spared'
<1> DEFINE H == historyBuffer
           n == Len(H)
           M == renameMap
           r == Cardinality(RenamedEntries)
<1>t. /\ TypeOK /\ TypeOK' /\ faultCount \in Nat /\ faultCount' \in Nat
  BY DEF ChaosTypeOK
<1>h. Hist(H, n) /\ n \in Nat /\ DOMAIN H = 1 .. n
  BY <1>t, HistoryIsHist, HistoryTypes
<1>1. PICK k \in 0 .. n :
        /\ M' = Restored(RenamedAfter(k))
        /\ H' = SubSeq(H, 1, k)
        /\ \E leaks \in SUBSET RenamedAfter(k) :
             /\ freeingInProgress' = freeingInProgress \o Released(RenamedAfter(k), leaks)
             /\ faultCount' = faultCount + Cardinality(leaks)
        /\ freeList' = freeList
  BY DEF SquashHistory, RenamedAfter
<1> DEFINE U == RenamedAfter(k)
<1>2. PICK leaks \in SUBSET U :
             /\ freeingInProgress' = freeingInProgress \o Released(U, leaks)
             /\ faultCount' = faultCount + Cardinality(leaks)
  BY <1>1
<1>3. U = {i \in k + 1 .. n : Renamed(H[i])} /\ U \in SUBSET (1 .. n)
  BY <1>h DEF RenamedAfter
<1>r. M' = Restored(U)
  BY <1>1
<1> HIDE DEF U
<1>4. /\ Released(U, leaks) \in Seq(PhysRegs)
      /\ Len(Released(U, leaks)) = Cardinality(U \ leaks)
      /\ Elements(Released(U, leaks)) = {H[i].new : i \in U \ leaks}
  BY <1>t, <1>2, <1>3, ReleasedSeq
<1>5. PICK G, N : G = H' /\ N = M'
  OBVIOUS
<1>6. UndoneFrom(H, n, M, k, U, G, N)
  <2>1. DOMAIN G = 1 .. k /\ \A i \in 1 .. k : G[i] = H[i]
    <3>1. H \in Seq(RenameHistory) /\ k \in 0 .. Len(H) /\ G = SubSeq(H, 1, k)
      BY <1>1, <1>5, <1>t DEF TypeOK
    <3> HIDE DEF H
    <3> QED
      BY <3>1, PartsOfSeq
  <2>2. \A a \in ArchRegs :
          \/ (\A i \in U : H[i].arch # a) /\ N[a] = M[a]
          \/ \E i \in U : /\ H[i].arch = a
                          /\ \A j \in U : H[j].arch = a => i <= j
                          /\ N[a] = H[i].prev
    <3>1. N = Restored(U)
      BY <1>5, <1>r
    <3>2. \A a \in ArchRegs :
          \/ (\A i \in U : H[i].arch # a) /\ Restored(U)[a] = M[a]
          \/ \E i \in U : /\ H[i].arch = a
                          /\ \A j \in U : H[j].arch = a => i <= j
                          /\ Restored(U)[a] = H[i].prev
      BY <1>3, <1>t, RestoredValue
    <3> QED
      BY <3>1, <3>2, Zenon
  <2> QED
    BY <2>1, <2>2, <1>3, <1>h DEF UndoneFrom
<1>7. /\ BrokenLinks(G, N) \subseteq BrokenLinks(H, M)
      /\ Roots(H, M) \subseteq Roots(G, N)
      /\ News(H) = News(G) \cup {H[i].new : i \in U}
      /\ Held(H, M) \subseteq
           Held(G, N) \cup {H[i].new : i \in U}
             \cup {SuccessorOf(H, M, i) : i \in {j \in BrokenLinks(H, M) : j \in U}}
      /\ \A i \in BrokenLinks(G, N) : i \notin U
  BY <1>6, LinksUndone, HeldUndone
<1> DEFINE Cut == {j \in Broken : j \in U}
           Z == {SuccessorOf(H, M, i) : i \in Cut}
           X == {H[i].new : i \in leaks}
<1>8. /\ Broken' \subseteq Broken /\ Roots(H, M) \subseteq Roots(H, M)'
      /\ News(H) = News(H)' \cup {H[i].new : i \in U}
      /\ Held(H, M) \subseteq Held(H, M)' \cup {H[i].new : i \in U} \cup Z
      /\ Broken' \cap Cut = {}
  BY <1>5, <1>7 DEF Broken
<1> HIDE DEF Z
<1>9. Base \subseteq Base' \cup X /\ Known \subseteq Known' \cup (X \cup Z)
  <2>1. Elements(freeingInProgress') =
          Elements(freeingInProgress) \cup Elements(Released(U, leaks))
    <3>1. freeingInProgress \in Seq(PhysRegs)
      BY <1>t DEF TypeOK
    <3> QED
      BY <3>1, <1>2, <1>4, ConcatElements
  <2>2. Elements(freeingInProgress)' = Elements(freeingInProgress')
        /\ Elements(freeList)' = Elements(freeList)
    BY <1>1 DEF Elements
  <2>3. {H[i].new : i \in U} = Elements(Released(U, leaks)) \cup X
    BY <1>4, <1>2
  <2> HIDE DEF X
  <2> QED
    BY <2>1, <2>2, <2>3, <1>8 DEF Base, Known
<1>10. /\ IsFiniteSet(Broken) /\ Cardinality(Broken) \in Nat /\ Cardinality(Broken') \in Nat
  BY <1>t, LedgerFinite, LedgerFiniteNext DEF LedgerSets
<1>11. Cardinality(Broken') <= Cardinality(Broken)
  BY <1>8, <1>10, FS_Subset
<1>12. /\ IsFiniteSet(U) /\ Cardinality(U) \in Nat
       /\ IsFiniteSet(leaks) /\ Cardinality(leaks) \in Nat
  <2>1. IsFiniteSet(U) /\ Cardinality(U) \in Nat
    BY <1>3, <1>h, PositionsFinite
  <2> QED
    BY <2>1, <1>2, FS_Subset, FS_CardinalityType
<1>13. Cardinality(U \ leaks) = Cardinality(U) - Cardinality(leaks)
  <2>1. U \cap leaks = leaks
    BY <1>2
  <2> QED
    BY <2>1, <1>12, FS_Difference
<1>14. IsFiniteSet(X) /\ Cardinality(X) <= Cardinality(leaks) /\ Cardinality(X) \in Nat
  <2> DEFINE f == [i \in leaks |-> H[i].new]
  <2>1. X = {f[i] : i \in leaks}
    OBVIOUS
  <2> HIDE DEF f, X
  <2> QED
    BY <2>1, <1>12, ImagesCounted
<1>z. /\ IsFiniteSet(X \cup Z) /\ Cardinality(X \cup Z) \in Nat
      /\ Cardinality(Broken') + Cardinality(X \cup Z) <= Cardinality(Broken) + Cardinality(X)
  <2>1. Cut \in SUBSET Broken
    OBVIOUS
  <2>2. IsFiniteSet(Cut) /\ Cardinality(Cut) \in Nat
    BY <2>1, <1>10, FS_Subset, FS_CardinalityType
  <2>3. IsFiniteSet(Z) /\ Cardinality(Z) <= Cardinality(Cut) /\ Cardinality(Z) \in Nat
    <3> DEFINE f == [i \in Cut |-> SuccessorOf(H, M, i)]
    <3>1. Z = {f[i] : i \in Cut}
      BY DEF Z
    <3> HIDE DEF f, Cut
    <3> QED
      BY <3>1, <2>2, ImagesCounted
  <2> HIDE DEF X, Cut
  <2>4. Cardinality(Broken') + Cardinality(Cut) <= Cardinality(Broken)
    BY <2>1, <1>8, <1>10, DisjointCounted
  <2>5. /\ IsFiniteSet(X \cup Z) /\ Cardinality(X \cup Z) \in Nat
        /\ Cardinality(X \cup Z) <= Cardinality(X) + Cardinality(Z)
    <3>1. IsFiniteSet(X \cup Z)
      BY <2>3, <1>14, FS_Union
    <3> QED
      BY <3>1, <2>3, <1>14, LossCounted
  <2> QED
    BY <2>2, <2>3, <2>4, <2>5, <1>10, <1>14
<1> HIDE DEF X
<1>15. /\ OwnerSlots = Len(freeList) + Len(freeingInProgress) + NumArch + r
       /\ Len(freeList) \in Nat /\ Len(freeingInProgress) \in Nat /\ NumArch \in Nat /\ r \in Nat
       /\ OwnerSlots' = Len(freeList') + Len(freeingInProgress') + NumArch + r'
  BY <1>t, SlotsCounted, SlotsCountedNext DEF SlotsSum
<1>16. /\ r' = Cardinality(RenamedUpTo(k)) /\ Cardinality(RenamedUpTo(k)) \in Nat
       /\ r = Cardinality(RenamedUpTo(k)) + Cardinality(U)
  <2>1. r' = Cardinality(RenamedUpTo(k))
    BY <1>1, <1>t, EntriesKept
  <2> QED
    BY <2>1, <1>t, EntriesSplit DEF U
<1>17. Len(freeingInProgress') = Len(freeingInProgress) + Cardinality(U \ leaks)
  <2>1. \A y, z \in Seq(PhysRegs) : Len(y \o z) = Len(y) + Len(z)
    OBVIOUS
  <2> QED
    <3>1. freeingInProgress \in Seq(PhysRegs)
      BY <1>t DEF TypeOK
    <3>2. Len(freeingInProgress \o Released(U, leaks))
            = Len(freeingInProgress) + Len(Released(U, leaks))
      BY <2>1, <3>1, <1>4, Zenon
    <3> QED
      BY <3>2, <1>2, <1>4, Zenon
<1> HIDE DEF r
<1>18. PICK u, a, x \in Nat : /\ u = Cardinality(RenamedUpTo(k)) /\ a = Cardinality(U)
                              /\ x = Cardinality(leaks)
  BY <1>12, <1>16
<1>19. /\ r = u + a /\ r' = u /\ Len(freeList') = Len(freeList)
       /\ Len(freeingInProgress') = Len(freeingInProgress) + (a - x)
       /\ faultCount' = faultCount + x
  BY <1>1, <1>2, <1>13, <1>16, <1>17, <1>18
<1>20. OwnerSlots \in Nat /\ OwnerSlots' = OwnerSlots - x
  BY <1>15, <1>19
<1>21. Cardinality(X) \in Nat /\ Cardinality(X) <= x
  BY <1>14, <1>18
<1>22. OwnerSlots' + Cardinality(Broken') + Cardinality(X) + faultCount
           <= OwnerSlots + Cardinality(Broken) + faultCount'
  <2>1. PICK b, bp, y, s, c \in Nat :
          /\ b = Cardinality(Broken) /\ bp = Cardinality(Broken') /\ y = Cardinality(X)
          /\ s = OwnerSlots /\ c = faultCount
    BY <1>10, <1>20, <1>21, <1>t
  <2>2. bp <= b /\ y <= x /\ OwnerSlots' = s - x /\ faultCount' = c + x
    BY <2>1, <1>11, <1>19, <1>20, <1>21
  <2>3. (s - x) + bp + y + c <= s + b + (c + x)
    BY <2>2
  <2> QED
    BY <2>1, <2>2, <2>3
<1>23. Cardinality(Broken') + Cardinality(X \cup Z) + faultCount
           <= Cardinality(Broken) + faultCount'
  <2>1. PICK b, bp, y, z, c \in Nat :
          /\ b = Cardinality(Broken) /\ bp = Cardinality(Broken') /\ y = Cardinality(X)
          /\ z = Cardinality(X \cup Z) /\ c = faultCount
    BY <1>10, <1>21, <1>z, <1>t
  <2>2. bp + z <= b + y /\ y <= x /\ faultCount' = c + x
    BY <2>1, <1>19, <1>21, <1>z
  <2>3. bp + z + c <= b + (c + x)
    BY <2>2
  <2> QED
    BY <2>1, <2>2, <2>3
<1> QED
  BY <1>9, <1>14, <1>22, <1>z, <1>23, LedgerKept

\* A counted fault in the rename map.
LEMMA RemapBalance ==
  ASSUME ChaosTypeOK, ChaosTypeOK', Balanced, Spared, NEW a \in ArchRegs, NEW p \in PhysRegs,
         Remap(a, p)
  PROVE  Balanced' /\ Spared'
<1> DEFINE H == historyBuffer
           n == Len(H)
           M == renameMap
<1>t. /\ TypeOK /\ TypeOK' /\ faultCount \in Nat /\ M \in [ArchRegs -> PhysRegs]
  BY DEF ChaosTypeOK, TypeOK
<1>h. Hist(H, n)
  BY <1>t, HistoryIsHist
<1>1. /\ M' = [M EXCEPT ![a] = p] /\ faultCount' = faultCount + 1
      /\ UNCHANGED <<freeList, freeingInProgress, historyBuffer>>
  BY DEF Remap
<1>2. PICK N : N = M'
  OBVIOUS
<1>3. \A b \in ArchRegs : b # a => N[b] = M[b]
  BY <1>1, <1>2, <1>t
<1>4. \/ /\ BrokenLinks(H, N) \subseteq BrokenLinks(H, M)
         /\ Roots(H, M) \subseteq Roots(H, N) \cup {M[a]}
      \/ /\ \E x : BrokenLinks(H, N) \subseteq BrokenLinks(H, M) \cup {x}
         /\ Roots(H, M) \subseteq Roots(H, N)
  BY <1>h, <1>3, LinksRemapped
<1>k. \/ /\ BrokenLinks(H, N) \subseteq BrokenLinks(H, M)
         /\ Held(H, M) \subseteq Held(H, N) \cup {M[a]}
      \/ Held(H, M) \subseteq Held(H, N)
  BY <1>h, <1>3, HeldRemapped
<1>5. /\ Broken' = BrokenLinks(H, N) /\ Broken = BrokenLinks(H, M)
      /\ Roots(H, M)' = Roots(H, N) /\ News(H)' = News(H)
      /\ Held(H, M)' = Held(H, N)
      /\ Elements(freeList)' = Elements(freeList)
      /\ Elements(freeingInProgress)' = Elements(freeingInProgress)
  BY <1>1, <1>2 DEF Broken, Elements
<1>6. OwnerSlots' = OwnerSlots
  BY <1>1 DEF OwnerSlots, Renamed
<1>7. /\ OwnerSlots \in Nat /\ IsFiniteSet(Broken)
      /\ Cardinality(Broken) \in Nat /\ Cardinality(Broken') \in Nat
  BY <1>t, LedgerFinite, LedgerFiniteNext, SlotsCounted DEF LedgerSets, SlotsSum
<1>8. /\ IsFiniteSet({M[a]}) /\ Cardinality({M[a]}) = 1
      /\ IsFiniteSet({}) /\ Cardinality({}) = 0
  BY FS_Singleton, FS_EmptySet
<1>9. Broken' \subseteq Broken => Cardinality(Broken') <= Cardinality(Broken)
  BY <1>7, FS_Subset
<1>10. Cardinality(Broken') <= Cardinality(Broken) + 1
  <2>1. PICK x : Broken' \subseteq Broken \cup {x}
    BY <1>4, <1>5
  <2>2. IsFiniteSet({x}) /\ Cardinality({x}) = 1
    BY FS_Singleton
  <2> QED
    BY <2>1, <2>2, <1>7, LossCounted
<1>11. PICK X : /\ IsFiniteSet(X) /\ Base \subseteq Base' \cup X
                /\ OwnerSlots' + Cardinality(Broken') + Cardinality(X) + faultCount
                     <= OwnerSlots + Cardinality(Broken) + faultCount'
  <2>1. CASE Broken' \subseteq Broken /\ Roots(H, M) \subseteq Roots(H, M)' \cup {M[a]}
    <3>1. Base \subseteq Base' \cup {M[a]}
      BY <2>1, <1>5 DEF Base
    <3>2. OwnerSlots' + Cardinality(Broken') + Cardinality({M[a]}) + faultCount
            <= OwnerSlots + Cardinality(Broken) + faultCount'
      BY <2>1, <1>1, <1>6, <1>7, <1>8, <1>9, <1>t
    <3> QED
      BY <3>1, <3>2, <1>8
  <2>2. CASE Roots(H, M) \subseteq Roots(H, M)'
    <3>1. Base \subseteq Base' \cup {}
      BY <2>2, <1>5 DEF Base
    <3>2. OwnerSlots' + Cardinality(Broken') + Cardinality({}) + faultCount
            <= OwnerSlots + Cardinality(Broken) + faultCount'
      BY <1>1, <1>6, <1>7, <1>8, <1>10, <1>t
    <3> QED
      BY <3>1, <3>2, <1>8
  <2> QED
    BY <2>1, <2>2, <1>4, <1>5
<1>12. PICK Y : /\ IsFiniteSet(Y) /\ Known \subseteq Known' \cup Y
                /\ Cardinality(Broken') + Cardinality(Y) + faultCount
                     <= Cardinality(Broken) + faultCount'
  <2>1. CASE Broken' \subseteq Broken /\ Held(H, M) \subseteq Held(H, M)' \cup {M[a]}
    <3>1. Known \subseteq Known' \cup {M[a]}
      BY <2>1, <1>5 DEF Known
    <3>2. Cardinality(Broken') + Cardinality({M[a]}) + faultCount
            <= Cardinality(Broken) + faultCount'
      BY <2>1, <1>1, <1>7, <1>8, <1>9, <1>t
    <3> QED
      BY <3>1, <3>2, <1>8
  <2>2. CASE Held(H, M) \subseteq Held(H, M)'
    <3>1. Known \subseteq Known' \cup {}
      BY <2>2, <1>5 DEF Known
    <3>2. Cardinality(Broken') + Cardinality({}) + faultCount
            <= Cardinality(Broken) + faultCount'
      BY <1>1, <1>7, <1>8, <1>10, <1>t
    <3> QED
      BY <3>1, <3>2, <1>8
  <2> QED
    BY <2>1, <2>2, <1>k, <1>5
<1> QED
  BY <1>11, <1>12, LedgerKept

\* mark_free adds a slot for its fault; pop_wrong also drops one.
LEMMA MarkFreeBalance ==
  ASSUME ChaosTypeOK, ChaosTypeOK', Balanced, Spared, NEW p \in PhysRegs, MarkFree(p)
  PROVE  Balanced' /\ Spared'
<1> DEFINE F == freeList
           q == Append(F, p)
           r == Cardinality(RenamedEntries)
<1>t. /\ TypeOK /\ TypeOK' /\ faultCount \in Nat /\ F \in Seq(PhysRegs)
  BY DEF ChaosTypeOK, TypeOK
<1>1. /\ faultCount' = faultCount + 1
      /\ UNCHANGED <<renameMap, freeingInProgress, historyBuffer>>
      /\ F' = q \/ F' = Tail(q)
  BY DEF MarkFree
<1>2. /\ q \in Seq(PhysRegs) /\ q # <<>> /\ Len(q) = Len(F) + 1
      /\ \A i \in DOMAIN F : i \in DOMAIN q /\ q[i] = F[i]
  BY <1>t
<1>3. Elements(F) \subseteq Elements(q)
  BY <1>2, Zenon DEF Elements
<1> HIDE DEF q
<1>4. /\ Broken' = Broken
      /\ Roots(historyBuffer, renameMap)' = Roots(historyBuffer, renameMap)
      /\ News(historyBuffer)' = News(historyBuffer)
      /\ Held(historyBuffer, renameMap)' = Held(historyBuffer, renameMap)
      /\ Elements(freeingInProgress)' = Elements(freeingInProgress)
      /\ RenamedEntries' = RenamedEntries
      /\ Elements(F)' = Elements(F')
  BY <1>1 DEF Broken, Elements, RenamedEntries, Renamed
<1>5. /\ OwnerSlots = Len(F) + Len(freeingInProgress) + NumArch + r
      /\ Len(F) \in Nat /\ Len(freeingInProgress) \in Nat /\ NumArch \in Nat /\ r \in Nat
      /\ OwnerSlots' = Len(F') + Len(freeingInProgress') + NumArch + r'
  BY <1>t, SlotsCounted, SlotsCountedNext DEF SlotsSum
<1>6. OwnerSlots \in Nat /\ Cardinality(Broken) \in Nat
  BY <1>5, <1>t, LedgerFinite DEF LedgerSets
<1>7. CASE F' = q
  <2>1. Base \subseteq Base' \cup {} /\ Known \subseteq Known' \cup {}
    BY <1>3, <1>4, <1>7 DEF Base, Known
  <2>2. IsFiniteSet({}) /\ Cardinality({}) = 0
    BY FS_EmptySet
  <2>3. OwnerSlots' = OwnerSlots + 1
    BY <1>1, <1>2, <1>4, <1>5, <1>7
  <2>4. /\ OwnerSlots' + Cardinality(Broken') + Cardinality({}) + faultCount
             <= OwnerSlots + Cardinality(Broken) + faultCount'
        /\ Cardinality(Broken') + Cardinality({}) + faultCount
             <= Cardinality(Broken) + faultCount'
    BY <2>2, <2>3, <1>1, <1>4, <1>6, <1>t
  <2> QED
    BY <2>1, <2>2, <2>4, LedgerKept
<1>8. CASE F' = Tail(q)
  <2>1. Elements(q) \subseteq Elements(F') \cup {Head(q)} /\ Len(F') = Len(q) - 1
    BY <1>2, <1>8, TailElements
  <2>2. Base \subseteq Base' \cup {Head(q)} /\ Known \subseteq Known' \cup {Head(q)}
    BY <2>1, <1>3, <1>4 DEF Base, Known
  <2>3. IsFiniteSet({Head(q)}) /\ Cardinality({Head(q)}) = 1
    BY FS_Singleton
  <2>4. OwnerSlots' = OwnerSlots
    BY <2>1, <1>1, <1>2, <1>4, <1>5
  <2>5. /\ OwnerSlots' + Cardinality(Broken') + Cardinality({Head(q)}) + faultCount
             <= OwnerSlots + Cardinality(Broken) + faultCount'
        /\ Cardinality(Broken') + Cardinality({Head(q)}) + faultCount
             <= Cardinality(Broken) + faultCount'
    BY <2>3, <2>4, <1>1, <1>4, <1>6, <1>t
  <2> QED
    BY <2>2, <2>3, <2>5, LedgerKept
<1> QED
  BY <1>1, <1>7, <1>8

\* The CPU starts with the books balanced: every register is in Base.
LEMMA InitBalance == ChaosInit => Balanced /\ Spared
<1> SUFFICES ASSUME ChaosInit PROVE Balanced /\ Spared
  OBVIOUS
<1>1. /\ Init /\ TypeOK /\ faultCount = 0 /\ historyBuffer = <<>>
  BY InitTypeOK DEF ChaosInit, Init
<1>2. Owning(historyBuffer) = {}
  BY <1>1 DEF Owning
<1>3. Broken = {} /\ Unrenamed(historyBuffer) = ArchRegs
  BY <1>2 DEF Broken, BrokenLinks, Unrenamed
<1>4. PhysRegs \subseteq Base
  <2>1. ASSUME NEW x \in PhysRegs, x < NumArch PROVE x \in Roots(historyBuffer, renameMap)
    <3>1. x \in ArchRegs
      BY <2>1, SizesAssumption DEF ArchRegs, PhysRegs
    <3>2. renameMap[x] = x
      BY <3>1, <1>1 DEF Init
    <3> QED
      BY <3>1, <3>2, <1>3 DEF Roots
  <2>2. ASSUME NEW x \in PhysRegs, ~(x < NumArch) PROVE x \in Elements(freeList)
    <3>1. PICK i \in 1 .. NumPhys - NumArch : x = NumArch + i - 1
      <4>1. /\ x - NumArch + 1 \in 1 .. NumPhys - NumArch
            /\ x = NumArch + (x - NumArch + 1) - 1
        BY <2>2, SizesAssumption DEF PhysRegs
      <4> QED
        BY <4>1
    <3>2. i \in DOMAIN freeList /\ freeList[i] = x
      BY <3>1, <1>1 DEF Init
    <3> QED
      BY <3>2 DEF Elements
  <2> QED
    BY <2>1, <2>2 DEF Base
<1>5. IsFiniteSet(PhysRegs) /\ Cardinality(PhysRegs) = NumPhys
  <2>1. /\ IsFiniteSet(0 .. NumPhys - 1) 
        /\ Cardinality(0 .. NumPhys - 1) = IF 0 > NumPhys - 1 THEN 0 ELSE (NumPhys - 1) - 0 + 1
    BY SizesAssumption, FS_Interval
  <2> QED
    BY <2>1, SizesAssumption DEF PhysRegs
<1>6. IsFiniteSet(Base) /\ Cardinality(Base) \in Nat
  BY <1>1, LedgerFinite DEF LedgerSets
<1>7. NumPhys <= Cardinality(Base)
  BY <1>4, <1>5, <1>6, FS_Subset
<1>8. Cardinality(Broken) = 0
  BY <1>3, FS_EmptySet
<1>9. OwnerSlots <= NumPhys /\ OwnerSlots \in Nat
  <2>1. /\ Len(freeList) = NumPhys - NumArch /\ Len(freeingInProgress) = 0
    BY <1>1, SizesAssumption DEF Init
  <2>2. RenamedEntries = {}
    BY <1>1 DEF RenamedEntries
  <2>3. Cardinality(RenamedEntries) = 0
    BY <2>2, FS_EmptySet
  <2> QED
    BY <2>1, <2>3, <1>1, SlotsCounted, SizesAssumption DEF SlotsSum
<1> QED
  <2>1. Balanced
    BY <1>1, <1>6, <1>7, <1>8, <1>9, SizesAssumption DEF Balanced
  <2>2. PhysRegs \ Known = {}
    <3>1. Roots(historyBuffer, renameMap) \cup News(historyBuffer)
            \subseteq Held(historyBuffer, renameMap)
      BY DEF Roots, Held, Unrenamed, Oldest
    <3> QED
      BY <3>1, <1>4 DEF Base, Known
  <2>3. Cardinality(PhysRegs \ Known) = 0
    BY <2>2, FS_EmptySet
  <2>4. Spared
    BY <2>3, <1>1, <1>8 DEF Spared
  <2> QED
    BY <2>1, <2>4

\* Every step keeps the ledger.
LEMMA NextLedger == ChaosInv /\ Ledger /\ [ChaosNext]_allVars => Ledger'
<1> SUFFICES ASSUME ChaosInv, Ledger, [ChaosNext]_allVars, mode' # "f4_field_stuck"
             PROVE  Balanced' /\ Spared'
  BY DEF Ledger
<1>1. ChaosTypeOK /\ ChaosTypeOK' /\ TypeOK
  BY ChaosNextTypes DEF ChaosInv, ChaosTypeOK
<1>m. mode # "f4_field_stuck"
  BY DEF ChaosNext, CPUStep, Inject, allVars, chaosVars, RetireHistory, SquashHistory,
         MapBitFlip, F5Substitute, F4FieldStuck, Remap, MarkFree, CheckPermanent
<1>2. Balanced /\ Spared
  BY <1>m DEF Ledger
<1>3. ASSUME NEW s \in ArchRegs, RenameNoDest(s), UNCHANGED chaosVars PROVE Balanced' /\ Spared'
  BY <1>2, <1>3, QuietBalance DEF RenameNoDest, chaosVars
<1>4. ASSUME NEW inst \in window, Commit(inst), UNCHANGED chaosVars PROVE Balanced' /\ Spared'
  BY <1>2, <1>4, QuietBalance DEF Commit, chaosVars
<1>5. CASE UNCHANGED allVars
  BY <1>2, <1>5, QuietBalance DEF allVars, vars, chaosVars
<1>6. CASE CPUStep
  BY <1>1, <1>2, <1>3, <1>4, <1>6, RenameDestBalance, FreeSquashedBalance, RetireBalance,
     SquashBalance DEF CPUStep
<1>7. ASSUME NEW a \in ArchRegs, NEW b \in MaskBits, MapBitFlip(a, b) PROVE Balanced' /\ Spared'
  BY <1>1, <1>2, <1>7, RemapBalance DEF MapBitFlip
<1>8. ASSUME NEW a \in ArchRegs, NEW donor \in ArchRegs, F5Substitute(a, donor)
      PROVE  Balanced' /\ Spared'
  <2>1. renameMap[donor] \in PhysRegs
    BY <1>1 DEF TypeOK
  <2> QED
    BY <2>1, <1>1, <1>2, <1>8, RemapBalance DEF F5Substitute
<1>9. ASSUME NEW p \in PhysRegs, MarkFree(p) PROVE Balanced' /\ Spared'
  BY <1>1, <1>2, <1>9, MarkFreeBalance
<1>10. CASE Inject
  <2>1. ~CheckPermanent /\ \A a, donor \in ArchRegs : ~F4FieldStuck(a, donor)
    BY <1>m DEF CheckPermanent, F4FieldStuck
  <2> QED
    BY <2>1, <1>7, <1>8, <1>9, <1>10 DEF Inject, Targets
<1> QED
  BY <1>5, <1>6, <1>10 DEF ChaosNext

\* The ledger is kept in every behaviour of the CPU under injection.
THEOREM LedgerInvariance == ChaosSpec => []Ledger
<1>1. ChaosInit => ChaosInv /\ Ledger
  BY ChaosInitInv, InitBalance DEF Ledger
<1>2. (ChaosInv /\ Ledger) /\ [ChaosNext]_allVars => (ChaosInv /\ Ledger)'
  BY ChaosNextInv, NextLedger
<1> QED
  BY <1>1, <1>2, PTL DEF ChaosSpec

\* Whatever renameDestRegs, removeFromHistory and doSquash do with the state
\* a fault left, n faults of any mode but f4_field_stuck make at most n
\* registers doubly owned and lose at most n.
THEOREM FaultsBounded == ChaosSpec => []FaultNotAmplified
<1>1. ChaosInv /\ Ledger => FaultNotAmplified
  BY LedgerBounds DEF ChaosInv, Ledger, FaultNotAmplified
<1> QED
  BY <1>1, ChaosInvariance, LedgerInvariance, PTL
=============================================================================
