-------------------------- MODULE InstQueueProofs --------------------------
(***************************************************************************)
(* Proofs about InstQueue for any number of registers and instructions,    *)
(* any program and any fault budget: the assertions of the dependency      *)
(* graph, and that no instruction issues early or misses a wakeup.         *)
(***************************************************************************)
EXTENDS InstQueue, FiniteSetTheorems, WellFoundedInduction, NaturalsInduction, TLAPS

Regs == PhysRegs \cup {NoReg}
States == {"skid", "iq", "issued", "done", "committed", "squashed"}
DynInst == [st : States, srcs : Seq(PhysRegs), rdy : Seq(BOOLEAN), readyRegs : Nat,
            canIssue : BOOLEAN, arch : 0 .. NoDest, dest : Regs, prev : Regs]
Renamed == 1 .. Len(insts)
Calls == [inst : Renamed, stage : {"deferred", "chain"},
          dep : Renamed \cup {NoInst}, requeued : BOOLEAN]

\* The type of the state; nothing is counted, queued or woken before it has
\* been renamed, and the two loops exclude each other.
IQType ==
    /\ mode \in Modes /\ faults \in Nat
    /\ insts \in Seq(DynInst) /\ Len(insts) <= MaxSeq
    /\ \A i \in Renamed : DOMAIN insts[i].rdy = DOMAIN insts[i].srcs
    /\ renameMap \in [ArchRegs -> PhysRegs]
    /\ freeList \in Seq(PhysRegs)
    /\ scoreboard \subseteq PhysRegs /\ regScoreboard \subseteq PhysRegs
    /\ chain \in [Regs -> Seq(Renamed)]
    /\ readyInsts \in [SeqNums -> Nat] /\ exec \in [SeqNums -> Nat]
    /\ \A i \in SeqNums : readyInsts[i] > 0 \/ exec[i] > 0 => i \in Renamed
    /\ pending \in Seq([inst : Renamed, reg : Regs])
    /\ wk = NoWake \/ wk \in Calls
    /\ wk.stage = "deferred" => wk.dep = NoInst
    /\ sq = NoSquash \/ (sq \in [to : 0 .. MaxSeq, src : Nat \ {0}] /\ wk = NoWake)
    /\ panic \in {"none", "producers", "remove", "drain", "dest"}

\* A live instruction with a destination has replaced a mapping.
Writers == {i \in Live : insts[i].dest # NoReg}
DestType ==
    \A i \in Live :
      IF insts[i].dest # NoReg
        THEN insts[i].arch \in ArchRegs /\ insts[i].prev \in PhysRegs
        ELSE insts[i].arch = NoDest /\ insts[i].prev = NoReg

\* The register whose dependents are being woken.
WakingReg == IF wk.stage = "chain" THEN insts[wk.inst].dest ELSE NoReg

\* A call of wakeDependents pops a chain to the end, or to the last entry it
\* has put back.
ShortChains ==
    mode # "wake_phase" =>
      /\ pending = <<>>
      /\ \A p \in regScoreboard \ {WakingReg} : Len(chain[p]) <= 1
      /\ wk.stage = "chain" /\ wk.dep = NoInst => Len(chain[WakingReg]) <= 1
DrainedUnlessRequeued ==
    /\ wk.stage = "chain" /\ wk.dep = NoInst /\ ~wk.requeued => chain[WakingReg] = <<>>
    /\ wk.requeued => mode \in {"wake_omit", "wake_phase"}

\* No register is in two places.
Mapped == {renameMap[a] : a \in ArchRegs}
NoDoubleOwner ==
    /\ \A m, n \in DOMAIN freeList : freeList[m] = freeList[n] => m = n
    /\ \A a, b \in ArchRegs : renameMap[a] = renameMap[b] => a = b
    /\ \A i, j \in Writers : insts[i].prev = insts[j].prev => i = j
    /\ \A m \in DOMAIN freeList : /\ freeList[m] \notin Mapped
                                  /\ \A i \in Writers : insts[i].prev # freeList[m]
    /\ \A i \in Writers : insts[i].prev \notin Mapped

\* A destination is what the next writer has replaced, or the mapping.
NextWriter(i, j) ==
    /\ i < j /\ insts[j].arch = insts[i].arch
    /\ \A m \in Writers : i < m /\ m < j => insts[m].arch # insts[i].arch
WritersChained ==
    \A i \in Writers :
      \/ /\ renameMap[insts[i].arch] = insts[i].dest
         /\ \A j \in Writers : i < j => insts[j].arch # insts[i].arch
      \/ \E j \in Writers : NextWriter(i, j) /\ insts[j].prev = insts[i].dest

\* A source is kept until its reader has committed, and nothing younger than
\* its reader writes it.
SourcesOwned ==
    \A i \in Live : \A p \in Sources(i) :
      /\ p \in Mapped \/ \E j \in Writers : i <= j /\ insts[j].prev = p
      /\ \A j \in Live : i <= j => insts[j].dest # p

InOrderDispatch ==
    \A i, j \in Live : i < j /\ insts[i].st = "skid" => insts[j].st = "skid"

\* The scoreboards know which writes are pending.
WritesPending ==
    /\ scoreboard \subseteq regScoreboard
    /\ \A j \in Writers :
         /\ insts[j].st = "done" <=> insts[j].dest \in scoreboard
         /\ insts[j].st \in {"iq", "issued"} => insts[j].dest \notin regScoreboard

\* What is mapped or read is written or has an older producer.
Produced(p, i) == p \in scoreboard \/ \E j \in Live : j < i /\ insts[j].dest = p
SourcesProduced ==
    /\ \A p \in Mapped : Produced(p, Len(insts) + 1)
    /\ \A i \in Writers : Produced(insts[i].prev, i)
    /\ \A i \in Live : \A p \in Sources(i) : Produced(p, i)

Marked(i) == {k \in DOMAIN insts[i].srcs : insts[i].rdy[k]}
MarkedReady == \A i \in Live : \A k \in Marked(i) : insts[i].srcs[k] \in scoreboard

\* An instruction is on one list, once.
ReadyOnce ==
    \A i \in Renamed :
      /\ readyInsts[i] + exec[i] <= 1
      /\ readyInsts[i] > 0 => insts[i].st \in {"iq", "squashed"} /\ insts[i].canIssue
      /\ exec[i] > 0 => insts[i].st \in {"issued", "squashed"}
      /\ wk.inst = i => insts[i].st = "issued" /\ readyInsts[i] + exec[i] = 0

\* How often i is in the chain of p, or just popped from it.
CountIn(c, i) == Cardinality({n \in DOMAIN c : c[n] = i})
Occurs(i, p) == CountIn(chain[p], i) + (IF wk.dep = i /\ p = WakingReg THEN 1 ELSE 0)

ChainLive ==
    /\ \A p \in Regs : \A n \in DOMAIN chain[p] : chain[p][n] \in Live
    /\ wk.dep # NoInst => wk.dep \in Live

\* The source a squash has come to.
From(i) == IF Victims # {} /\ i = Youngest(Victims) THEN sq.src ELSE 1

\* W are the sources i waits for.
WaitsFor(i, W) ==
    /\ W # {} => insts[i].st = "iq"
    /\ \A k \in W : k >= From(i)
    /\ \A p \in Regs : Occurs(i, p) = Cardinality({k \in W : insts[i].srcs[k] = p})
    /\ mode # "wake_omit" => \A k \in W : insts[i].srcs[k] \notin regScoreboard
    /\ insts[i].st = "iq" =>
         \A k \in Unmarked(i) :
           insts[i].srcs[k] \notin regScoreboard \cup {WakingReg} /\ k >= From(i) => k \in W
    /\ i \notin Victims =>
         /\ W # {} => /\ Cardinality(W) + insts[i].readyRegs = Len(insts[i].srcs)
                      /\ ~insts[i].canIssue
         /\ insts[i].st = "iq" /\ mode # "src_ready_bitflip" =>
              /\ Cardinality(W) + insts[i].readyRegs = Len(insts[i].srcs)
              /\ W = {} => insts[i].canIssue
Waiting == \A i \in Live : \E W \in SUBSET Unmarked(i) : WaitsFor(i, W)

\* An instruction before dispatch counts the sources that are marked.
SkidCount ==
    \A i \in Live : insts[i].st = "skid" =>
      /\ (\E p \in Sources(i) : p \notin scoreboard) \/ mode # "src_ready_bitflip" =>
           /\ insts[i].readyRegs = Cardinality(Marked(i))
           /\ insts[i].canIssue <=> insts[i].readyRegs = Len(insts[i].srcs)

ReadySound ==
    /\ WritesPending /\ SourcesProduced /\ MarkedReady /\ ReadyOnce
    /\ ChainLive /\ Waiting /\ SkidCount /\ IssueReady

ReadyInv == mode # "wake_phase" /\ panic = "none" => ReadySound

IQInv ==
    /\ IQType /\ DestType /\ ShortChains /\ DrainedUnlessRequeued
    /\ NoDoubleOwner /\ WritersChained /\ SourcesOwned /\ InOrderDispatch
    /\ ReadyInv /\ DepGraphSound /\ IssueReady

----------------------------------------------------------------------------
(* Least and greatest elements, positions in sequences *)

\* A nonempty set of naturals has a least element.
LEMMA LeastExists ==
  ASSUME NEW S \in SUBSET Nat, S # {}
  PROVE  \E m \in S : \A k \in S : m <= k
<1> DEFINE R == {ss \in Nat \X Nat : ss[1] < ss[2]}
<1>1. IsWellFoundedOn(R, Nat)
  BY NatLessThanWellFounded, Zenon DEF OpToRel
<1>2. PICK m \in S : \A y \in S : <<y, m>> \notin R
  <2> HIDE DEF R
  <2> QED
    BY <1>1, WFMin, Zenon
<1>3. \A y \in S : m \in Nat /\ y \in Nat /\ ~(y < m)
  BY <1>2
<1> QED
  BY <1>3

\* Oldest and Youngest choose the least and the greatest element.
LEMMA OldestLeast ==
  ASSUME NEW S \in SUBSET Nat, S # {}
  PROVE  Oldest(S) \in S /\ \A j \in S : Oldest(S) <= j
BY LeastExists DEF Oldest

\* The youngest of a set is in it and not older than any other.
LEMMA YoungestGreatest ==
  ASSUME NEW n \in Nat, NEW S \in SUBSET (1 .. n), S # {}
  PROVE  Youngest(S) \in S /\ \A j \in S : j <= Youngest(S)
<1> DEFINE T == {x \in 0 .. n : n - x \in S}
<1>1. \A j \in S : n - j \in T /\ n - (n - j) = j
  OBVIOUS
<1>2. T \in SUBSET Nat /\ T # {}
  <2>1. PICK s \in S : n - s \in T
    BY <1>1
  <2>2. T \in SUBSET Nat
    OBVIOUS
  <2> HIDE DEF T
  <2> QED
    BY <2>1, <2>2
<1>3. PICK m \in T : \A y \in T : m <= y
  <2> HIDE DEF T
  <2> QED
    BY <1>2, LeastExists
<1>4. n - m \in S /\ \A j \in S : j <= n - m
  BY <1>1, <1>3
<1> QED
  BY <1>4 DEF Youngest

\* The number of occurrences is a number, and positive when there is one.
LEMMA CountType ==
  ASSUME NEW S, NEW c \in Seq(S), NEW j
  PROVE  /\ IsFiniteSet({n \in DOMAIN c : c[n] = j})
         /\ CountIn(c, j) \in Nat
         /\ CountIn(c, j) = 0 <=> \A n \in DOMAIN c : c[n] # j
<1>1. IsFiniteSet(DOMAIN c)
  <2>1. DOMAIN c = 1 .. Len(c) /\ Len(c) \in Nat
    OBVIOUS
  <2> QED
    BY <2>1, FS_Interval
<1>2. IsFiniteSet({n \in DOMAIN c : c[n] = j})
  BY <1>1, FS_Subset
<1> QED
  BY <1>2, FS_CardinalityType, FS_EmptySet DEF CountIn

\* Occurrences add up.
LEMMA CountConcat ==
  ASSUME NEW S, NEW c \in Seq(S), NEW d \in Seq(S), NEW j
  PROVE  CountIn(c \o d, j) = CountIn(c, j) + CountIn(d, j)
<1> DEFINE A == {n \in DOMAIN c : c[n] = j}
           B == {n \in DOMAIN d : d[n] = j}
           C == {n \in DOMAIN (c \o d) : (c \o d)[n] = j}
           D == {n \in C : n > Len(c)}
           g == [n \in B |-> n + Len(c)]
<1>1. /\ Len(c) \in Nat /\ Len(d) \in Nat
      /\ DOMAIN c = 1 .. Len(c) /\ DOMAIN d = 1 .. Len(d)
      /\ DOMAIN (c \o d) = 1 .. Len(c) + Len(d)
      /\ \A n \in 1 .. Len(c) : (c \o d)[n] = c[n]
      /\ \A n \in 1 .. Len(d) : (c \o d)[n + Len(c)] = d[n]
  OBVIOUS
<1>2. \A n \in B : n + Len(c) \in D
  BY <1>1
<1>3. ASSUME NEW n \in D PROVE n - Len(c) \in B /\ (n - Len(c)) + Len(c) = n
  <2>1. n - Len(c) \in 1 .. Len(d) /\ (n - Len(c)) + Len(c) = n
    BY <1>1
  <2>2. (c \o d)[(n - Len(c)) + Len(c)] = d[n - Len(c)]
    BY <2>1, <1>1
  <2> QED
    BY <2>1, <2>2, <1>1
<1>4. g \in Bijection(B, D)
  <2>1. g \in [B -> D]
    BY <1>2
  <2>2. \A m, n \in B : m + Len(c) = n + Len(c) => m = n
    BY <1>1
  <2>3. \A n \in D : \E m \in B : g[m] = n
    BY <1>3
  <2> HIDE DEF B, D
  <2> QED
    BY <2>1, <2>2, <2>3 DEF Bijection, Injection, Surjection, IsInjective
<1>5. IsFiniteSet(A) /\ IsFiniteSet(B)
  BY CountType
<1>6. IsFiniteSet(D) /\ Cardinality(D) = Cardinality(B)
  <2> HIDE DEF B, D, g
  <2> QED
    BY <1>4, <1>5, FS_Bijection DEF ExistsBijection
<1>7. C = A \cup D /\ A \cap D = {}
  BY <1>1
<1>8. Cardinality(C) = Cardinality(A) + Cardinality(D)
  <2>1. Cardinality(A \cup D) = Cardinality(A) + Cardinality(D) - Cardinality(A \cap D)
    <3> HIDE DEF A, D
    <3> QED
      BY <1>5, <1>6, FS_Union
  <2>2. Cardinality(A) \in Nat /\ Cardinality(D) \in Nat
    BY <1>5, <1>6, FS_CardinalityType
  <2>3. Cardinality(A \cap D) = 0
    BY <1>7, FS_EmptySet
  <2> HIDE DEF A, D, C
  <2> QED
    BY <2>1, <2>2, <2>3, <1>7
<1> QED
  BY <1>6, <1>8 DEF CountIn

\* n copies of i.
LEMMA CountCopies ==
  ASSUME NEW S, NEW c \in Seq(S), NEW n \in Nat, Len(c) = n, NEW i, NEW j,
         \A m \in DOMAIN c : c[m] = i
  PROVE  CountIn(c, j) = IF i = j THEN n ELSE 0
<1> DEFINE A == {m \in 1 .. n : c[m] = j}
<1>1. CountIn(c, j) = Cardinality(A)
  BY DEF CountIn
<1>2. A = IF i = j THEN 1 .. n ELSE {}
  OBVIOUS
<1> HIDE DEF A
<1> QED
  BY <1>1, <1>2, FS_Interval, FS_EmptySet

\* One entry.
LEMMA CountOne ==
  ASSUME NEW i, NEW j
  PROVE  CountIn(<<i>>, j) = IF i = j THEN 1 ELSE 0
<1> DEFINE A == {n \in DOMAIN <<i>> : <<i>>[n] = j}
<1>1. A = IF i = j THEN {1} ELSE {}
  OBVIOUS
<1>2. CountIn(<<i>>, j) = Cardinality(A)
  BY DEF CountIn
<1> HIDE DEF A
<1> QED
  BY <1>1, <1>2, FS_Singleton, FS_EmptySet

\* Popping takes the head off, and putting an entry back adds one.
LEMMA CountPop ==
  ASSUME NEW S, NEW c \in Seq(S), NEW j, c # <<>>
  PROVE  CountIn(c, j) = CountIn(Rest(c), j) + IF Pop(c) = j THEN 1 ELSE 0
<1> DEFINE h == Head(c)
           t == Tail(c)
<1>1. c = <<h>> \o t /\ t \in Seq(S) /\ <<h>> \in Seq(S)
  OBVIOUS
<1>2. Pop(c) = h /\ Rest(c) = t
  BY DEF Rest, Pop
<1> HIDE DEF h, t
<1>3. CountIn(<<h>> \o t, j) = CountIn(<<h>>, j) + CountIn(t, j)
  BY <1>1, CountConcat
<1>4. CountIn(t, j) \in Nat
  BY <1>1, CountType
<1> QED
  BY <1>1, <1>2, <1>3, <1>4, CountOne

\* An entry put at the head counts once.
LEMMA CountPush ==
  ASSUME NEW S, NEW c \in Seq(S), NEW i \in S, NEW j
  PROVE  CountIn(<<i>> \o c, j) = CountIn(c, j) + IF i = j THEN 1 ELSE 0
<1>1. <<i>> \in Seq(S)
  OBVIOUS
<1>2. CountIn(<<i>> \o c, j) = CountIn(<<i>>, j) + CountIn(c, j)
  BY <1>1, CountConcat
<1>3. CountIn(c, j) \in Nat
  BY CountType
<1> QED
  BY <1>2, <1>3, CountOne

\* The elements of a concatenation.
LEMMA ConcatFacts ==
  ASSUME NEW S, NEW s \in Seq(S), NEW t \in Seq(S)
  PROVE  /\ s \o t \in Seq(S) /\ Len(s \o t) = Len(s) + Len(t)
         /\ DOMAIN (s \o t) = 1 .. Len(s) + Len(t)
         /\ \A x \in 1 .. Len(s) : (s \o t)[x] = s[x]
         /\ \A x \in 1 .. Len(t) : (s \o t)[x + Len(s)] = t[x]
OBVIOUS

\* remove takes off one entry of its instruction, if there is one.
LEMMA CountRemove ==
  ASSUME NEW S, NEW c \in Seq(S), NEW i
  PROVE  /\ RemoveFirst(c, i) \in Seq(S)
         /\ Len(RemoveFirst(c, i)) <= Len(c)
         /\ \A n \in DOMAIN RemoveFirst(c, i) : \E m \in DOMAIN c : RemoveFirst(c, i)[n] = c[m]
         /\ i \notin Range(c) => RemoveFirst(c, i) = c
         /\ i \in Range(c) =>
              \A j : CountIn(c, j) = CountIn(RemoveFirst(c, i), j) + IF i = j THEN 1 ELSE 0
<1>1. CASE i \notin Range(c)
  <2>1. RemoveFirst(c, i) = c
    BY <1>1 DEF RemoveFirst, Range
  <2> QED
    BY <1>1, <2>1
<1>2. CASE i \in Range(c)
  <2> DEFINE I == {n \in 1 .. Len(c) : c[n] = i}
  <2>1. I # {} /\ I \in SUBSET Nat
    BY <1>2 DEF Range
  <2>2. PICK n \in I : \A m \in I : n <= m
    <3> HIDE DEF I
    <3> QED
      BY <2>1, LeastExists
  <2>3. Min(I) = n
    BY <2>2 DEF Min
  <2> DEFINE a == SubSeq(c, 1, n - 1)
             b == SubSeq(c, n + 1, Len(c))
  <2>4. RemoveFirst(c, i) = a \o b
    BY <2>1, <2>3 DEF RemoveFirst, RemoveAt, SelectInSeq
  <2>5. /\ a \in Seq(S) /\ b \in Seq(S) /\ <<i>> \in Seq(S)
        /\ Len(a) = n - 1 /\ Len(b) = Len(c) - n /\ n \in 1 .. Len(c)
    BY <2>2
  <2>e. /\ \A x \in 1 .. n - 1 : a[x] = c[x]
        /\ \A x \in 1 .. Len(c) - n : b[x] = c[x + n]
        /\ c[n] = i
    BY <2>2
  <2> HIDE DEF a, b
  <2>l. Len(c) \in Nat /\ n \in Nat /\ 1 <= n /\ n <= Len(c) /\ DOMAIN c = 1 .. Len(c)
    BY <2>5
  <2>6. /\ a \o b \in Seq(S) /\ <<i>> \o b \in Seq(S)
        /\ Len(a \o b) = Len(c) - 1
        /\ DOMAIN (a \o b) = 1 .. Len(c) - 1
        /\ Len(<<i>> \o b) = 1 + (Len(c) - n)
    <3>1. a \o b \in Seq(S) /\ Len(a \o b) = Len(a) + Len(b)
          /\ DOMAIN (a \o b) = 1 .. Len(a) + Len(b)
      BY <2>5, ConcatFacts, Zenon
    <3>2. <<i>> \o b \in Seq(S) /\ Len(<<i>> \o b) = Len(<<i>>) + Len(b)
      BY <2>5, ConcatFacts, Zenon
    <3>3. Len(<<i>>) = 1 /\ Len(a) + Len(b) = Len(c) - 1 /\ Len(b) = Len(c) - n
      BY <2>5, <2>l
    <3> QED
      BY <3>1, <3>2, <3>3, Zenon
  <2>7. c = a \o (<<i>> \o b)
    <3> DEFINE d == <<i>> \o b
               w == a \o d
    <3>1. d[1] = i /\ \A x \in 1 .. Len(c) - n : d[x + 1] = c[x + n]
      BY <2>5, <2>e
    <3>2. d \in Seq(S) /\ Len(d) = 1 + (Len(c) - n)
      BY <2>6
    <3> HIDE DEF d
    <3>3. w \in Seq(S) /\ Len(w) = Len(c) /\ DOMAIN w = 1 .. Len(c)
      <4>1. w \in Seq(S) /\ Len(w) = Len(a) + Len(d) /\ DOMAIN w = 1 .. Len(a) + Len(d)
        BY <3>2, <2>5, ConcatFacts, Zenon
      <4>2. Len(a) + Len(d) = Len(c)
        BY <3>2, <2>5, <2>l
      <4> QED
        BY <4>1, <4>2, Zenon
    <3>4. ASSUME NEW x \in 1 .. Len(c) PROVE w[x] = c[x]
      <4>1. CASE x \in 1 .. n - 1
        BY <4>1, <3>2, <2>5, <2>e
      <4>2. CASE x \in n .. Len(c)
        <5>1. x - (n - 1) \in 1 .. Len(d) /\ w[x] = d[x - (n - 1)]
          BY <4>2, <3>2, <2>5
        <5>2. CASE x = n
          BY <5>1, <5>2, <3>1, <2>5, <2>e
        <5>3. CASE x > n
          <6>1. x - n \in 1 .. Len(c) - n /\ (x - n) + 1 = x - (n - 1) /\ (x - n) + n = x
            BY <5>3, <2>5
          <6> QED
            BY <5>1, <6>1, <3>1
        <5>4. x = n \/ x > n
          BY <4>2, <2>l
        <5> QED
          BY <5>2, <5>3, <5>4
      <4>3. x \in 1 .. n - 1 \/ x \in n .. Len(c)
        BY <2>l
      <4> QED
        BY <4>1, <4>2, <4>3
    <3> HIDE DEF w
    <3>5. c \in Seq(S) /\ DOMAIN c = 1 .. Len(c)
      OBVIOUS
    <3>6. w = c
      BY <3>3, <3>4, <3>5
    <3> QED
      BY <3>6 DEF w, d
  <2>8. ASSUME NEW x \in DOMAIN (a \o b) PROVE \E m \in DOMAIN c : (a \o b)[x] = c[m]
    <3>1. CASE x \in 1 .. n - 1
      <4>1. (a \o b)[x] = a[x] /\ x \in DOMAIN c
        BY <3>1, <2>5, <2>l
      <4> QED
        BY <3>1, <4>1, <2>e
    <3>2. CASE x \in n .. Len(c) - 1
      <4>1. x - (n - 1) \in 1 .. Len(c) - n /\ (x - (n - 1)) + n = x + 1 /\ x + 1 \in 1 .. Len(c)
        BY <3>2, <2>5
      <4>0. PICK y \in 1 .. Len(c) - n : y = x - (n - 1)
        BY <4>1
      <4>2. (a \o b)[y + (n - 1)] = b[y]
        BY <2>5, ConcatFacts
      <4>3. y + (n - 1) = x /\ y + n \in DOMAIN c
        BY <4>0, <4>1, <3>2, <2>l
      <4>4. b[y] = c[y + n]
        BY <2>e
      <4> QED
        BY <4>2, <4>3, <4>4
    <3> QED
      BY <3>1, <3>2, <2>5, <2>6
  <2>9. \A j : CountIn(c, j) = CountIn(a \o b, j) + IF i = j THEN 1 ELSE 0
    <3> TAKE j
    <3>1. CountIn(c, j) = CountIn(a, j) + CountIn(<<i>> \o b, j)
      BY <2>5, <2>6, <2>7, CountConcat
    <3>2. CountIn(<<i>> \o b, j) = CountIn(<<i>>, j) + CountIn(b, j)
      BY <2>5, CountConcat
    <3>3. CountIn(a \o b, j) = CountIn(a, j) + CountIn(b, j)
      BY <2>5, CountConcat
    <3>4. CountIn(a, j) \in Nat /\ CountIn(b, j) \in Nat
      BY <2>5, CountType
    <3> QED
      BY <3>1, <3>2, <3>3, <3>4, CountOne
  <2>10. Len(a \o b) <= Len(c)
    BY <2>6, <2>l
  <2> QED
    BY <1>2, <2>4, <2>6, <2>8, <2>9, <2>10
<1> QED
  BY <1>1, <1>2


----------------------------------------------------------------------------
(* What the steps do to the instructions, and types *)

\* The code's numbers.
LEMMA Numbers ==
  /\ NumArch \in Nat /\ NumPhys \in Nat /\ 0 < NumArch /\ NumArch < NumPhys
  /\ MaxSeq \in Nat /\ Budget \in Nat
  /\ NoReg \notin PhysRegs /\ NoDest \notin ArchRegs /\ NoInst \notin SeqNums
  /\ 0 \in PhysRegs /\ 0 \in ArchRegs
BY IQAssumption DEF NoReg, PhysRegs, NoDest, ArchRegs, NoInst, SeqNums

\* markSrcRegReady changes the count and canIssue only.
LEMMA MarkReadyType ==
  ASSUME NEW rec \in DynInst, NEW n \in Nat
  PROVE  /\ MarkReady(rec, n) \in DynInst
         /\ MarkReady(rec, n).st = rec.st /\ MarkReady(rec, n).srcs = rec.srcs
         /\ MarkReady(rec, n).rdy = rec.rdy /\ MarkReady(rec, n).arch = rec.arch
         /\ MarkReady(rec, n).dest = rec.dest /\ MarkReady(rec, n).prev = rec.prev
         /\ MarkReady(rec, n).readyRegs = rec.readyRegs + n
         /\ MarkReady(rec, n).canIssue =
              (rec.canIssue \/ (/\ rec.readyRegs < Len(rec.srcs)
                                /\ Len(rec.srcs) <= rec.readyRegs + n))
<1> DEFINE r == rec.readyRegs + n
           b == rec.canIssue \/ (/\ rec.readyRegs < Len(rec.srcs)
                                 /\ Len(rec.srcs) <= rec.readyRegs + n)
<1>1. r \in Nat /\ b \in BOOLEAN
  BY DEF DynInst
<1>2. MarkReady(rec, n) = [rec EXCEPT !.readyRegs = r, !.canIssue = b]
  BY DEF MarkReady
<1> HIDE DEF r, b
<1>3. /\ MarkReady(rec, n) \in DynInst
      /\ MarkReady(rec, n).st = rec.st /\ MarkReady(rec, n).srcs = rec.srcs
      /\ MarkReady(rec, n).rdy = rec.rdy /\ MarkReady(rec, n).arch = rec.arch
      /\ MarkReady(rec, n).dest = rec.dest /\ MarkReady(rec, n).prev = rec.prev
      /\ MarkReady(rec, n).readyRegs = r /\ MarkReady(rec, n).canIssue = b
  BY <1>1, <1>2 DEF DynInst
<1> QED
  BY <1>3 DEF r, b

\* addIfReady adds at most one entry.
LEMMA addIfReadyType ==
  ASSUME NEW rec \in DynInst
  PROVE  addIfReady(rec) \in Nat /\ addIfReady(rec) = IF rec.canIssue THEN 1 ELSE 0
BY DEF addIfReady

\* The instructions that exist.
LEMMA InstFacts ==
  ASSUME IQType
  PROVE  /\ Len(insts) \in Nat /\ DOMAIN insts = Renamed
         /\ Renamed \subseteq SeqNums /\ Live \subseteq Renamed /\ NoInst \notin Renamed
         /\ \A i \in Renamed : /\ insts[i] \in DynInst
                               /\ insts[i].srcs \in Seq(PhysRegs)
                               /\ insts[i].dest \in Regs
                               /\ DOMAIN insts[i].srcs = 1 .. Len(insts[i].srcs)
                               /\ DOMAIN insts[i].rdy = DOMAIN insts[i].srcs
                               /\ Len(insts[i].srcs) \in Nat
<1>1. Len(insts) \in Nat /\ DOMAIN insts = Renamed /\ Len(insts) <= MaxSeq
  BY DEF IQType, Renamed
<1>2. \A i \in Renamed : insts[i] \in DynInst
  BY <1>1 DEF IQType, Renamed
<1>3. Renamed \subseteq SeqNums /\ Live \subseteq Renamed /\ NoInst \notin Renamed
  BY <1>1, Numbers DEF Renamed, SeqNums, Live, NoInst
<1>4. \A i \in Renamed : /\ insts[i].srcs \in Seq(PhysRegs)
                         /\ insts[i].dest \in Regs
                         /\ DOMAIN insts[i].rdy = DOMAIN insts[i].srcs
  BY <1>2 DEF DynInst, IQType
<1> QED
  BY <1>1, <1>2, <1>3, <1>4

\* One instruction is replaced.
LEMMA ReplaceInst ==
  ASSUME IQType, NEW i \in Renamed, NEW rec \in DynInst,
         DOMAIN rec.rdy = DOMAIN rec.srcs, insts' = [insts EXCEPT ![i] = rec]
  PROVE  /\ insts' \in Seq(DynInst) /\ Len(insts') = Len(insts) /\ Renamed' = Renamed
         /\ insts'[i] = rec /\ \A j \in Renamed : j # i => insts'[j] = insts[j]
         /\ \A j \in Renamed : DOMAIN insts'[j].rdy = DOMAIN insts'[j].srcs
<1>1. insts \in Seq(DynInst) /\ DOMAIN insts = Renamed
  BY InstFacts DEF IQType
<1>2. /\ insts' \in Seq(DynInst) /\ Len(insts') = Len(insts)
      /\ insts'[i] = rec /\ \A j \in Renamed : j # i => insts'[j] = insts[j]
  BY <1>1
<1> QED
  BY <1>2 DEF Renamed, IQType

\* A step that leaves the number of instructions alone.
\* Everything about an instruction that renaming has settled.
SameNames(i) ==
    /\ insts'[i].arch = insts[i].arch /\ insts'[i].dest = insts[i].dest
    /\ insts'[i].prev = insts[i].prev /\ insts'[i].srcs = insts[i].srcs
    /\ insts'[i].rdy = insts[i].rdy

\* One wakeup of i.
LEMMA MarkInst ==
  ASSUME IQType, NEW i \in Renamed,
         insts' = [insts EXCEPT ![i] = MarkReady(insts[i], 1)]
  PROVE  /\ insts' \in Seq(DynInst) /\ Len(insts') = Len(insts) /\ Renamed' = Renamed
         /\ \A j \in Renamed : SameNames(j) /\ insts'[j].st = insts[j].st
         /\ \A j \in Renamed : DOMAIN insts'[j].rdy = DOMAIN insts'[j].srcs
         /\ \A j \in Renamed : j # i => insts'[j] = insts[j]
         /\ insts'[i] = MarkReady(insts[i], 1)
         /\ Live' = Live
<1> DEFINE rec == MarkReady(insts[i], 1)
<1>1. insts[i] \in DynInst
  BY InstFacts
<1>2. rec \in DynInst /\ rec.st = insts[i].st /\ rec.srcs = insts[i].srcs
      /\ rec.rdy = insts[i].rdy /\ rec.arch = insts[i].arch
      /\ rec.dest = insts[i].dest /\ rec.prev = insts[i].prev
  BY <1>1, MarkReadyType
<1>3. DOMAIN rec.rdy = DOMAIN rec.srcs
  BY <1>2, InstFacts
<1> HIDE DEF rec
<1>4. /\ insts' \in Seq(DynInst) /\ Len(insts') = Len(insts) /\ Renamed' = Renamed
      /\ insts'[i] = rec /\ \A j \in Renamed : j # i => insts'[j] = insts[j]
      /\ \A j \in Renamed : DOMAIN insts'[j].rdy = DOMAIN insts'[j].srcs
  <2>1. insts' = [insts EXCEPT ![i] = rec]
    BY DEF rec
  <2> QED
    BY <1>2, <1>3, <2>1, ReplaceInst
<1>5. \A j \in Renamed : SameNames(j) /\ insts'[j].st = insts[j].st
  BY <1>2, <1>4 DEF SameNames
<1>6. Live' = Live
  BY <1>4, <1>5 DEF Live, Renamed
<1> QED
  BY <1>4, <1>5, <1>6 DEF rec

\* What an instruction is after rename; canIssue says that all its sources
\* were marked.
RenamedAs(i, shape) ==
    /\ insts'[i].st = "skid" /\ insts'[i].arch = shape.dest
    /\ insts'[i].srcs = [k \in DOMAIN shape.srcs |-> renameMap[shape.srcs[k]]]
    /\ insts'[i].rdy = [k \in DOMAIN shape.srcs |-> insts'[i].srcs[k] \in scoreboard]
    /\ insts'[i].dest = IF shape.dest = NoDest THEN NoReg ELSE Head(freeList)
    /\ insts'[i].prev = IF shape.dest = NoDest THEN NoReg ELSE renameMap[shape.dest]
    /\ insts'[i].readyRegs =
         Cardinality({k \in DOMAIN insts'[i].srcs : insts'[i].rdy[k]})
    /\ insts'[i].canIssue <=> insts'[i].readyRegs = Len(insts'[i].srcs)

\* Marked and unmarked sources are finitely many, and all of them.
LEMMA MarkedType ==
  ASSUME NEW rec \in DynInst, DOMAIN rec.rdy = DOMAIN rec.srcs
  PROVE  LET M == {k \in DOMAIN rec.srcs : rec.rdy[k]} IN
         /\ IsFiniteSet(DOMAIN rec.srcs) /\ Cardinality(DOMAIN rec.srcs) = Len(rec.srcs)
         /\ IsFiniteSet(M) /\ Cardinality(M) \in Nat /\ Cardinality(M) <= Len(rec.srcs)
         /\ Cardinality(M) = Len(rec.srcs) <=> M = DOMAIN rec.srcs
<1> DEFINE D == DOMAIN rec.srcs
           M == {k \in D : rec.rdy[k]}
<1>1. rec.srcs \in Seq(PhysRegs)
  BY DEF DynInst
<1>2. D = 1 .. Len(rec.srcs) /\ Len(rec.srcs) \in Nat
  BY <1>1
<1>3. IsFiniteSet(D) /\ Cardinality(D) = Len(rec.srcs)
  BY <1>2, FS_Interval
<1>4. M \in SUBSET D
  OBVIOUS
<1> HIDE DEF D, M
<1>5. /\ IsFiniteSet(M) /\ Cardinality(M) <= Cardinality(D)
      /\ Cardinality(D) = Cardinality(M) => D = M
  BY <1>3, <1>4, FS_Subset
<1>6. Cardinality(M) \in Nat
  BY <1>5, FS_CardinalityType
<1>7. /\ IsFiniteSet(D) /\ Cardinality(D) = Len(rec.srcs)
      /\ IsFiniteSet(M) /\ Cardinality(M) \in Nat /\ Cardinality(M) <= Len(rec.srcs)
      /\ Cardinality(M) = Len(rec.srcs) <=> M = D
  BY <1>3, <1>5, <1>6
<1> QED
  BY <1>7 DEF M, D

\* Rename adds one instruction and leaves the others alone.
LEMMA RenameEffect ==
  ASSUME IQType, NEW shape, Rename(shape)
  PROVE  /\ Len(insts) + 1 \in SeqNums
         /\ insts' \in Seq(DynInst) /\ Len(insts') = Len(insts) + 1
         /\ Renamed' = Renamed \cup {Len(insts) + 1}
         /\ \A j \in Renamed : insts'[j] = insts[j]
         /\ RenamedAs(Len(insts) + 1, shape)
         /\ Live' = Live \cup {Len(insts) + 1}
         /\ DOMAIN insts'[Len(insts) + 1].rdy = DOMAIN insts'[Len(insts) + 1].srcs
         /\ shape \in [srcs : Seq(ArchRegs), dest : 0 .. NoDest]
         /\ shape.dest # NoDest => shape.dest \in ArchRegs /\ freeList # <<>>
<1> DEFINE n == Len(insts) + 1
           srcs == [k \in DOMAIN shape.srcs |-> renameMap[shape.srcs[k]]]
           new == IF shape.dest = NoDest THEN NoReg ELSE Head(freeList)
           rdy == [k \in DOMAIN srcs |-> srcs[k] \in scoreboard]
           M == {k \in DOMAIN rdy : rdy[k]}
           fresh == [st |-> "skid", srcs |-> srcs, rdy |-> rdy, readyRegs |-> 0,
                     canIssue |-> srcs = <<>>, arch |-> shape.dest, dest |-> new,
                     prev |-> IF new = NoReg THEN NoReg ELSE renameMap[shape.dest]]
           rec == MarkReady(fresh, Cardinality(M))
<1>1. /\ n \in SeqNums /\ Len(insts) \in Nat /\ shape \in Shapes[n]
      /\ shape.dest # NoDest => freeList # <<>>
      /\ insts' = Append(insts, rec)
  BY InstFacts, Numbers DEF Rename, SeqNums
<1>2. shape \in [srcs : Seq(ArchRegs), dest : 0 .. NoDest]
  BY <1>1, IQAssumption
<1>3. shape.dest # NoDest => shape.dest \in ArchRegs
  BY <1>2, Numbers DEF ArchRegs, NoDest
<1>4. /\ renameMap \in [ArchRegs -> PhysRegs] /\ freeList \in Seq(PhysRegs)
      /\ insts \in Seq(DynInst) /\ shape.srcs \in Seq(ArchRegs) /\ shape.dest \in 0 .. NoDest
  BY <1>2 DEF IQType
<1>5. /\ srcs \in Seq(PhysRegs) /\ Len(srcs) = Len(shape.srcs) /\ DOMAIN srcs = DOMAIN shape.srcs
      /\ rdy \in Seq(BOOLEAN) /\ DOMAIN rdy = DOMAIN srcs
  <2> DEFINE l == Len(shape.srcs)
  <2>1. l \in Nat /\ DOMAIN shape.srcs = 1 .. l /\ \A k \in 1 .. l : shape.srcs[k] \in ArchRegs
    BY <1>4
  <2> HIDE DEF l
  <2>2. srcs = [k \in 1 .. l |-> renameMap[shape.srcs[k]]]
    BY <2>1
  <2>3. \A k \in 1 .. l : renameMap[shape.srcs[k]] \in PhysRegs
    BY <2>1, <1>4
  <2>4. srcs \in [1 .. l -> PhysRegs]
    BY <2>2, <2>3
  <2> HIDE DEF srcs
  <2>5. srcs \in Seq(PhysRegs) /\ Len(srcs) = l /\ DOMAIN srcs = 1 .. l
    BY <2>1, <2>4
  <2>6. rdy \in [1 .. l -> BOOLEAN]
    BY <2>5
  <2> HIDE DEF rdy
  <2>7. rdy \in Seq(BOOLEAN) /\ DOMAIN rdy = 1 .. l
    BY <2>1, <2>6
  <2> QED
    BY <2>1, <2>5, <2>7 DEF l
<1>6. /\ new = NoReg <=> shape.dest = NoDest
      /\ new \in Regs /\ fresh.prev \in Regs
      /\ fresh.prev = IF shape.dest = NoDest THEN NoReg ELSE renameMap[shape.dest]
  <2>1. shape.dest # NoDest => Head(freeList) \in PhysRegs /\ renameMap[shape.dest] \in PhysRegs
    BY <1>1, <1>3, <1>4
  <2> QED
    BY <2>1, Numbers DEF Regs
<1>7. (srcs = <<>>) \in BOOLEAN /\ (Len(srcs) = 0 <=> srcs = <<>>)
  BY <1>5
<1> HIDE DEF srcs, rdy, new
<1>8. /\ fresh \in DynInst /\ fresh.st = "skid" /\ fresh.srcs = srcs /\ fresh.rdy = rdy
      /\ fresh.arch = shape.dest /\ fresh.dest = new
      /\ fresh.readyRegs = 0 /\ fresh.canIssue = (srcs = <<>>)
  BY <1>4, <1>5, <1>6, <1>7 DEF DynInst, States
<1> HIDE DEF fresh
<1>9. /\ Cardinality(M) \in Nat /\ Cardinality(M) <= Len(srcs)
  <2>1. M = {k \in DOMAIN fresh.srcs : fresh.rdy[k]}
    BY <1>5, <1>8
  <2> HIDE DEF M
  <2> QED
    BY <1>5, <1>8, <2>1, MarkedType
<1> HIDE DEF M
<1>10. /\ rec \in DynInst /\ rec.st = "skid" /\ rec.srcs = srcs /\ rec.rdy = rdy
       /\ rec.arch = shape.dest /\ rec.dest = new /\ rec.prev = fresh.prev
       /\ rec.readyRegs = Cardinality(M)
       /\ rec.canIssue = ((srcs = <<>>) \/ (/\ 0 < Len(srcs) /\ Len(srcs) <= Cardinality(M)))
  <2>1. 0 + Cardinality(M) = Cardinality(M)
    BY <1>9
  <2> QED
    BY <1>8, <1>9, <2>1, MarkReadyType
<1>11. rec.canIssue <=> rec.readyRegs = Len(rec.srcs)
  <2>1. Len(srcs) \in Nat
    BY <1>5
  <2> DEFINE l == Len(srcs)
             m == Cardinality(M)
  <2>2. l \in Nat /\ m \in Nat /\ m <= l /\ (l = 0 <=> srcs = <<>>)
    BY <2>1, <1>7, <1>9
  <2>3. rec.canIssue <=> (srcs = <<>> \/ (0 < l /\ l <= m))
    BY <1>10, Zenon
  <2>4. rec.readyRegs = m /\ Len(rec.srcs) = l
    BY <1>10
  <2> HIDE DEF l, m, rec
  <2>5. (srcs = <<>> \/ (0 < l /\ l <= m)) <=> m = l
    BY <2>2
  <2> QED
    BY <2>3, <2>4, <2>5, Zenon
<1> HIDE DEF rec
<1>12. /\ insts' \in Seq(DynInst) /\ Len(insts') = n /\ insts'[n] = rec
       /\ \A j \in Renamed : insts'[j] = insts[j]
  BY <1>1, <1>4, <1>10 DEF Renamed
<1>13. Renamed' = Renamed \cup {n}
  BY <1>1, <1>12 DEF Renamed
<1>14. Live' = Live \cup {n}
  <2>1. Live = {i \in Renamed : insts[i].st \notin {"committed", "squashed"}}
    BY DEF Live, Renamed
  <2>2. Live' = {i \in Renamed' : insts'[i].st \notin {"committed", "squashed"}}
    BY DEF Live, Renamed
  <2> HIDE DEF n
  <2> QED
    BY <2>1, <2>2, <1>10, <1>12, <1>13
<1>15. RenamedAs(n, shape)
  <2>1. {k \in DOMAIN insts'[n].srcs : insts'[n].rdy[k]} = M
    <3> HIDE DEF n
    <3> QED
      BY <1>5, <1>10, <1>12 DEF M
  <2>2. rdy = [k \in DOMAIN shape.srcs |-> rec.srcs[k] \in scoreboard]
    BY <1>5, <1>10 DEF rdy
  <2>3. new = IF shape.dest = NoDest THEN NoReg ELSE Head(freeList)
    BY DEF new
  <2> HIDE DEF n
  <2> QED
    BY <2>1, <2>2, <2>3, <1>6, <1>10, <1>11, <1>12 DEF RenamedAs, srcs
<1> QED
  BY <1>1, <1>2, <1>3, <1>5, <1>10, <1>12, <1>13, <1>14, <1>15

\* Dispatch of i marks the sources that have become ready.
DispatchedAs(i) ==
    /\ insts'[i].st = "iq" /\ insts'[i].arch = insts[i].arch
    /\ insts'[i].dest = insts[i].dest /\ insts'[i].prev = insts[i].prev
    /\ insts'[i].srcs = insts[i].srcs
    /\ insts'[i].rdy = [k \in DOMAIN insts[i].srcs |-> insts[i].rdy[k] \/ k \in BecameReady(i)]
    /\ insts'[i].readyRegs = insts[i].readyRegs + Cardinality(BecameReady(i))
    /\ insts'[i].canIssue =
         (insts[i].canIssue
            \/ (/\ insts[i].readyRegs < Len(insts[i].srcs)
                /\ Len(insts[i].srcs) <= insts[i].readyRegs + Cardinality(BecameReady(i))))

\* Insert dispatches the oldest instruction of the skid buffer.
LEMMA InsertEffect ==
  ASSUME IQType, Insert
  PROVE  \E i \in Live :
           /\ insts[i].st = "skid" /\ \A j \in Live : insts[j].st = "skid" => i <= j
           /\ InsertInst(i)
           /\ insts' \in Seq(DynInst) /\ Len(insts') = Len(insts) /\ Renamed' = Renamed
           /\ \A j \in Renamed : j # i => insts'[j] = insts[j]
           /\ DispatchedAs(i)
           /\ \A j \in Renamed : DOMAIN insts'[j].rdy = DOMAIN insts'[j].srcs
           /\ Live' = Live
           /\ Cardinality(BecameReady(i)) \in Nat /\ IsFiniteSet(BecameReady(i))
<1> DEFINE skid == {j \in Live : insts[j].st = "skid"}
           i == Oldest(skid)
<1>1. Running /\ skid # {} /\ InsertInst(i) /\ skid \in SUBSET Nat
  BY InstFacts DEF Insert, Renamed
<1>2. i \in skid /\ \A j \in skid : i <= j
  <2> HIDE DEF skid
  <2> QED
    BY <1>1, OldestLeast
<1> DEFINE pre == [insts[i] EXCEPT !.st = "iq",
                      !.rdy = [k \in DOMAIN @ |-> @[k] \/ k \in BecameReady(i)]]
           rec == MarkReady(pre, Cardinality(BecameReady(i)))
<1>3. insts' = [insts EXCEPT ![i] = rec]
  BY <1>1 DEF InsertInst
<1>4. i \in Renamed /\ i \in Live /\ insts[i].st = "skid"
  BY <1>2, InstFacts
<1> HIDE DEF i, skid
<1>5. /\ insts[i] \in DynInst /\ insts[i].rdy \in Seq(BOOLEAN)
      /\ DOMAIN insts[i].rdy = DOMAIN insts[i].srcs
      /\ insts[i].readyRegs \in Nat
  BY <1>4, InstFacts DEF DynInst
<1>6. IsFiniteSet(BecameReady(i)) /\ Cardinality(BecameReady(i)) \in Nat
  <2>1. BecameReady(i) \in SUBSET DOMAIN insts[i].srcs
    BY DEF BecameReady, Unmarked
  <2>2. IsFiniteSet(DOMAIN insts[i].srcs)
    BY <1>5, MarkedType
  <2> QED
    BY <2>1, <2>2, FS_Subset, FS_CardinalityType
<1>7. [k \in DOMAIN insts[i].rdy |-> insts[i].rdy[k] \/ k \in BecameReady(i)] \in Seq(BOOLEAN)
  <2>1. DOMAIN insts[i].rdy = 1 .. Len(insts[i].rdy) /\ Len(insts[i].rdy) \in Nat
    BY <1>5
  <2>2. \A k \in DOMAIN insts[i].rdy : (insts[i].rdy[k] \/ k \in BecameReady(i)) \in BOOLEAN
    OBVIOUS
  <2> QED
    BY <2>1, <2>2
<1>8. /\ pre \in DynInst /\ pre.st = "iq" /\ pre.srcs = insts[i].srcs
      /\ pre.rdy = [k \in DOMAIN insts[i].srcs |-> insts[i].rdy[k] \/ k \in BecameReady(i)]
      /\ pre.arch = insts[i].arch /\ pre.dest = insts[i].dest /\ pre.prev = insts[i].prev
      /\ pre.readyRegs = insts[i].readyRegs /\ pre.canIssue = insts[i].canIssue
  <2> DEFINE w == [k \in DOMAIN insts[i].rdy |-> insts[i].rdy[k] \/ k \in BecameReady(i)]
  <2>1. w \in Seq(BOOLEAN)
    BY <1>7
  <2>2. pre = [insts[i] EXCEPT !.st = "iq", !.rdy = w]
    OBVIOUS
  <2>3. w = [k \in DOMAIN insts[i].srcs |-> insts[i].rdy[k] \/ k \in BecameReady(i)]
    BY <1>5
  <2> HIDE DEF w
  <2>4. /\ pre \in DynInst /\ pre.st = "iq" /\ pre.srcs = insts[i].srcs /\ pre.rdy = w
        /\ pre.arch = insts[i].arch /\ pre.dest = insts[i].dest /\ pre.prev = insts[i].prev
        /\ pre.readyRegs = insts[i].readyRegs /\ pre.canIssue = insts[i].canIssue
    BY <2>1, <2>2, <1>5 DEF DynInst, States
  <2> QED
    BY <2>3, <2>4
<1> HIDE DEF pre
<1>9. /\ rec \in DynInst /\ rec.st = "iq" /\ rec.srcs = insts[i].srcs /\ rec.rdy = pre.rdy
      /\ rec.arch = insts[i].arch /\ rec.dest = insts[i].dest /\ rec.prev = insts[i].prev
      /\ rec.readyRegs = insts[i].readyRegs + Cardinality(BecameReady(i))
      /\ rec.canIssue =
         (insts[i].canIssue
            \/ (/\ insts[i].readyRegs < Len(insts[i].srcs)
                /\ Len(insts[i].srcs) <= insts[i].readyRegs + Cardinality(BecameReady(i))))
  <2>1. /\ rec \in DynInst /\ rec.st = pre.st /\ rec.srcs = pre.srcs /\ rec.rdy = pre.rdy
        /\ rec.arch = pre.arch /\ rec.dest = pre.dest /\ rec.prev = pre.prev
        /\ rec.readyRegs = pre.readyRegs + Cardinality(BecameReady(i))
        /\ rec.canIssue =
             (pre.canIssue \/ (/\ pre.readyRegs < Len(pre.srcs)
                               /\ Len(pre.srcs) <= pre.readyRegs + Cardinality(BecameReady(i))))
    BY <1>6, <1>8, MarkReadyType, Zenon
  <2> QED
    BY <1>8, <2>1, Zenon
<1>10. DOMAIN rec.rdy = DOMAIN rec.srcs
  BY <1>8, <1>9
<1> HIDE DEF rec
<1>11. /\ insts' \in Seq(DynInst) /\ Len(insts') = Len(insts) /\ Renamed' = Renamed
       /\ insts'[i] = rec /\ \A j \in Renamed : j # i => insts'[j] = insts[j]
       /\ \A j \in Renamed : DOMAIN insts'[j].rdy = DOMAIN insts'[j].srcs
  BY <1>3, <1>4, <1>9, <1>10, ReplaceInst
<1>12. DispatchedAs(i)
  BY <1>8, <1>9, <1>11 DEF DispatchedAs
<1>13. Live' = Live
  BY <1>4, <1>9, <1>11 DEF Live, Renamed
<1>14. \A j \in Live : insts[j].st = "skid" => i <= j
  BY <1>2 DEF skid
<1> QED
  BY <1>1, <1>4, <1>6, <1>11, <1>12, <1>13, <1>14

\* The state of i changes and nothing else; i stays live, or stays retired.
LEMMA RestateInst ==
  ASSUME IQType, NEW i \in Renamed, NEW s \in States,
         insts' = [insts EXCEPT ![i].st = s],
         s \in {"committed", "squashed"} <=> insts[i].st \in {"committed", "squashed"}
  PROVE  /\ insts' \in Seq(DynInst) /\ Len(insts') = Len(insts) /\ Renamed' = Renamed
         /\ \A j \in Renamed : /\ SameNames(j)
                               /\ insts'[j].readyRegs = insts[j].readyRegs
                               /\ insts'[j].canIssue = insts[j].canIssue
         /\ \A j \in Renamed : DOMAIN insts'[j].rdy = DOMAIN insts'[j].srcs
         /\ \A j \in Renamed : j # i => insts'[j] = insts[j]
         /\ insts'[i].st = s
         /\ Live' = Live
<1> DEFINE rec == [insts[i] EXCEPT !.st = s]
<1>1. insts[i] \in DynInst
  BY InstFacts
<1>2. rec \in DynInst /\ rec.st = s /\ rec.srcs = insts[i].srcs
      /\ rec.rdy = insts[i].rdy /\ rec.arch = insts[i].arch
      /\ rec.dest = insts[i].dest /\ rec.prev = insts[i].prev
      /\ rec.readyRegs = insts[i].readyRegs /\ rec.canIssue = insts[i].canIssue
  BY <1>1 DEF DynInst
<1>3. DOMAIN rec.rdy = DOMAIN rec.srcs
  BY <1>2, InstFacts
<1>4. insts' = [insts EXCEPT ![i] = rec]
  OBVIOUS
<1> HIDE DEF rec
<1>5. /\ insts' \in Seq(DynInst) /\ Len(insts') = Len(insts) /\ Renamed' = Renamed
      /\ insts'[i] = rec /\ \A j \in Renamed : j # i => insts'[j] = insts[j]
      /\ \A j \in Renamed : DOMAIN insts'[j].rdy = DOMAIN insts'[j].srcs
  BY <1>2, <1>3, <1>4, ReplaceInst
<1>6. \A j \in Renamed : /\ SameNames(j)
                         /\ insts'[j].readyRegs = insts[j].readyRegs
                         /\ insts'[j].canIssue = insts[j].canIssue
  BY <1>2, <1>5 DEF SameNames
<1>7. Live' = Live
  BY <1>2, <1>5 DEF Live, Renamed
<1> QED
  BY <1>2, <1>5, <1>6, <1>7

\* A live instruction commits or is squashed.
LEMMA RetireInst ==
  ASSUME IQType, NEW i \in Live, NEW s \in {"committed", "squashed"},
         insts' = [insts EXCEPT ![i] = Retired(i, s)]
  PROVE  /\ insts' \in Seq(DynInst) /\ Len(insts') = Len(insts) /\ Renamed' = Renamed
         /\ \A j \in Renamed : DOMAIN insts'[j].rdy = DOMAIN insts'[j].srcs
         /\ \A j \in Renamed : j # i => insts'[j] = insts[j]
         /\ insts'[i].st = s /\ insts'[i].dest = insts[i].dest /\ insts'[i].canIssue
         /\ Live' = Live \ {i}
<1> DEFINE rec == Retired(i, s)
<1>1. i \in Renamed /\ insts[i].dest \in Regs
  BY InstFacts
<1>2. /\ rec \in DynInst /\ rec.st = s /\ rec.dest = insts[i].dest
      /\ rec.srcs = <<>> /\ rec.rdy = <<>> /\ rec.canIssue = TRUE
  <2>1. 0 \in Regs /\ 0 \in 0 .. NoDest /\ s \in States
    BY Numbers DEF Regs, PhysRegs, NoDest, States
  <2> QED
    BY <1>1, <2>1 DEF DynInst, Retired
<1>3. insts' = [insts EXCEPT ![i] = rec] /\ DOMAIN rec.rdy = DOMAIN rec.srcs
  BY <1>2
<1> HIDE DEF rec
<1>4. /\ insts' \in Seq(DynInst) /\ Len(insts') = Len(insts) /\ Renamed' = Renamed
      /\ insts'[i] = rec /\ \A j \in Renamed : j # i => insts'[j] = insts[j]
      /\ \A j \in Renamed : DOMAIN insts'[j].rdy = DOMAIN insts'[j].srcs
  BY <1>1, <1>2, <1>3, ReplaceInst
<1>5. Live' = Live \ {i}
  <2>1. Live = {j \in Renamed : insts[j].st \notin {"committed", "squashed"}}
    BY DEF Live, Renamed
  <2>2. Live' = {j \in Renamed' : insts'[j].st \notin {"committed", "squashed"}}
    BY DEF Live, Renamed
  <2> QED
    BY <2>1, <2>2, <1>2, <1>4
<1> QED
  BY <1>2, <1>4, <1>5

\* CHAOSIQ acts on the oldest live instruction: it toggles a flag, or it swaps
\* two sources.
FaultAs(h) ==
    /\ mode \in {"src_ready_bitflip", "tag_sub"}
    /\ insts'[h].st = insts[h].st /\ insts'[h].arch = insts[h].arch
    /\ insts'[h].dest = insts[h].dest /\ insts'[h].prev = insts[h].prev
    /\ insts'[h].readyRegs = insts[h].readyRegs /\ insts'[h].canIssue = insts[h].canIssue
    /\ Len(insts'[h].srcs) = Len(insts[h].srcs)
    /\ mode = "src_ready_bitflip" => insts'[h].srcs = insts[h].srcs
    /\ mode = "tag_sub" => insts'[h].rdy = insts[h].rdy

\* What CHAOSIQ changes: one instruction, and no set of sources.
LEMMA FaultEffect ==
  ASSUME IQType, NEW k \in SeqNums, ProcessFault(k)
  PROVE  \E h \in Live :
           /\ h = Oldest(Live) /\ \A j \in Live : h <= j
           /\ FaultAs(h)
           /\ insts' \in Seq(DynInst) /\ Len(insts') = Len(insts) /\ Renamed' = Renamed
           /\ \A j \in Renamed : j # h => insts'[j] = insts[j]
           /\ \A j \in Renamed : DOMAIN insts'[j].rdy = DOMAIN insts'[j].srcs
           /\ Live' = Live
           /\ \A j \in Renamed : Sources(j)' = Sources(j)
<1> DEFINE h == Oldest(Live)
           n == Len(insts[h].srcs)
           other == (k % n) + 1
<1>1. Live # {} /\ Live \in SUBSET Nat
  BY InstFacts DEF ProcessFault, Renamed
<1>2. h \in Live /\ \A j \in Live : h <= j
  BY <1>1, OldestLeast
<1>3. k \in 1 .. n
  BY DEF ProcessFault
<1>4. \/ /\ mode = "src_ready_bitflip"
         /\ insts' = [insts EXCEPT ![h].rdy[k] = ~@]
      \/ /\ mode = "tag_sub" /\ n >= 2
         /\ insts' = [insts EXCEPT ![h].srcs[k] = insts[h].srcs[other],
                                   ![h].srcs[other] = insts[h].srcs[k]]
  BY DEF ProcessFault
<1> HIDE DEF h
<1>5. /\ h \in Renamed /\ insts[h] \in DynInst /\ n \in Nat
      /\ DOMAIN insts[h].srcs = 1 .. n /\ DOMAIN insts[h].rdy = 1 .. n
      /\ insts[h].srcs \in Seq(PhysRegs) /\ insts[h].rdy \in Seq(BOOLEAN)
  BY <1>2, InstFacts DEF DynInst
<1> HIDE DEF n
<1>6. other \in 1 .. n
  <2>1. n \in Nat /\ n > 0 /\ k \in Nat
    BY <1>3, <1>5
  <2>2. k % n \in 0 .. n - 1
    BY <2>1, SMT
  <2> QED
    BY <2>1, <2>2
<1>7. CASE /\ mode = "src_ready_bitflip"
           /\ insts' = [insts EXCEPT ![h].rdy[k] = ~@]
  <2> DEFINE r == [insts[h].rdy EXCEPT ![k] = ~@]
             rec == [insts[h] EXCEPT !.rdy = r]
  <2>1. insts' = [insts EXCEPT ![h] = rec]
    BY <1>7
  <2>2. r \in Seq(BOOLEAN) /\ DOMAIN r = 1 .. n
    <3>1. (~insts[h].rdy[k]) \in BOOLEAN
      OBVIOUS
    <3> QED
      BY <3>1, <1>3, <1>5
  <2> HIDE DEF r
  <2>3. /\ rec \in DynInst /\ rec.st = insts[h].st /\ rec.srcs = insts[h].srcs
        /\ rec.arch = insts[h].arch /\ rec.rdy = r
        /\ rec.dest = insts[h].dest /\ rec.prev = insts[h].prev
        /\ rec.readyRegs = insts[h].readyRegs /\ rec.canIssue = insts[h].canIssue
    BY <1>5, <2>2 DEF DynInst
  <2> HIDE DEF rec
  <2>4. /\ insts' \in Seq(DynInst) /\ Len(insts') = Len(insts) /\ Renamed' = Renamed
        /\ insts'[h] = rec /\ \A j \in Renamed : j # h => insts'[j] = insts[j]
        /\ \A j \in Renamed : DOMAIN insts'[j].rdy = DOMAIN insts'[j].srcs
    BY <1>5, <2>1, <2>2, <2>3, ReplaceInst
  <2>5. FaultAs(h)
    BY <1>7, <2>3, <2>4 DEF FaultAs
  <2>6. Live' = Live
    BY <2>3, <2>4 DEF Live, Renamed
  <2>7. \A j \in Renamed : Sources(j)' = Sources(j)
    BY <2>3, <2>4 DEF Sources
  <2> QED
    BY <1>2, <2>4, <2>5, <2>6, <2>7 DEF h
<1>8. CASE /\ mode = "tag_sub" /\ n >= 2
           /\ insts' = [insts EXCEPT ![h].srcs[k] = insts[h].srcs[other],
                                     ![h].srcs[other] = insts[h].srcs[k]]
  <2> DEFINE s == [insts[h].srcs EXCEPT ![k] = insts[h].srcs[other],
                                        ![other] = insts[h].srcs[k]]
             rec == [insts[h] EXCEPT !.srcs = s]
  <2> HIDE DEF other
  <2>1. insts' = [insts EXCEPT ![h] = rec]
    BY <1>8
  <2>2. s \in Seq(PhysRegs) /\ DOMAIN s = 1 .. n /\ Len(s) = n
    <3>1. insts[h].srcs[k] \in PhysRegs /\ insts[h].srcs[other] \in PhysRegs
      BY <1>3, <1>5, <1>6
    <3> QED
      BY <3>1, <1>3, <1>5, <1>6 DEF n
  <2>3. {s[x] : x \in DOMAIN s} = {insts[h].srcs[x] : x \in DOMAIN insts[h].srcs}
    <3>1. \A x \in 1 .. n : s[x] = IF x = other THEN insts[h].srcs[k]
                                   ELSE IF x = k THEN insts[h].srcs[other] ELSE insts[h].srcs[x]
      BY <1>3, <1>5, <1>6
    <3> HIDE DEF s
    <3>2. s[other] = insts[h].srcs[k] /\ (k # other => s[k] = insts[h].srcs[other])
      BY <3>1, <1>3, <1>6
    <3> QED
      BY <3>1, <3>2, <1>3, <1>5, <1>6, <2>2
  <2> HIDE DEF s
  <2>4. /\ rec \in DynInst /\ rec.st = insts[h].st /\ rec.srcs = s
        /\ rec.arch = insts[h].arch /\ rec.rdy = insts[h].rdy
        /\ rec.dest = insts[h].dest /\ rec.prev = insts[h].prev
        /\ rec.readyRegs = insts[h].readyRegs /\ rec.canIssue = insts[h].canIssue
    BY <1>5, <2>2 DEF DynInst
  <2> HIDE DEF rec
  <2>5. /\ insts' \in Seq(DynInst) /\ Len(insts') = Len(insts) /\ Renamed' = Renamed
        /\ insts'[h] = rec /\ \A j \in Renamed : j # h => insts'[j] = insts[j]
        /\ \A j \in Renamed : DOMAIN insts'[j].rdy = DOMAIN insts'[j].srcs
    BY <1>5, <2>1, <2>2, <2>4, ReplaceInst
  <2>6. FaultAs(h)
    BY <1>8, <2>2, <2>4, <2>5 DEF FaultAs, n
  <2>7. Live' = Live
    BY <2>4, <2>5 DEF Live, Renamed
  <2>8. ASSUME NEW j \in Renamed PROVE Sources(j)' = Sources(j)
    <3>1. CASE j = h
      <4>1. insts'[j].srcs = s /\ insts[j].srcs = insts[h].srcs
        BY <3>1, <2>4, <2>5
      <4>2. Sources(j)' = {s[m] : m \in DOMAIN s}
        BY <4>1 DEF Sources
      <4>3. Sources(j) = {insts[h].srcs[m] : m \in DOMAIN insts[h].srcs}
        BY <4>1 DEF Sources
      <4> QED
        BY <4>2, <4>3, <2>3
    <3>2. CASE j # h
      BY <3>2, <2>5 DEF Sources
    <3> QED
      BY <3>1, <3>2
  <2> QED
    BY <1>2, <2>5, <2>6, <2>7, <2>8 DEF h
<1> QED
  BY <1>4, <1>7, <1>8

----------------------------------------------------------------------------
(* Types *)

\* The part of the type that speaks of instructions that exist.
UsesRenamed(R) ==
    /\ chain \in [Regs -> Seq(R)]
    /\ readyInsts \in [SeqNums -> Nat] /\ exec \in [SeqNums -> Nat]
    /\ \A i \in SeqNums : readyInsts[i] > 0 \/ exec[i] > 0 => i \in R
    /\ pending \in Seq([inst : R, reg : Regs])
    /\ wk = NoWake \/ wk \in [inst : R, stage : {"deferred", "chain"},
                              dep : R \cup {NoInst}, requeued : BOOLEAN]

\* The type from its parts.
LEMMA TypeParts ==
  ASSUME mode' \in Modes, faults' \in Nat,
         insts' \in Seq(DynInst), Len(insts') <= MaxSeq,
         \A i \in Renamed' : DOMAIN insts'[i].rdy = DOMAIN insts'[i].srcs,
         renameMap' \in [ArchRegs -> PhysRegs], freeList' \in Seq(PhysRegs),
         scoreboard' \subseteq PhysRegs, regScoreboard' \subseteq PhysRegs,
         UsesRenamed(Renamed)',
         wk'.stage = "deferred" => wk'.dep = NoInst,
         sq' = NoSquash \/ (sq' \in [to : 0 .. MaxSeq, src : Nat \ {0}] /\ wk' = NoWake),
         panic' \in {"none", "producers", "remove", "drain", "dest"}
  PROVE  IQType'
BY DEF IQType, UsesRenamed, Calls, NoSquash, NoWake

\* The parts from the type.
LEMMA TypeUses ==
  ASSUME IQType
  PROVE  /\ UsesRenamed(Renamed)
         /\ Running => wk = NoWake /\ sq = NoSquash
         /\ mode \in Modes /\ faults \in Nat
         /\ insts \in Seq(DynInst) /\ Len(insts) <= MaxSeq
         /\ \A i \in Renamed : DOMAIN insts[i].rdy = DOMAIN insts[i].srcs
         /\ renameMap \in [ArchRegs -> PhysRegs] /\ freeList \in Seq(PhysRegs)
         /\ scoreboard \subseteq PhysRegs /\ regScoreboard \subseteq PhysRegs
         /\ wk.stage = "deferred" => wk.dep = NoInst
         /\ sq = NoSquash \/ (sq \in [to : 0 .. MaxSeq, src : Nat \ {0}] /\ wk = NoWake)
         /\ panic \in {"none", "producers", "remove", "drain", "dest"}
BY DEF IQType, UsesRenamed, Calls, Running

\* More renamed instructions admit the same uses.
LEMMA UsesMore ==
  ASSUME NEW R, NEW T, R \subseteq T, UsesRenamed(R)
  PROVE  UsesRenamed(T)
<1>1. chain \in [Regs -> Seq(T)]
  BY DEF UsesRenamed
<1>2. pending \in Seq([inst : T, reg : Regs])
  <2>1. pending \in Seq([inst : R, reg : Regs])
    BY DEF UsesRenamed
  <2>2. ASSUME NEW S, NEW U, S \subseteq U, NEW c \in Seq(S) PROVE c \in Seq(U)
    BY <2>2
  <2>3. [inst : R, reg : Regs] \subseteq [inst : T, reg : Regs]
    OBVIOUS
  <2> QED
    BY <2>1, <2>2, <2>3, Zenon
<1> QED
  BY <1>1, <1>2 DEF UsesRenamed

\* Rename keeps the types.
LEMMA TypeRename ==
  ASSUME IQType, NEW shape, Rename(shape)
  PROVE  IQType'
<1> DEFINE n == Len(insts) + 1
           new == IF shape.dest = NoDest THEN NoReg ELSE Head(freeList)
<1>1. /\ n \in SeqNums /\ insts' \in Seq(DynInst) /\ Len(insts') = n
      /\ Renamed' = Renamed \cup {n}
      /\ \A j \in Renamed : insts'[j] = insts[j]
      /\ DOMAIN insts'[n].rdy = DOMAIN insts'[n].srcs
      /\ shape.dest # NoDest => shape.dest \in ArchRegs /\ freeList # <<>>
  BY RenameEffect
<1>2. /\ renameMap' = [a \in ArchRegs |-> IF a = shape.dest THEN new ELSE renameMap[a]]
      /\ freeList' = IF new = NoReg THEN freeList ELSE Tail(freeList)
      /\ scoreboard' = scoreboard \ {new}
      /\ UNCHANGED <<mode, faults, regScoreboard, chain, readyInsts, exec,
                     pending, wk, sq, panic>>
  BY DEF Rename
<1>3. Len(insts') <= MaxSeq /\ \A i \in Renamed' : DOMAIN insts'[i].rdy = DOMAIN insts'[i].srcs
  <2>1. Len(insts') <= MaxSeq
    BY <1>1, Numbers DEF SeqNums
  <2>2. \A i \in Renamed : DOMAIN insts'[i].rdy = DOMAIN insts'[i].srcs
    BY <1>1 DEF IQType
  <2> HIDE DEF n
  <2> QED
    BY <2>1, <2>2, <1>1
<1>4. renameMap' \in [ArchRegs -> PhysRegs] /\ freeList' \in Seq(PhysRegs)
  <2>1. renameMap \in [ArchRegs -> PhysRegs] /\ freeList \in Seq(PhysRegs)
    BY DEF IQType
  <2>2. freeList # <<>> => Head(freeList) \in PhysRegs /\ Tail(freeList) \in Seq(PhysRegs)
    BY <2>1
  <2>3. NoDest \notin ArchRegs
    BY Numbers
  <2>4. freeList' \in Seq(PhysRegs)
    BY <2>1, <2>2, <1>1, <1>2
  <2>5. \A a \in ArchRegs : (IF a = shape.dest THEN new ELSE renameMap[a]) \in PhysRegs
    BY <2>1, <2>2, <2>3, <1>1
  <2> QED
    BY <2>4, <2>5, <1>2
<1>5. UsesRenamed(Renamed)'
  <2>1. UsesRenamed(Renamed \cup {n})
    BY TypeUses, UsesMore
  <2> HIDE DEF n
  <2> QED
    BY <2>1, <1>1, <1>2 DEF UsesRenamed
<1>6. scoreboard' \subseteq PhysRegs /\ regScoreboard' \subseteq PhysRegs
  BY <1>2, TypeUses
<1> QED
  BY <1>1, <1>2, <1>3, <1>4, <1>5, <1>6, TypeUses, TypeParts

\* Insert keeps the types.
LEMMA TypeInsert ==
  ASSUME IQType, Insert
  PROVE  IQType'
<1>1. PICK i \in Live :
        /\ InsertInst(i)
        /\ insts' \in Seq(DynInst) /\ Len(insts') = Len(insts) /\ Renamed' = Renamed
        /\ \A j \in Renamed : DOMAIN insts'[j].rdy = DOMAIN insts'[j].srcs
        /\ insts'[i].st = "iq"
  BY InsertEffect DEF DispatchedAs
<1>2. i \in Renamed /\ i \in SeqNums /\ insts'[i] \in DynInst
  BY <1>1, InstFacts DEF Renamed
<1>3. /\ chain' = [p \in DOMAIN chain |-> [m \in 1 .. Depends(i, p) |-> i] \o chain[p]]
      /\ panic' \in {"producers", panic}
      /\ \E x : regScoreboard' = regScoreboard \ {x}
      /\ readyInsts' = [readyInsts EXCEPT ![i] = @ + addIfReady(insts'[i])]
      /\ UNCHANGED <<mode, faults, renameMap, freeList, scoreboard, exec, pending, wk, sq>>
  <2> DEFINE rec == MarkReady([insts[i] EXCEPT
                   !.st = "iq",
                   !.rdy = [k \in DOMAIN @ |-> @[k] \/ k \in BecameReady(i)]],
                   Cardinality(BecameReady(i)))
  <2>1. insts' = [insts EXCEPT ![i] = rec]
    BY <1>1 DEF InsertInst
  <2>2. insts'[i] = rec
    BY <2>1, <1>2, InstFacts
  <2> HIDE DEF rec
  <2> QED
    BY <1>1, <2>2 DEF InsertInst, rec
<1>4. chain' \in [Regs -> Seq(Renamed)]
  <2>1. chain \in [Regs -> Seq(Renamed)]
    BY DEF IQType
  <2>2. ASSUME NEW p \in Regs PROVE Depends(i, p) \in Nat
    <3>1. insts[i] \in DynInst /\ DOMAIN insts[i].rdy = DOMAIN insts[i].srcs
      BY <1>2, InstFacts
    <3>2. IsFiniteSet(DOMAIN insts[i].srcs)
      BY <3>1, MarkedType
    <3>3. {k \in Unmarked(i) \ BecameReady(i) : insts[i].srcs[k] = p} \subseteq DOMAIN insts[i].srcs
      BY DEF Unmarked
    <3> QED
      BY <3>2, <3>3, FS_Subset, FS_CardinalityType DEF Depends
  <2>3. ASSUME NEW p \in Regs
        PROVE  [m \in 1 .. Depends(i, p) |-> i] \o chain[p] \in Seq(Renamed)
    <3>1. [m \in 1 .. Depends(i, p) |-> i] \in Seq(Renamed)
      BY <2>2, <1>2
    <3>2. chain[p] \in Seq(Renamed)
      BY <2>1
    <3> QED
      BY <3>1, <3>2
  <2> QED
    BY <2>1, <2>3, <1>3
<1>5. readyInsts' \in [SeqNums -> Nat] /\ \A j \in SeqNums : j # i => readyInsts'[j] = readyInsts[j]
  <2>1. addIfReady(insts'[i]) \in Nat
    BY <1>2, addIfReadyType
  <2>2. readyInsts \in [SeqNums -> Nat]
    BY DEF IQType
  <2> QED
    BY <2>1, <2>2, <1>2, <1>3
<1>6. UsesRenamed(Renamed)'
  BY <1>1, <1>2, <1>3, <1>4, <1>5, TypeUses DEF UsesRenamed
<1>7. panic' \in {"none", "producers", "remove", "drain", "dest"}
      /\ scoreboard' \subseteq PhysRegs /\ regScoreboard' \subseteq PhysRegs
  BY <1>3, TypeUses
<1> QED
  BY <1>1, <1>3, <1>6, <1>7, TypeUses, TypeParts

\* Issue keeps the types.
LEMMA TypeIssue ==
  ASSUME IQType, NEW i \in SeqNums, Issue(i)
  PROVE  IQType'
<1>1. i \in Renamed
  BY DEF Issue, IQType
<1>2. insts[i] \in DynInst
  BY <1>1, InstFacts
<1>3. /\ insts' \in Seq(DynInst) /\ Len(insts') = Len(insts) /\ Renamed' = Renamed
      /\ \A j \in Renamed : DOMAIN insts'[j].rdy = DOMAIN insts'[j].srcs
  <2>1. CASE insts[i].st = "squashed"
    BY <2>1, TypeUses DEF Issue, Renamed
  <2>2. CASE insts[i].st # "squashed"
    <3> DEFINE s == IF insts[i].st = "iq" THEN "issued" ELSE insts[i].st
    <3>1. insts' = [insts EXCEPT ![i].st = s]
      BY <2>2 DEF Issue
    <3>2. s \in States /\ (s \in {"committed", "squashed"} <=> insts[i].st \in {"committed", "squashed"})
      BY <1>2 DEF DynInst, States
    <3> HIDE DEF s
    <3> QED
      BY <1>1, <3>1, <3>2, RestateInst
  <2> QED
    BY <2>1, <2>2
<1>4. /\ readyInsts' = [readyInsts EXCEPT ![i] = @ - 1] /\ readyInsts[i] > 0
      /\ exec' = exec \/ exec' = [exec EXCEPT ![i] = @ + 1]
      /\ UNCHANGED <<mode, faults, renameMap, freeList, scoreboard,
                     regScoreboard, chain, pending, wk, sq, panic>>
  BY DEF Issue
<1>5. readyInsts' \in [SeqNums -> Nat] /\ exec' \in [SeqNums -> Nat]
  <2>1. readyInsts \in [SeqNums -> Nat] /\ exec \in [SeqNums -> Nat]
    BY DEF IQType
  <2> QED
    BY <2>1, <1>4
<1>6. \A j \in SeqNums : readyInsts'[j] > 0 \/ exec'[j] > 0 => j \in Renamed
  <2>1. readyInsts \in [SeqNums -> Nat] /\ exec \in [SeqNums -> Nat]
        /\ \A j \in SeqNums : readyInsts[j] > 0 \/ exec[j] > 0 => j \in Renamed
    BY DEF IQType
  <2> QED
    BY <2>1, <1>1, <1>4
<1>7. UsesRenamed(Renamed)'
  BY <1>3, <1>4, <1>5, <1>6, TypeUses DEF UsesRenamed
<1> QED
  BY <1>3, <1>4, <1>7, TypeUses, TypeParts

\* Writeback keeps the types.
LEMMA TypeWriteback ==
  ASSUME IQType, NEW i \in SeqNums, Writeback(i)
  PROVE  IQType'
<1>1. i \in Renamed
  BY DEF Writeback, IQType
<1>2. /\ exec' = [exec EXCEPT ![i] = @ - 1] /\ exec[i] > 0
      /\ wk' = wk \/ wk' = [inst |-> i, stage |-> "deferred", dep |-> NoInst, requeued |-> FALSE]
      /\ UNCHANGED <<mode, faults, insts, renameMap, freeList, scoreboard,
                     regScoreboard, chain, readyInsts, pending, sq, panic>>
      /\ wk = NoWake /\ sq = NoSquash
  BY DEF Writeback, Running
<1>3. exec' \in [SeqNums -> Nat] /\ \A j \in SeqNums : exec'[j] > 0 => j \in Renamed
  <2>1. exec \in [SeqNums -> Nat] /\ \A j \in SeqNums : exec[j] > 0 => j \in Renamed
    BY DEF IQType
  <2> QED
    BY <2>1, <1>1, <1>2
<1>4. Renamed' = Renamed
  BY <1>2 DEF Renamed
<1>5. UsesRenamed(Renamed)'
  <2>1. wk' = NoWake \/ wk' \in [inst : Renamed, stage : {"deferred", "chain"},
                                 dep : Renamed \cup {NoInst}, requeued : BOOLEAN]
    <3>1. [inst |-> i, stage |-> "deferred", dep |-> NoInst, requeued |-> FALSE]
            \in [inst : Renamed, stage : {"deferred", "chain"},
                 dep : Renamed \cup {NoInst}, requeued : BOOLEAN]
      BY <1>1
    <3> QED
      BY <3>1, <1>2
  <2> QED
    BY <2>1, <1>2, <1>3, <1>4, TypeUses DEF UsesRenamed
<1>6. wk'.stage = "deferred" => wk'.dep = NoInst
  BY <1>2 DEF NoWake
<1> QED
  BY <1>2, <1>4, <1>5, <1>6, TypeUses, TypeParts

\* What remove leaves of a chain is a chain.
LEMMA RemoveType ==
  ASSUME IQType, NEW p \in Regs, NEW i, RemoveDep(p, i)
  PROVE  /\ chain' \in [Regs -> Seq(Renamed)]
         /\ chain'[p] = RemoveFirst(chain[p], i) /\ \A q \in Regs : q # p => chain'[q] = chain[q]
         /\ panic' \in {panic, "remove"}
<1>1. chain \in [Regs -> Seq(Renamed)]
  BY DEF IQType
<1>2. RemoveFirst(chain[p], i) \in Seq(Renamed)
  BY <1>1, CountRemove
<1>3. chain' = [chain EXCEPT ![p] = RemoveFirst(chain[p], i)]
  BY DEF RemoveDep
<1>4. panic' \in {panic, "remove"}
  BY DEF RemoveDep
<1> HIDE DEF Regs
<1> QED
  BY <1>1, <1>2, <1>3, <1>4

\* A deferred wakeup keeps the types.
LEMMA TypeWakeDeferred ==
  ASSUME IQType, WakeDeferred
  PROVE  IQType'
<1> DEFINE d == Head(pending)
           rec == MarkReady(insts[d.inst], 1)
<1>1. /\ pending # <<>> /\ pending' = Tail(pending) /\ RemoveDep(d.reg, d.inst)
      /\ \/ UNCHANGED <<insts, readyInsts>>
         \/ /\ insts' = [insts EXCEPT ![d.inst] = rec]
            /\ readyInsts' = [readyInsts EXCEPT ![d.inst] = @ + addIfReady(rec)]
      /\ UNCHANGED <<mode, faults, renameMap, freeList, scoreboard,
                     regScoreboard, exec, wk, sq>>
  BY DEF WakeDeferred
<1>2. d \in [inst : Renamed, reg : Regs] /\ pending' \in Seq([inst : Renamed, reg : Regs])
  <2>1. pending \in Seq([inst : Renamed, reg : Regs])
    BY DEF IQType
  <2>2. ASSUME NEW S, NEW c \in Seq(S), c # <<>> PROVE Head(c) \in S /\ Tail(c) \in Seq(S)
    BY <2>2
  <2> QED
    BY <2>1, <2>2, <1>1, Zenon
<1>3. d.inst \in Renamed /\ d.reg \in Regs /\ d.inst \in SeqNums
  BY <1>2, InstFacts
<1> HIDE DEF d
<1>4. rec \in DynInst
  BY <1>3, InstFacts, MarkReadyType
<1>5. /\ insts' \in Seq(DynInst) /\ Len(insts') = Len(insts) /\ Renamed' = Renamed
      /\ \A j \in Renamed : DOMAIN insts'[j].rdy = DOMAIN insts'[j].srcs
  <2>1. CASE insts' = insts
    BY <2>1, TypeUses DEF Renamed
  <2>2. CASE insts' = [insts EXCEPT ![d.inst] = rec]
    BY <2>2, <1>3, MarkInst
  <2> QED
    BY <2>1, <2>2, <1>1
<1>6. readyInsts' \in [SeqNums -> Nat] /\ \A j \in SeqNums : j # d.inst => readyInsts'[j] = readyInsts[j]
  <2>1. addIfReady(rec) \in Nat
    BY <1>4, addIfReadyType
  <2>2. readyInsts \in [SeqNums -> Nat]
    BY DEF IQType
  <2> HIDE DEF rec
  <2> QED
    BY <2>1, <2>2, <1>1, <1>3
<1>7. chain' \in [Regs -> Seq(Renamed)] /\ panic' \in {panic, "remove"}
  BY <1>1, <1>3, RemoveType
<1>8. UsesRenamed(Renamed)'
  BY <1>1, <1>2, <1>3, <1>5, <1>6, <1>7, TypeUses DEF UsesRenamed
<1>9. panic' \in {"none", "producers", "remove", "drain", "dest"}
  BY <1>7, TypeUses
<1> QED
  BY <1>1, <1>5, <1>8, <1>9, TypeUses, TypeParts

\* A call under way, and what it pops.
LEMMA WakeCall ==
  ASSUME IQType, wk.stage \in {"deferred", "chain"}
  PROVE  /\ wk \in Calls /\ wk.inst \in Renamed /\ insts[wk.inst].dest \in Regs
         /\ sq = NoSquash
         /\ wk.dep # NoInst => wk.dep \in Renamed /\ wk.stage = "chain"
<1>1. wk \in Calls /\ sq = NoSquash
  BY DEF IQType, NoWake
<1>2. wk.inst \in Renamed /\ (wk.dep # NoInst => wk.dep \in Renamed)
  BY <1>1 DEF Calls
<1> QED
  BY <1>1, <1>2, InstFacts DEF IQType

\* What is popped from a chain, and what remains.
LEMMA PopType ==
  ASSUME NEW R, NEW c \in Seq(R)
  PROVE  Pop(c) \in R \cup {NoInst} /\ Rest(c) \in Seq(R) /\ Len(Rest(c)) <= Len(c)
BY DEF Pop, Rest

\* The first pop keeps the types.
LEMMA TypeWakeFirst ==
  ASSUME IQType, WakeFirst
  PROVE  IQType'
<1> DEFINE p == insts[wk.inst].dest
<1>1. /\ wk.stage = "deferred"
      /\ wk' = [wk EXCEPT !.stage = "chain", !.dep = Pop(chain[p])]
      /\ chain' = [chain EXCEPT ![p] = Rest(@)]
      /\ UNCHANGED <<mode, faults, insts, renameMap, freeList, scoreboard,
                     regScoreboard, readyInsts, exec, pending, sq, panic>>
  BY DEF WakeFirst
<1>2. wk \in Calls /\ p \in Regs /\ sq = NoSquash
  BY <1>1, WakeCall
<1> HIDE DEF p
<1>3. chain \in [Regs -> Seq(Renamed)]
  BY DEF IQType
<1>4. Pop(chain[p]) \in Renamed \cup {NoInst} /\ Rest(chain[p]) \in Seq(Renamed)
  BY <1>2, <1>3, PopType
<1>5. chain' \in [Regs -> Seq(Renamed)]
  BY <1>1, <1>2, <1>3, <1>4
<1>6. wk' \in Calls /\ wk'.stage = "chain"
  BY <1>1, <1>2, <1>4 DEF Calls
<1>7. Renamed' = Renamed
  BY <1>1 DEF Renamed
<1>8. UsesRenamed(Renamed)'
  BY <1>1, <1>5, <1>6, <1>7, TypeUses DEF UsesRenamed, Calls
<1> QED
  BY <1>1, <1>2, <1>6, <1>7, <1>8, TypeUses, TypeParts

\* The fault counter stays a number.
LEMMA CountFaults ==
  ASSUME IQType
  PROVE  Count(faults) \in Nat
BY Numbers DEF IQType, Count

\* A skipped wakeup keeps the types.
LEMMA TypeWakeSkip ==
  ASSUME IQType, WakeSkip
  PROVE  IQType'
<1> DEFINE p == insts[wk.inst].dest
           next == Skip(chain[p], wk.dep)
<1>0. wk \in Calls /\ wk.dep # NoInst
  BY DEF WakeSkip, IQType, NoWake
<1>1. /\ faults' = Count(faults)
      /\ wk' = [wk EXCEPT !.dep = next.dep, !.requeued = TRUE]
      /\ chain' = [chain EXCEPT ![p] = next.chain]
      /\ pending' = pending \/ pending' = Append(pending, [inst |-> wk.dep, reg |-> p])
      /\ UNCHANGED <<mode, insts, renameMap, freeList, scoreboard,
                     regScoreboard, readyInsts, exec, sq, panic>>
  BY DEF WakeSkip
<1>2. p \in Regs /\ sq = NoSquash /\ wk.dep \in Renamed /\ wk.stage = "chain"
  BY <1>0, WakeCall DEF Calls
<1> HIDE DEF p
<1>3. chain \in [Regs -> Seq(Renamed)]
  BY DEF IQType
<1>4. next.dep \in Renamed \cup {NoInst} /\ next.chain \in Seq(Renamed)
  <2>1. Pop(chain[p]) \in Renamed \cup {NoInst} /\ Rest(chain[p]) \in Seq(Renamed)
    BY <1>2, <1>3, PopType
  <2>2. <<wk.dep>> \o Rest(chain[p]) \in Seq(Renamed)
    BY <2>1, <1>2
  <2> QED
    BY <2>1, <2>2 DEF Skip
<1> HIDE DEF next
<1>5. chain' \in [Regs -> Seq(Renamed)]
  BY <1>1, <1>2, <1>3, <1>4
<1>6. wk' \in Calls /\ wk'.stage = "chain"
  BY <1>0, <1>1, <1>2, <1>4 DEF Calls
<1>7. Renamed' = Renamed
  BY <1>1 DEF Renamed
<1>8. pending' \in Seq([inst : Renamed, reg : Regs])
  <2>1. pending \in Seq([inst : Renamed, reg : Regs])
    BY DEF IQType
  <2>2. [inst |-> wk.dep, reg |-> p] \in [inst : Renamed, reg : Regs]
    BY <1>2
  <2>3. ASSUME NEW S, NEW c \in Seq(S), NEW x \in S PROVE Append(c, x) \in Seq(S)
    BY <2>3
  <2> QED
    BY <1>1, <2>1, <2>2, <2>3, Zenon
<1>9. UsesRenamed(Renamed)'
  BY <1>1, <1>5, <1>6, <1>7, <1>8, TypeUses DEF UsesRenamed, Calls
<1>10. faults' \in Nat
  BY <1>1, CountFaults
<1> QED
  BY <1>1, <1>2, <1>6, <1>7, <1>9, <1>10, TypeUses, TypeParts

\* A wakeup keeps the types.
LEMMA TypeWakeMark ==
  ASSUME IQType, WakeMark
  PROVE  IQType'
<1> DEFINE p == insts[wk.inst].dest
           rec == MarkReady(insts[wk.dep], 1)
<1>0. wk \in Calls /\ wk.dep # NoInst
  BY DEF WakeMark, IQType, NoWake
<1>1. /\ insts' = [insts EXCEPT ![wk.dep] = rec]
      /\ readyInsts' = [readyInsts EXCEPT ![wk.dep] = @ + addIfReady(rec)]
      /\ wk' = [wk EXCEPT !.dep = Pop(chain[p])]
      /\ chain' = [chain EXCEPT ![p] = Rest(@)]
      /\ UNCHANGED <<mode, faults, renameMap, freeList, scoreboard,
                     regScoreboard, exec, pending, sq, panic>>
  BY DEF WakeMark
<1>2. p \in Regs /\ sq = NoSquash /\ wk.dep \in Renamed /\ wk.stage = "chain"
  BY <1>0, WakeCall DEF Calls
<1> HIDE DEF p
<1>3. chain \in [Regs -> Seq(Renamed)] /\ wk.dep \in SeqNums
  BY <1>2, InstFacts DEF IQType
<1>4. Pop(chain[p]) \in Renamed \cup {NoInst} /\ Rest(chain[p]) \in Seq(Renamed)
  BY <1>2, <1>3, PopType
<1>5. chain' \in [Regs -> Seq(Renamed)]
  BY <1>1, <1>2, <1>3, <1>4
<1>6. wk' \in Calls /\ wk'.stage = "chain"
  <2>1. wk' \in [inst : Renamed, stage : {"deferred", "chain"}, dep : Renamed \cup {NoInst}, requeued : BOOLEAN]
        /\ wk'.stage = "chain"
    BY <1>0, <1>1, <1>2, <1>4 DEF Calls
  <2>2. Renamed' = Renamed
    BY <1>1, <1>2, MarkInst
  <2> QED
    BY <2>1, <2>2 DEF Calls
<1>7. /\ insts' \in Seq(DynInst) /\ Len(insts') = Len(insts) /\ Renamed' = Renamed
      /\ \A j \in Renamed : DOMAIN insts'[j].rdy = DOMAIN insts'[j].srcs
  BY <1>1, <1>2, MarkInst
<1>8. readyInsts' \in [SeqNums -> Nat] /\ \A j \in SeqNums : j # wk.dep => readyInsts'[j] = readyInsts[j]
  <2>1. rec \in DynInst
    BY <1>2, InstFacts, MarkReadyType
  <2>2. addIfReady(rec) \in Nat
    BY <2>1, addIfReadyType
  <2>3. readyInsts \in [SeqNums -> Nat]
    BY DEF IQType
  <2> HIDE DEF rec
  <2> QED
    BY <2>2, <2>3, <1>1, <1>3
<1>9. UsesRenamed(Renamed)'
  BY <1>1, <1>2, <1>5, <1>6, <1>7, <1>8, TypeUses DEF UsesRenamed, Calls
<1> QED
  BY <1>1, <1>2, <1>6, <1>7, <1>9, TypeUses, TypeParts

\* The end of wakeDependents keeps the types.
LEMMA TypeWakeEnd ==
  ASSUME IQType, WakeEnd
  PROVE  IQType'
<1> DEFINE i == wk.inst
           s == IF insts[i].st = "issued" THEN "done" ELSE insts[i].st
<1>1. /\ wk.stage = "chain" /\ wk' = NoWake
      /\ panic' \in {"drain", panic}
      /\ regScoreboard' = regScoreboard \cup Dest(i)
      /\ scoreboard' = scoreboard \cup Dest(i)
      /\ insts' = [insts EXCEPT ![i].st = s]
      /\ UNCHANGED <<mode, faults, renameMap, freeList, chain, readyInsts, exec, pending, sq>>
  BY DEF WakeEnd
<1>2. i \in Renamed /\ insts[i].dest \in Regs /\ sq = NoSquash
  BY <1>1, WakeCall
<1> HIDE DEF i
<1>3. insts[i] \in DynInst
  BY <1>2, InstFacts
<1>4. s \in States /\ (s \in {"committed", "squashed"} <=> insts[i].st \in {"committed", "squashed"})
  BY <1>3 DEF DynInst, States
<1> HIDE DEF s
<1>5. /\ insts' \in Seq(DynInst) /\ Len(insts') = Len(insts) /\ Renamed' = Renamed
      /\ \A j \in Renamed : DOMAIN insts'[j].rdy = DOMAIN insts'[j].srcs
  BY <1>1, <1>2, <1>4, RestateInst
<1>6. regScoreboard' \subseteq PhysRegs /\ scoreboard' \subseteq PhysRegs
  BY <1>1, <1>2, TypeUses DEF Dest, Regs
<1>7. UsesRenamed(Renamed)'
  BY <1>1, <1>5, TypeUses DEF UsesRenamed
<1>8. panic' \in {"none", "producers", "remove", "drain", "dest"}
      /\ (wk'.stage = "deferred" => wk'.dep = NoInst)
  BY <1>1, TypeUses DEF NoWake
<1> QED
  BY <1>1, <1>2, <1>5, <1>6, <1>7, <1>8, TypeUses, TypeParts

\* The free list after a register has been freed.
LEMMA FreedType ==
  ASSUME IQType, NEW p \in Regs
  PROVE  Freed(p) \in Seq(PhysRegs)
<1>1. freeList \in Seq(PhysRegs) /\ (p # NoReg => p \in PhysRegs)
  BY DEF IQType, Regs
<1> QED
  BY <1>1 DEF Freed

\* Commit retires the oldest live instruction.
LEMMA CommitEffect ==
  ASSUME IQType, Commit
  PROVE  \E i \in Live :
           /\ \A j \in Live : i <= j
           /\ insts[i].st = "done"
           /\ freeList' = Freed(insts[i].prev)
           /\ insts' \in Seq(DynInst) /\ Len(insts') = Len(insts) /\ Renamed' = Renamed
           /\ \A j \in Renamed : DOMAIN insts'[j].rdy = DOMAIN insts'[j].srcs
           /\ \A j \in Renamed : j # i => insts'[j] = insts[j]
           /\ insts'[i].st = "committed" /\ insts'[i].dest = insts[i].dest /\ insts'[i].canIssue
           /\ Live' = Live \ {i}
<1> DEFINE i == Oldest(Live)
<1>1. Live # {} /\ Live \in SUBSET Nat
  BY InstFacts DEF Commit, Renamed
<1>2. i \in Live /\ \A j \in Live : i <= j
  BY <1>1, OldestLeast
<1>3. /\ insts[i].st = "done" /\ freeList' = Freed(insts[i].prev)
      /\ insts' = [insts EXCEPT ![i] = Retired(i, "committed")]
  BY DEF Commit
<1> HIDE DEF i
<1>4. /\ insts' \in Seq(DynInst) /\ Len(insts') = Len(insts) /\ Renamed' = Renamed
      /\ \A j \in Renamed : DOMAIN insts'[j].rdy = DOMAIN insts'[j].srcs
      /\ \A j \in Renamed : j # i => insts'[j] = insts[j]
      /\ insts'[i].st = "committed" /\ insts'[i].dest = insts[i].dest /\ insts'[i].canIssue
      /\ Live' = Live \ {i}
  BY <1>2, <1>3, RetireInst
<1> QED
  BY <1>2, <1>3, <1>4

\* Commit keeps the types.
LEMMA TypeCommit ==
  ASSUME IQType, Commit
  PROVE  IQType'
<1>1. PICK i \in Live :
        /\ freeList' = Freed(insts[i].prev)
        /\ insts' \in Seq(DynInst) /\ Len(insts') = Len(insts) /\ Renamed' = Renamed
        /\ \A j \in Renamed : DOMAIN insts'[j].rdy = DOMAIN insts'[j].srcs
  BY CommitEffect
<1>2. UNCHANGED <<mode, faults, renameMap, scoreboard, regScoreboard, chain,
                  readyInsts, exec, pending, wk, sq, panic>>
  BY DEF Commit
<1>3. freeList' \in Seq(PhysRegs)
  <2>1. insts[i].prev \in Regs
    BY <1>1, InstFacts DEF DynInst
  <2> QED
    BY <1>1, <2>1, FreedType
<1>4. UsesRenamed(Renamed)'
  BY <1>1, <1>2, TypeUses DEF UsesRenamed
<1> QED
  BY <1>1, <1>2, <1>3, <1>4, TypeUses, TypeParts

\* The start of a squash keeps the types.
LEMMA TypeSquash ==
  ASSUME IQType, NEW k \in 0 .. Len(insts), Squash(k)
  PROVE  IQType'
<1>1. /\ sq' = [to |-> k, src |-> 1] /\ wk = NoWake
      /\ UNCHANGED <<mode, faults, insts, renameMap, freeList, scoreboard,
                     regScoreboard, chain, readyInsts, exec, pending, wk, panic>>
  BY DEF Squash, Running
<1>2. sq' \in [to : 0 .. MaxSeq, src : Nat \ {0}]
  BY <1>1, InstFacts, Numbers DEF IQType
<1>3. UsesRenamed(Renamed)'
  BY <1>1, TypeUses DEF UsesRenamed, Renamed
<1> QED
  BY <1>1, <1>2, <1>3, TypeUses, TypeParts DEF Renamed

\* A squash acts on the youngest live instruction.
LEMMA VictimFacts ==
  ASSUME IQType, Victims # {}
  PROVE  /\ Youngest(Victims) \in Victims /\ Youngest(Victims) \in Live
         /\ \A j \in Live : j <= Youngest(Victims)
         /\ sq # NoSquash /\ sq \in [to : 0 .. MaxSeq, src : Nat \ {0}] /\ wk = NoWake
<1>1. Victims \in SUBSET (1 .. Len(insts)) /\ Len(insts) \in Nat
  BY InstFacts DEF Victims, Renamed
<1>2. Youngest(Victims) \in Victims /\ \A j \in Victims : j <= Youngest(Victims)
  BY <1>1, YoungestGreatest
<1>3. sq # NoSquash /\ sq \in [to : 0 .. MaxSeq, src : Nat \ {0}] /\ wk = NoWake
  <2>1. \A i \in Live : i \in Nat /\ i <= MaxSeq
    BY InstFacts DEF SeqNums
  <2>2. sq # NoSquash
    BY <2>1, Numbers DEF Victims, NoSquash
  <2> QED
    BY <2>2 DEF IQType
<1>4. ASSUME NEW j \in Live PROVE j <= Youngest(Victims)
  <2>1. j \in Nat /\ sq.to \in Nat /\ Youngest(Victims) \in Nat /\ Youngest(Victims) > sq.to
    BY <1>2, <1>3, InstFacts, Numbers DEF Victims, SeqNums
  <2>2. j > sq.to => j <= Youngest(Victims)
    BY <1>2 DEF Victims
  <2> QED
    BY <2>1, <2>2
<1> QED
  BY <1>2, <1>3, <1>4 DEF Victims

\* The removal of one source keeps the types.
LEMMA TypeSquashSource ==
  ASSUME IQType, SquashSource
  PROVE  IQType'
<1> DEFINE i == Youngest(Victims)
<1>1. /\ Victims # {} /\ AtSource(i)
      /\ UNCHANGED <<chain, panic>> \/ RemoveDep(insts[i].srcs[sq.src], i)
      /\ insts[i].rdy[sq.src] => UNCHANGED <<chain, panic>>
      /\ sq' = [sq EXCEPT !.src = @ + 1]
      /\ UNCHANGED <<mode, faults, insts, renameMap, freeList, scoreboard,
                     regScoreboard, readyInsts, exec, pending, wk>>
  BY DEF SquashSource
<1>2. i \in Live /\ sq \in [to : 0 .. MaxSeq, src : Nat \ {0}] /\ wk = NoWake
  BY <1>1, VictimFacts
<1> HIDE DEF i
<1>3. insts[i].srcs[sq.src] \in Regs
  <2>1. sq.src <= Len(insts[i].srcs) /\ insts[i].srcs \in Seq(PhysRegs)
    BY <1>1, <1>2, InstFacts DEF AtSource
  <2>2. sq.src \in 1 .. Len(insts[i].srcs)
    BY <2>1, <1>2
  <2> QED
    BY <2>1, <2>2 DEF Regs
<1>4. chain' \in [Regs -> Seq(Renamed)] /\ panic' \in {panic, "remove"}
  BY <1>1, <1>3, RemoveType DEF IQType
<1>5. sq' \in [to : 0 .. MaxSeq, src : Nat \ {0}]
  BY <1>1, <1>2
<1>6. Renamed' = Renamed
  BY <1>1 DEF Renamed
<1>7. UsesRenamed(Renamed)' /\ panic' \in {"none", "producers", "remove", "drain", "dest"}
  BY <1>1, <1>4, <1>6, TypeUses DEF UsesRenamed
<1> QED
  BY <1>1, <1>2, <1>5, <1>6, <1>7, TypeUses, TypeParts

\* The squash of one instruction retires the youngest live one.
LEMMA SquashEffect ==
  ASSUME IQType, SquashInst
  PROVE  \E i \in Victims :
           /\ i = Youngest(Victims) /\ ~AtSource(i)
           /\ \A j \in Live : j <= i
           /\ insts' \in Seq(DynInst) /\ Len(insts') = Len(insts) /\ Renamed' = Renamed
           /\ \A j \in Renamed : DOMAIN insts'[j].rdy = DOMAIN insts'[j].srcs
           /\ \A j \in Renamed : j # i => insts'[j] = insts[j]
           /\ insts'[i].st = "squashed" /\ insts'[i].dest = insts[i].dest /\ insts'[i].canIssue
           /\ Live' = Live \ {i}
           /\ panic' = IF insts[i].st # "skid" /\ chain[insts[i].dest] # <<>>
                         THEN "dest" ELSE panic
           /\ renameMap' = [a \in ArchRegs |->
                              IF a = insts[i].arch THEN insts[i].prev ELSE renameMap[a]]
           /\ freeList' = Freed(insts[i].dest)
           /\ sq' = IF Victims = {i} THEN NoSquash ELSE [sq EXCEPT !.src = 1]
           /\ sq \in [to : 0 .. MaxSeq, src : Nat \ {0}] /\ wk = NoWake
<1> DEFINE i == Youngest(Victims)
<1>1. Victims # {} /\ ~AtSource(i)
  BY DEF SquashInst
<1>2. /\ i \in Victims /\ i \in Live /\ \A j \in Live : j <= i
      /\ sq \in [to : 0 .. MaxSeq, src : Nat \ {0}] /\ wk = NoWake
  BY <1>1, VictimFacts
<1>3. /\ insts' = [insts EXCEPT ![i] = Retired(i, "squashed")]
      /\ panic' = IF insts[i].st # "skid" /\ chain[insts[i].dest] # <<>>
                    THEN "dest" ELSE panic
      /\ renameMap' = [a \in ArchRegs |->
                         IF a = insts[i].arch THEN insts[i].prev ELSE renameMap[a]]
      /\ freeList' = Freed(insts[i].dest)
      /\ sq' = IF Victims = {i} THEN NoSquash ELSE [sq EXCEPT !.src = 1]
  BY DEF SquashInst
<1>4. i = Youngest(Victims)
  OBVIOUS
<1> HIDE DEF i
<1>5. /\ insts' \in Seq(DynInst) /\ Len(insts') = Len(insts) /\ Renamed' = Renamed
      /\ \A j \in Renamed : DOMAIN insts'[j].rdy = DOMAIN insts'[j].srcs
      /\ \A j \in Renamed : j # i => insts'[j] = insts[j]
      /\ insts'[i].st = "squashed" /\ insts'[i].dest = insts[i].dest /\ insts'[i].canIssue
      /\ Live' = Live \ {i}
  BY <1>2, <1>3, RetireInst
<1> QED
  BY <1>1, <1>2, <1>3, <1>4, <1>5

\* The squash of one instruction keeps the types.
LEMMA TypeSquashInst ==
  ASSUME IQType, DestType, SquashInst
  PROVE  IQType'
<1>1. PICK i \in Victims :
           /\ insts' \in Seq(DynInst) /\ Len(insts') = Len(insts) /\ Renamed' = Renamed
           /\ \A j \in Renamed : DOMAIN insts'[j].rdy = DOMAIN insts'[j].srcs
           /\ panic' \in {"dest", panic}
           /\ renameMap' = [a \in ArchRegs |->
                              IF a = insts[i].arch THEN insts[i].prev ELSE renameMap[a]]
           /\ freeList' = Freed(insts[i].dest)
           /\ sq' = NoSquash \/ sq' = [sq EXCEPT !.src = 1]
           /\ sq \in [to : 0 .. MaxSeq, src : Nat \ {0}] /\ wk = NoWake
  BY SquashEffect
<1>2. UNCHANGED <<mode, faults, scoreboard, regScoreboard, chain, readyInsts,
                  exec, pending, wk>>
  BY DEF SquashInst
<1>3. i \in Live /\ insts[i].dest \in Regs
  BY <1>1, InstFacts DEF Victims
<1>4. freeList' \in Seq(PhysRegs)
  BY <1>1, <1>3, FreedType
<1>5. renameMap' \in [ArchRegs -> PhysRegs]
  <2>1. insts[i].arch \in ArchRegs => insts[i].prev \in PhysRegs
    BY <1>3, Numbers DEF DestType
  <2> QED
    BY <2>1, <1>1, TypeUses
<1>6. UsesRenamed(Renamed)'
  BY <1>1, <1>2, TypeUses DEF UsesRenamed
<1>7. panic' \in {"none", "producers", "remove", "drain", "dest"}
      /\ (sq' = NoSquash \/ (sq' \in [to : 0 .. MaxSeq, src : Nat \ {0}] /\ wk' = NoWake))
  BY <1>1, <1>2, TypeUses
<1> QED
  BY <1>1, <1>2, <1>4, <1>5, <1>6, <1>7, TypeUses, TypeParts

\* A polled fault keeps the types.
LEMMA TypeFault ==
  ASSUME IQType, NEW k \in SeqNums, ProcessFault(k)
  PROVE  IQType'
<1>1. /\ insts' \in Seq(DynInst) /\ Len(insts') = Len(insts) /\ Renamed' = Renamed
      /\ \A j \in Renamed : DOMAIN insts'[j].rdy = DOMAIN insts'[j].srcs
  BY FaultEffect
<1>2. /\ faults' = Count(faults)
      /\ UNCHANGED <<mode, renameMap, freeList, scoreboard, regScoreboard,
                     chain, readyInsts, exec, pending, wk, sq, panic>>
  BY DEF ProcessFault
<1>3. UsesRenamed(Renamed)' /\ faults' \in Nat
  BY <1>1, <1>2, TypeUses, CountFaults DEF UsesRenamed
<1> QED
  BY <1>1, <1>2, <1>3, TypeUses, TypeParts

\* The types hold initially.
LEMMA TypeInit ==
  Init => IQType
<1> SUFFICES ASSUME Init PROVE IQType
  OBVIOUS
<1>1. insts = <<>> /\ Renamed = {}
  BY DEF Init, Renamed
<1>2. insts \in Seq(DynInst) /\ Len(insts) <= MaxSeq
  BY <1>1, Numbers
<1>3. /\ renameMap \in [ArchRegs -> PhysRegs] /\ freeList \in Seq(PhysRegs)
  <2>1. \A a \in ArchRegs : a \in PhysRegs
    BY Numbers DEF ArchRegs, PhysRegs
  <2>2. NumPhys - NumArch \in Nat /\ \A n \in 1 .. NumPhys - NumArch : NumArch + n - 1 \in PhysRegs
    BY Numbers DEF PhysRegs
  <2> QED
    BY <2>1, <2>2 DEF Init
<1>4. UsesRenamed(Renamed)
  <2>1. chain \in [Regs -> Seq(Renamed)]
    BY DEF Init, Regs
  <2>2. readyInsts \in [SeqNums -> Nat] /\ exec \in [SeqNums -> Nat]
        /\ \A i \in SeqNums : ~(readyInsts[i] > 0 \/ exec[i] > 0)
    BY DEF Init
  <2>3. pending \in Seq([inst : Renamed, reg : Regs])
    BY DEF Init
  <2> QED
    BY <2>1, <2>2, <2>3 DEF UsesRenamed, Init
<1> QED
  BY <1>1, <1>2, <1>3, <1>4 DEF IQType, UsesRenamed, Calls, Init, NoWake

----------------------------------------------------------------------------
(* Who owns which register *)

\* A step that leaves the live instructions, what they read and write, and
\* the registers alone.
SameOwners ==
    /\ Live' = Live /\ renameMap' = renameMap /\ freeList' = freeList
    /\ Len(insts') = Len(insts)
    /\ \A j \in Live :
         /\ insts'[j].arch = insts[j].arch /\ insts'[j].dest = insts[j].dest
         /\ insts'[j].prev = insts[j].prev /\ Sources(j)' = Sources(j)

\* Dispatch order is kept when nothing leaves the skid buffer but the oldest.
SameSkid == \A j \in Live : insts'[j].st = "skid" <=> insts[j].st = "skid"

\* The steps of the loops and of the back end keep the owners.
LEMMA OwnerSteps ==
  ASSUME IQType, [Next]_vars
  PROVE  \/ \E shape : Rename(shape)
         \/ Commit
         \/ SquashInst
         \/ Insert /\ SameOwners
         \/ SameOwners /\ SameSkid
<1> SUFFICES ASSUME ~\E shape : Rename(shape), ~Commit, ~SquashInst
             PROVE  (Insert /\ SameOwners) \/ (SameOwners /\ SameSkid)
  OBVIOUS
<1>a. Live \subseteq Renamed
  BY InstFacts
<1>b. ASSUME UNCHANGED <<insts, renameMap, freeList>>
      PROVE  SameOwners /\ SameSkid
  <2>1. Live' = Live /\ \A j \in Live : Sources(j)' = Sources(j)
    BY <1>b DEF Live, Sources
  <2> QED
    BY <1>b, <2>1 DEF SameOwners, SameSkid
<1>c. ASSUME \A j \in Renamed : SameNames(j), Live' = Live, Len(insts') = Len(insts),
             UNCHANGED <<renameMap, freeList>>
      PROVE  SameOwners
  <2>1. \A j \in Live : Sources(j)' = Sources(j)
    BY <1>a, <1>c DEF Sources, SameNames
  <2> QED
    BY <1>a, <1>c, <2>1 DEF SameOwners, SameNames
<1>1. CASE Insert
  <2>1. PICK i \in Live : DispatchedAs(i) /\ Len(insts') = Len(insts) /\ Live' = Live
                          /\ \A j \in Renamed : j # i => insts'[j] = insts[j]
    BY <1>1, InsertEffect
  <2>2. UNCHANGED <<renameMap, freeList>>
    BY <1>1 DEF Insert, InsertInst
  <2>3. \A j \in Live : Sources(j)' = Sources(j)
    BY <1>a, <2>1 DEF Sources, DispatchedAs
  <2> QED
    BY <1>a, <1>1, <2>1, <2>2, <2>3 DEF SameOwners, DispatchedAs
<1>2. ASSUME NEW i \in SeqNums, Issue(i)
      PROVE  SameOwners /\ SameSkid
  <2>0. i \in Renamed /\ UNCHANGED <<renameMap, freeList>>
    BY <1>2 DEF Issue, IQType
  <2>1. CASE insts[i].st = "squashed"
    BY <2>1, <2>0, <1>2, <1>b DEF Issue
  <2>2. CASE insts[i].st # "squashed"
    <3> DEFINE s == IF insts[i].st = "iq" THEN "issued" ELSE insts[i].st
    <3>1. insts' = [insts EXCEPT ![i].st = s]
      BY <1>2, <2>2 DEF Issue
    <3>2. /\ s \in States /\ (s \in {"committed", "squashed"} <=> insts[i].st \in {"committed", "squashed"})
          /\ s = "skid" <=> insts[i].st = "skid"
      BY <2>0, InstFacts DEF DynInst, States
    <3> HIDE DEF s
    <3>3. /\ \A j \in Renamed : SameNames(j)
          /\ \A j \in Renamed : j # i => insts'[j] = insts[j]
          /\ insts'[i].st = s /\ Live' = Live /\ Len(insts') = Len(insts)
      BY <2>0, <3>1, <3>2, RestateInst
    <3> QED
      BY <2>0, <3>2, <3>3, <1>a, <1>c DEF SameSkid
  <2> QED
    BY <2>1, <2>2
<1>3. ASSUME NEW i \in SeqNums, Writeback(i)
      PROVE  SameOwners /\ SameSkid
  BY <1>3, <1>b DEF Writeback
<1>4. CASE WakeDeferred
  <2> DEFINE d == Head(pending).inst
  <2>1. d \in Renamed /\ UNCHANGED <<renameMap, freeList>>
    <3>1. pending \in Seq([inst : Renamed, reg : Regs]) /\ pending # <<>>
      BY <1>4 DEF WakeDeferred, IQType
    <3>2. ASSUME NEW S, NEW c \in Seq(S), c # <<>> PROVE Head(c) \in S
      BY <3>2
    <3>3. Head(pending) \in [inst : Renamed, reg : Regs]
      BY <3>1, <3>2, Zenon
    <3> QED
      BY <3>3, <1>4 DEF WakeDeferred
  <2>2. insts' = insts \/ insts' = [insts EXCEPT ![d] = MarkReady(insts[d], 1)]
    BY <1>4 DEF WakeDeferred
  <2> HIDE DEF d
  <2>3. CASE insts' = insts
    BY <2>1, <2>3, <1>b
  <2>4. CASE insts' = [insts EXCEPT ![d] = MarkReady(insts[d], 1)]
    <3>1. /\ \A j \in Renamed : SameNames(j) /\ insts'[j].st = insts[j].st
          /\ Live' = Live /\ Len(insts') = Len(insts)
      BY <2>1, <2>4, MarkInst
    <3> QED
      BY <3>1, <2>1, <1>a, <1>c DEF SameSkid
  <2> QED
    BY <2>2, <2>3, <2>4
<1>5. CASE WakeFirst
  BY <1>5, <1>b DEF WakeFirst
<1>6. CASE WakeSkip
  BY <1>6, <1>b DEF WakeSkip
<1>7. CASE WakeMark
  <2> DEFINE d == wk.dep
  <2>1. d \in Renamed
    BY <1>7, WakeCall DEF WakeMark, IQType, NoWake, Calls
  <2>2. insts' = [insts EXCEPT ![d] = MarkReady(insts[d], 1)] /\ UNCHANGED <<renameMap, freeList>>
    BY <1>7 DEF WakeMark
  <2> HIDE DEF d
  <2>3. /\ \A j \in Renamed : SameNames(j) /\ insts'[j].st = insts[j].st
        /\ Live' = Live /\ Len(insts') = Len(insts)
    BY <2>1, <2>2, MarkInst
  <2> QED
    BY <2>2, <2>3, <1>a, <1>c DEF SameSkid
<1>8. CASE WakeEnd
  <2> DEFINE i == wk.inst
             s == IF insts[i].st = "issued" THEN "done" ELSE insts[i].st
  <2>1. i \in Renamed
    BY <1>8, WakeCall DEF WakeEnd
  <2>2. insts' = [insts EXCEPT ![i].st = s] /\ UNCHANGED <<renameMap, freeList>>
    BY <1>8 DEF WakeEnd
  <2> HIDE DEF i
  <2>3. /\ s \in States /\ (s \in {"committed", "squashed"} <=> insts[i].st \in {"committed", "squashed"})
        /\ s = "skid" <=> insts[i].st = "skid"
    BY <2>1, InstFacts DEF DynInst, States
  <2> HIDE DEF s
  <2>4. /\ \A j \in Renamed : SameNames(j)
        /\ \A j \in Renamed : j # i => insts'[j] = insts[j]
        /\ insts'[i].st = s /\ Live' = Live /\ Len(insts') = Len(insts)
    BY <2>1, <2>2, <2>3, RestateInst
  <2> QED
    BY <2>1, <2>2, <2>3, <2>4, <1>a, <1>c DEF SameSkid
<1>9. ASSUME NEW k \in 0 .. Len(insts), Squash(k)
      PROVE  SameOwners /\ SameSkid
  BY <1>9, <1>b DEF Squash
<1>10. CASE SquashSource
  BY <1>10, <1>b DEF SquashSource
<1>11. ASSUME NEW k \in SeqNums, ProcessFault(k)
       PROVE  SameOwners /\ SameSkid
  <2>1. PICK h \in Live :
           /\ FaultAs(h) /\ Len(insts') = Len(insts) /\ Live' = Live
           /\ \A j \in Renamed : j # h => insts'[j] = insts[j]
           /\ \A j \in Renamed : Sources(j)' = Sources(j)
    BY <1>11, FaultEffect
  <2>2. UNCHANGED <<renameMap, freeList>>
    BY <1>11 DEF ProcessFault
  <2> QED
    BY <1>a, <2>1, <2>2 DEF SameOwners, SameSkid, FaultAs
<1>12. CASE UNCHANGED vars
  BY <1>12, <1>b DEF vars
<1> QED
  BY <1>1, <1>2, <1>3, <1>4, <1>5, <1>6, <1>7, <1>8, <1>9, <1>10, <1>11, <1>12
     DEF Next, WakeStep, SquashStep

Owners == DestType /\ NoDoubleOwner /\ WritersChained /\ SourcesOwned

\* Owners depend on the names, the mapping and the free list only.
LEMMA OwnersFrame ==
  ASSUME Owners, SameOwners
  PROVE  Owners'
<1>1. /\ Writers' = Writers /\ Mapped' = Mapped
      /\ \A i \in Writers : insts'[i].prev = insts[i].prev
                            /\ insts'[i].dest = insts[i].dest /\ insts'[i].arch = insts[i].arch
  BY DEF SameOwners, Writers, Mapped
<1>2. DestType'
  BY DEF SameOwners, Owners, DestType
<1>3. NoDoubleOwner'
  BY <1>1 DEF SameOwners, Owners, NoDoubleOwner
<1>4. WritersChained'
  BY <1>1 DEF SameOwners, Owners, WritersChained, NextWriter
<1>5. SourcesOwned'
  <2> SUFFICES ASSUME NEW i \in Live, NEW p \in Sources(i)
               PROVE  /\ p \in Mapped' \/ \E j \in Writers' : i <= j /\ insts'[j].prev = p
                      /\ \A j \in Live' : i <= j => insts'[j].dest # p
    BY DEF SameOwners, SourcesOwned
  <2> QED
    BY <1>1 DEF SameOwners, Owners, SourcesOwned
<1> QED
  BY <1>2, <1>3, <1>4, <1>5 DEF Owners

\* Destinations, replaced mappings and sources are not free.
LEMMA NotFree ==
  ASSUME IQType, Owners, NEW m \in DOMAIN freeList
  PROVE  /\ freeList[m] \notin Mapped
         /\ \A j \in Writers : insts[j].prev # freeList[m] /\ insts[j].dest # freeList[m]
         /\ \A i \in Live : freeList[m] \notin Sources(i)
         /\ \A j \in Live : insts[j].dest # freeList[m]
<1>1. freeList[m] \notin Mapped /\ \A j \in Writers : insts[j].prev # freeList[m]
  BY DEF Owners, NoDoubleOwner
<1>2. \A j \in Writers : insts[j].arch \in ArchRegs
  BY DEF Owners, DestType, Writers
<1>3. \A j \in Writers : insts[j].dest # freeList[m]
  BY <1>1, <1>2 DEF Owners, WritersChained, Mapped
<1>4. \A i \in Live : freeList[m] \notin Sources(i)
  BY <1>1 DEF Owners, SourcesOwned
<1>5. freeList[m] # NoReg
  BY Numbers DEF IQType
<1> QED
  BY <1>1, <1>3, <1>4, <1>5 DEF Writers

\* Rename, as the owners see it.
LEMMA RenameOwners ==
  ASSUME IQType, NEW shape, Rename(shape)
  PROVE  \E n \in SeqNums :
           /\ n = Len(insts) + 1 /\ n \notin Live /\ \A j \in Live : j < n
           /\ Live' = Live \cup {n} /\ RenamedAs(n, shape) /\ Len(insts') = n
           /\ \A j \in Live : insts'[j] = insts[j]
           /\ \A j \in Live : Sources(j)' = Sources(j)
           /\ \A p \in Sources(n)' : p \in Mapped
           /\ shape.dest = NoDest =>
                /\ insts'[n].dest = NoReg /\ insts'[n].prev = NoReg /\ insts'[n].arch = NoDest
                /\ Writers' = Writers /\ renameMap' = renameMap /\ freeList' = freeList
           /\ shape.dest # NoDest =>
                /\ shape.dest \in ArchRegs /\ freeList # <<>>
                /\ insts'[n].dest = freeList[1] /\ insts'[n].arch = shape.dest
                /\ insts'[n].prev = renameMap[shape.dest]
                /\ freeList[1] \in PhysRegs /\ renameMap[shape.dest] \in PhysRegs
                /\ renameMap' = [renameMap EXCEPT ![shape.dest] = freeList[1]]
                /\ freeList' = Tail(freeList)
                /\ Writers' = Writers \cup {n}
<1> DEFINE new == IF shape.dest = NoDest THEN NoReg ELSE Head(freeList)
<1>0. PICK n \in SeqNums : n = Len(insts) + 1
  BY RenameEffect
<1>1. /\ Len(insts') = n /\ RenamedAs(n, shape)
      /\ \A j \in Renamed : insts'[j] = insts[j]
      /\ Live' = Live \cup {n}
      /\ shape \in [srcs : Seq(ArchRegs), dest : 0 .. NoDest]
      /\ shape.dest # NoDest => shape.dest \in ArchRegs /\ freeList # <<>>
  BY <1>0, RenameEffect
<1>2. n \notin Live /\ \A j \in Live : j < n
  BY <1>0, InstFacts DEF Renamed
<1>4. \A j \in Live : insts'[j] = insts[j]
  BY <1>1, InstFacts
<1>5. \A j \in Live : Sources(j)' = Sources(j)
  BY <1>4 DEF Sources
<1>6. \A p \in Sources(n)' : p \in Mapped
  <2>1. insts'[n].srcs = [k \in DOMAIN shape.srcs |-> renameMap[shape.srcs[k]]]
    BY <1>1 DEF RenamedAs
  <2>2. \A k \in DOMAIN shape.srcs : shape.srcs[k] \in ArchRegs
    <3>1. shape.srcs \in Seq(ArchRegs)
      BY <1>1
    <3> QED
      BY <3>1
  <2> QED
    BY <2>1, <2>2 DEF Sources, Mapped
<1>7. /\ renameMap' = [a \in ArchRegs |-> IF a = shape.dest THEN new ELSE renameMap[a]]
      /\ freeList' = IF new = NoReg THEN freeList ELSE Tail(freeList)
  BY DEF Rename
<1>8. renameMap \in [ArchRegs -> PhysRegs] /\ freeList \in Seq(PhysRegs)
  BY TypeUses
<1>9. Writers' = {i \in Live' : insts'[i].dest # NoReg} /\ Writers = {i \in Live : insts[i].dest # NoReg}
  BY DEF Writers
<1>10. ASSUME shape.dest = NoDest
       PROVE  /\ insts'[n].dest = NoReg /\ insts'[n].prev = NoReg /\ insts'[n].arch = NoDest
              /\ Writers' = Writers /\ renameMap' = renameMap /\ freeList' = freeList
  <2>1. insts'[n].dest = NoReg /\ insts'[n].prev = NoReg /\ insts'[n].arch = NoDest
    BY <1>10, <1>1 DEF RenamedAs
  <2>2. Writers' = Writers
    BY <2>1, <1>1, <1>2, <1>4, <1>9
  <2>3. renameMap' = renameMap /\ freeList' = freeList
    BY <1>10, <1>7, <1>8, Numbers
  <2> QED
    BY <2>1, <2>2, <2>3
<1>11. ASSUME shape.dest # NoDest
       PROVE  /\ shape.dest \in ArchRegs /\ freeList # <<>>
              /\ insts'[n].dest = freeList[1] /\ insts'[n].arch = shape.dest
              /\ insts'[n].prev = renameMap[shape.dest]
              /\ freeList[1] \in PhysRegs /\ renameMap[shape.dest] \in PhysRegs
              /\ renameMap' = [renameMap EXCEPT ![shape.dest] = freeList[1]]
              /\ freeList' = Tail(freeList)
              /\ Writers' = Writers \cup {n}
  <2>1. shape.dest \in ArchRegs /\ freeList # <<>>
    BY <1>11, <1>1
  <2>2. Head(freeList) = freeList[1] /\ freeList[1] \in PhysRegs
    BY <2>1, <1>8
  <2>3. new = freeList[1] /\ new # NoReg
    BY <1>11, <2>2, Numbers
  <2>4. insts'[n].dest = freeList[1] /\ insts'[n].arch = shape.dest
        /\ insts'[n].prev = renameMap[shape.dest]
    BY <1>11, <2>2, <1>1 DEF RenamedAs
  <2> HIDE DEF new
  <2>5. Writers' = Writers \cup {n}
    BY <2>3, <2>4, <1>1, <1>2, <1>4, <1>9
  <2> QED
    BY <2>1, <2>2, <2>3, <2>4, <2>5, <1>7, <1>8
<1> QED
  BY <1>0, <1>1, <1>2, <1>4, <1>5, <1>6, <1>10, <1>11

\* A register taken from the free list gets one owner.
LEMMA OwnersRename ==
  ASSUME IQType, Owners, NEW shape, Rename(shape)
  PROVE  Owners'
<1>1. PICK n \in SeqNums :
           /\ n = Len(insts) + 1 /\ n \notin Live /\ \A j \in Live : j < n
           /\ Live' = Live \cup {n}
           /\ \A j \in Live : insts'[j] = insts[j]
           /\ \A j \in Live : Sources(j)' = Sources(j)
           /\ \A p \in Sources(n)' : p \in Mapped
           /\ shape.dest = NoDest =>
                /\ insts'[n].dest = NoReg /\ insts'[n].prev = NoReg /\ insts'[n].arch = NoDest
                /\ Writers' = Writers /\ renameMap' = renameMap /\ freeList' = freeList
           /\ shape.dest # NoDest =>
                /\ shape.dest \in ArchRegs /\ freeList # <<>>
                /\ insts'[n].dest = freeList[1] /\ insts'[n].arch = shape.dest
                /\ insts'[n].prev = renameMap[shape.dest]
                /\ freeList[1] \in PhysRegs /\ renameMap[shape.dest] \in PhysRegs
                /\ renameMap' = [renameMap EXCEPT ![shape.dest] = freeList[1]]
                /\ freeList' = Tail(freeList)
                /\ Writers' = Writers \cup {n}
  BY RenameOwners
<1>a. Writers \subseteq Live /\ \A i \in Live : i \in Nat
  BY InstFacts DEF Writers, Renamed
<1>b. renameMap \in [ArchRegs -> PhysRegs] /\ freeList \in Seq(PhysRegs) /\ n \in Nat
  BY TypeUses DEF SeqNums
<1>2. DestType'
  BY <1>1, Numbers DEF Owners, DestType
<1>3. CASE shape.dest = NoDest
  <2>1. Mapped' = Mapped
    BY <1>1, <1>3 DEF Mapped
  <2>2. NoDoubleOwner'
    BY <1>1, <1>3, <1>a, <2>1 DEF Owners, NoDoubleOwner
  <2>3. WritersChained'
    BY <1>1, <1>3, <1>a DEF Owners, WritersChained, NextWriter
  <2>4. ASSUME NEW i \in Live', NEW p \in Sources(i)'
        PROVE  /\ p \in Mapped \/ \E j \in Writers : i <= j /\ insts'[j].prev = p
               /\ \A j \in Live' : i <= j => insts'[j].dest # p
    <3>1. p # NoReg
      <4>1. \A a \in ArchRegs : renameMap[a] # NoReg
        BY <1>b, Numbers
      <4>2. \A j \in Writers : insts[j].prev # NoReg
        BY Numbers DEF Owners, DestType, Writers
      <4>3. i \in Live => p \in Sources(i)
        BY <1>1
      <4> QED
        BY <4>1, <4>2, <4>3, <1>1 DEF Owners, SourcesOwned, Mapped
    <3>2. CASE i = n
      <4>1. p \in Mapped
        BY <1>1, <3>2
      <4>2. \A j \in Live' : i <= j => j = n
        BY <1>1, <1>a, <1>b, <3>2
      <4> QED
        BY <4>1, <4>2, <3>1, <1>1, <1>3
    <3>3. CASE i \in Live
      <4>1. p \in Sources(i)
        BY <1>1, <3>3
      <4>2. p \in Mapped \/ \E j \in Writers : i <= j /\ insts'[j].prev = p
        BY <4>1, <3>3, <1>1, <1>a DEF Owners, SourcesOwned
      <4>3. \A j \in Live : i <= j => insts'[j].dest # p
        BY <4>1, <3>3, <1>1 DEF Owners, SourcesOwned
      <4> QED
        BY <4>2, <4>3, <3>1, <1>1, <1>3
    <3> QED
      BY <3>2, <3>3, <1>1
  <2>5. SourcesOwned'
    BY <2>1, <2>4, <1>1, <1>3 DEF SourcesOwned
  <2> QED
    BY <1>2, <2>2, <2>3, <2>5 DEF Owners
<1>4. CASE shape.dest # NoDest
  <2> DEFINE d == shape.dest
             new == freeList[1]
  <2>0. /\ d \in ArchRegs /\ freeList # <<>> /\ new \in PhysRegs
        /\ insts'[n].dest = new /\ insts'[n].arch = d /\ insts'[n].prev = renameMap[d]
        /\ renameMap' = [renameMap EXCEPT ![d] = new] /\ freeList' = Tail(freeList)
        /\ Writers' = Writers \cup {n} /\ n \notin Writers
        /\ \A j \in Writers : insts'[j] = insts[j] /\ j < n
    BY <1>1, <1>4, <1>a
  <2>1. 1 \in DOMAIN freeList
    BY <2>0, <1>b
  <2>2. /\ new \notin Mapped
        /\ \A j \in Writers : insts[j].prev # new /\ insts[j].dest # new
        /\ \A i \in Live : new \notin Sources(i)
    BY <2>1, NotFree
  <2> HIDE DEF d, new
  <2>3. /\ \A a \in ArchRegs : renameMap'[a] = IF a = d THEN new ELSE renameMap[a]
        /\ \A p \in Mapped' : p = new \/ (p \in Mapped /\ p # renameMap[d])
        /\ \A p \in Mapped : p = renameMap[d] \/ p \in Mapped'
    <3>1. \A a \in ArchRegs : renameMap'[a] = IF a = d THEN new ELSE renameMap[a]
      BY <2>0, <1>b
    <3>2. Mapped' = {renameMap'[a] : a \in ArchRegs}
      BY DEF Mapped
    <3>3. \A a, b \in ArchRegs : renameMap[a] = renameMap[b] => a = b
      BY DEF Owners, NoDoubleOwner
    <3> QED
      BY <3>1, <3>2, <3>3, <2>0 DEF Mapped
  <2>4. /\ \A m \in DOMAIN freeList' : m + 1 \in DOMAIN freeList /\ freeList'[m] = freeList[m + 1] /\ m + 1 # 1
        /\ \A m, k \in DOMAIN freeList' : m + 1 = k + 1 => m = k
    BY <2>0, <1>b
  <2>5. \A m \in DOMAIN freeList' : freeList'[m] # new
    BY <2>1, <2>4 DEF new, Owners, NoDoubleOwner
  <2>6. NoDoubleOwner'
    <3>1. \A m, k \in DOMAIN freeList' : freeList'[m] = freeList'[k] => m = k
      BY <2>4 DEF Owners, NoDoubleOwner
    <3>2. \A a, b \in ArchRegs : renameMap'[a] = renameMap'[b] => a = b
      BY <2>2, <2>3 DEF Owners, NoDoubleOwner, Mapped
    <3>3. \A i \in Writers : insts[i].prev # renameMap[d]
      BY <2>0 DEF Owners, NoDoubleOwner, Mapped
    <3>4. \A i, j \in Writers' : insts'[i].prev = insts'[j].prev => i = j
      BY <2>0, <3>3 DEF Owners, NoDoubleOwner
    <3>5. \A m \in DOMAIN freeList' : /\ freeList'[m] \notin Mapped'
                                      /\ \A i \in Writers' : insts'[i].prev # freeList'[m]
      <4>1. renameMap[d] \in Mapped
        BY <2>0 DEF Mapped
      <4> QED
        BY <4>1, <2>0, <2>3, <2>4, <2>5 DEF Owners, NoDoubleOwner
    <3>6. \A i \in Writers' : insts'[i].prev \notin Mapped'
      <4>1. renameMap[d] # new
        BY <2>0, <2>2 DEF Mapped
      <4> QED
        BY <4>1, <2>0, <2>2, <2>3 DEF Owners, NoDoubleOwner
    <3> QED
      BY <3>1, <3>2, <3>4, <3>5, <3>6 DEF NoDoubleOwner
  <2>7. WritersChained'
    <3> SUFFICES ASSUME NEW i \in Writers'
                 PROVE  \/ /\ renameMap'[insts'[i].arch] = insts'[i].dest
                           /\ \A j \in Writers' : i < j => insts'[j].arch # insts'[i].arch
                        \/ \E j \in Writers' : NextWriter(i, j)' /\ insts'[j].prev = insts'[i].dest
      BY DEF WritersChained
    <3>1. CASE i = n
      <4>1. renameMap'[d] = new
        BY <2>0, <2>3
      <4>2. \A j \in Writers' : ~(n < j)
        BY <2>0, <1>a, <1>b
      <4> QED
        BY <3>1, <4>1, <4>2, <2>0
    <3>2. CASE i \in Writers
      <4>0. insts'[i] = insts[i] /\ i < n /\ insts[i].arch \in ArchRegs
        BY <3>2, <2>0 DEF Owners, DestType, Writers
      <4>1. CASE /\ renameMap[insts[i].arch] = insts[i].dest
                 /\ \A j \in Writers : i < j => insts[j].arch # insts[i].arch
        <5>1. CASE insts[i].arch = d
          <6>1. NextWriter(i, n)'
            <7>1. \A m \in Writers' : i < m /\ m < n => insts'[m].arch # insts'[i].arch
              BY <5>1, <4>0, <4>1, <2>0, <1>b
            <7> QED
              BY <7>1, <5>1, <4>0, <2>0 DEF NextWriter
          <6>2. insts'[n].prev = insts'[i].dest
            BY <5>1, <4>0, <4>1, <2>0
          <6> QED
            BY <6>1, <6>2, <2>0
        <5>2. CASE insts[i].arch # d
          BY <5>2, <4>0, <4>1, <2>0, <2>3
        <5> QED
          BY <5>1, <5>2
      <4>2. ASSUME NEW j \in Writers, NextWriter(i, j), insts[j].prev = insts[i].dest
            PROVE  NextWriter(i, j)' /\ insts'[j].prev = insts'[i].dest
        <5>1. ~(n < j)
          BY <2>0, <1>a, <1>b
        <5> QED
          BY <5>1, <4>0, <4>2, <2>0 DEF NextWriter
      <4> QED
        BY <3>2, <4>1, <4>2, <2>0 DEF Owners, WritersChained
    <3> QED
      BY <3>1, <3>2, <2>0
  <2>8. ASSUME NEW i \in Live', NEW p \in Sources(i)'
        PROVE  /\ p \in Mapped' \/ \E j \in Writers' : i <= j /\ insts'[j].prev = p
               /\ \A j \in Live' : i <= j => insts'[j].dest # p
    <3>1. i <= n /\ i \in Nat
      BY <1>1, <1>a, <1>b
    <3>2. p = renameMap[d] => \E j \in Writers' : i <= j /\ insts'[j].prev = p
      BY <3>1, <2>0
    <3>3. CASE i = n
      <4>1. p \in Mapped
        BY <1>1, <3>3
      <4>2. \A j \in Live' : i <= j => j = n
        BY <1>1, <1>a, <1>b, <3>3
      <4> QED
        BY <4>1, <4>2, <3>2, <2>0, <2>2, <2>3
    <3>4. CASE i \in Live
      <4>1. p \in Sources(i)
        BY <1>1, <3>4
      <4>2. p \in Mapped \/ \E j \in Writers' : i <= j /\ insts'[j].prev = p
        BY <4>1, <3>4, <2>0 DEF Owners, SourcesOwned
      <4>3. \A j \in Live : i <= j => insts'[j].dest # p
        BY <4>1, <3>4, <1>1 DEF Owners, SourcesOwned
      <4>4. insts'[n].dest # p
        BY <4>1, <3>4, <2>0, <2>2
      <4> QED
        BY <4>2, <4>3, <4>4, <3>2, <2>3, <1>1
    <3> QED
      BY <3>3, <3>4, <1>1
  <2>9. SourcesOwned'
    BY <2>8 DEF SourcesOwned
  <2> QED
    BY <1>2, <2>6, <2>7, <2>9 DEF Owners
<1> QED
  BY <1>3, <1>4

\* Appending a register that is nowhere else.
LEMMA AppendDistinct ==
  ASSUME NEW S, NEW c \in Seq(S), NEW x \in S, \A m \in DOMAIN c : c[m] # x,
         \A m, n \in DOMAIN c : c[m] = c[n] => m = n
  PROVE  /\ \A m \in DOMAIN Append(c, x) :
              Append(c, x)[m] = x \/ (m \in DOMAIN c /\ Append(c, x)[m] = c[m])
         /\ \A m, n \in DOMAIN Append(c, x) : Append(c, x)[m] = Append(c, x)[n] => m = n
<1> DEFINE w == Append(c, x)
           l == Len(c)
<1>1. /\ l \in Nat /\ DOMAIN w = 1 .. l + 1 /\ DOMAIN c = 1 .. l
      /\ w[l + 1] = x /\ \A m \in 1 .. l : w[m] = c[m]
  OBVIOUS
<1> HIDE DEF w, l
<1>2. \A m \in DOMAIN w : m = l + 1 \/ m \in 1 .. l
  BY <1>1
<1>3. \A m \in DOMAIN w : w[m] = x \/ (m \in DOMAIN c /\ w[m] = c[m])
  BY <1>1, <1>2
<1>4. \A m, n \in DOMAIN w : w[m] = w[n] => m = n
  BY <1>1, <1>2
<1> QED
  BY <1>3, <1>4 DEF w

\* Commit frees the register that nothing younger can read.
LEMMA OwnersCommit ==
  ASSUME IQType, Owners, Commit
  PROVE  Owners'
<1>1. PICK i \in Live :
           /\ \A j \in Live : i <= j
           /\ freeList' = Freed(insts[i].prev)
           /\ \A j \in Renamed : j # i => insts'[j] = insts[j]
           /\ Live' = Live \ {i}
  BY CommitEffect
<1>2. renameMap' = renameMap /\ Mapped' = Mapped
  BY DEF Commit, Mapped
<1>3. /\ \A j \in Live' : insts'[j] = insts[j] /\ j \in Live
      /\ \A j \in Live' : Sources(j)' = Sources(j)
      /\ \A j \in Live : j \in Nat
      /\ \A j \in Live' : i < j
  <2>1. \A j \in Live : j \in Nat /\ j \in Renamed
    BY InstFacts DEF Renamed
  <2> QED
    BY <2>1, <1>1 DEF Sources
<1>4. Writers' = Writers \ {i} /\ \A j \in Writers' : insts'[j] = insts[j]
  BY <1>1, <1>3 DEF Writers
<1>5. DestType'
  BY <1>3 DEF Owners, DestType
<1>6. NoDoubleOwner'
  <2>1. CASE insts[i].prev = NoReg
    <3>1. freeList' = freeList
      BY <2>1, <1>1 DEF Freed
    <3> QED
      BY <3>1, <1>2, <1>4 DEF Owners, NoDoubleOwner
  <2>2. CASE insts[i].prev # NoReg
    <3> DEFINE q == insts[i].prev
    <3>1. freeList' = Append(freeList, q)
      BY <2>2, <1>1 DEF Freed
    <3>2. i \in Writers /\ q \in PhysRegs
      BY <2>2, <1>1 DEF Owners, DestType, Writers
    <3>3. /\ q \notin Mapped /\ \A m \in DOMAIN freeList : freeList[m] # q
          /\ \A j \in Writers' : insts[j].prev # q
      BY <3>2, <1>4 DEF Owners, NoDoubleOwner
    <3> HIDE DEF q
    <3>4. /\ \A m \in DOMAIN freeList' :
               freeList'[m] = q \/ (m \in DOMAIN freeList /\ freeList'[m] = freeList[m])
          /\ \A m, n \in DOMAIN freeList' : freeList'[m] = freeList'[n] => m = n
      <4>1. freeList \in Seq(PhysRegs) /\ \A m, n \in DOMAIN freeList : freeList[m] = freeList[n] => m = n
        BY TypeUses DEF Owners, NoDoubleOwner
      <4> QED
        BY <3>1, <3>2, <3>3, <4>1, AppendDistinct
    <3>5. \A m \in DOMAIN freeList' : /\ freeList'[m] \notin Mapped'
                                      /\ \A j \in Writers' : insts'[j].prev # freeList'[m]
      BY <3>3, <3>4, <1>2, <1>4 DEF Owners, NoDoubleOwner
    <3>6. /\ \A a, b \in ArchRegs : renameMap'[a] = renameMap'[b] => a = b
          /\ \A j, k \in Writers' : insts'[j].prev = insts'[k].prev => j = k
          /\ \A j \in Writers' : insts'[j].prev \notin Mapped'
      BY <1>2, <1>4 DEF Owners, NoDoubleOwner
    <3> QED
      BY <3>4, <3>5, <3>6 DEF NoDoubleOwner
  <2> QED
    BY <2>1, <2>2
<1>7. WritersChained'
  <2> SUFFICES ASSUME NEW k \in Writers'
               PROVE  \/ /\ renameMap'[insts'[k].arch] = insts'[k].dest
                         /\ \A j \in Writers' : k < j => insts'[j].arch # insts'[k].arch
                      \/ \E j \in Writers' : NextWriter(k, j)' /\ insts'[j].prev = insts'[k].dest
    BY DEF WritersChained
  <2>1. ASSUME NEW j \in Writers, NextWriter(k, j), insts[j].prev = insts[k].dest
        PROVE  j \in Writers' /\ NextWriter(k, j)' /\ insts'[j].prev = insts'[k].dest
    <3>1. i < k /\ k < j /\ i \in Nat /\ k \in Nat /\ j \in Nat
      BY <2>1, <1>3 DEF NextWriter, Writers
    <3>2. j \in Writers'
      BY <3>1, <1>4
    <3> QED
      BY <3>2, <2>1, <1>4 DEF NextWriter
  <2> QED
    BY <2>1, <1>2, <1>4 DEF Owners, WritersChained
<1>8. SourcesOwned'
  <2> SUFFICES ASSUME NEW k \in Live', NEW p \in Sources(k)'
               PROVE  /\ p \in Mapped' \/ \E j \in Writers' : k <= j /\ insts'[j].prev = p
                      /\ \A j \in Live' : k <= j => insts'[j].dest # p
    BY DEF SourcesOwned
  <2>1. k \in Live /\ p \in Sources(k) /\ i < k /\ i \in Nat /\ k \in Nat
    BY <1>1, <1>3
  <2>2. \A j \in Writers : k <= j => j \in Writers'
    BY <2>1, <1>3, <1>4 DEF Writers
  <2> QED
    BY <2>1, <2>2, <1>2, <1>3, <1>4 DEF Owners, SourcesOwned
<1> QED
  BY <1>5, <1>6, <1>7, <1>8 DEF Owners

\* A squash gives back the youngest destination and restores the mapping.
LEMMA OwnersSquash ==
  ASSUME IQType, Owners, SquashInst
  PROVE  Owners'
<1>1. PICK i \in Live :
           /\ \A j \in Live : j <= i
           /\ \A j \in Renamed : j # i => insts'[j] = insts[j]
           /\ Live' = Live \ {i}
           /\ renameMap' = [a \in ArchRegs |->
                              IF a = insts[i].arch THEN insts[i].prev ELSE renameMap[a]]
           /\ freeList' = Freed(insts[i].dest)
  BY SquashEffect DEF Victims
<1>2. /\ \A j \in Live' : insts'[j] = insts[j] /\ j \in Live
      /\ \A j \in Live' : Sources(j)' = Sources(j)
      /\ \A j \in Live : j \in Nat
      /\ \A j \in Live' : j < i
  <2>1. \A j \in Live : j \in Nat /\ j \in Renamed
    BY InstFacts DEF Renamed
  <2> QED
    BY <2>1, <1>1 DEF Sources
<1>3. Writers' = Writers \ {i} /\ \A j \in Writers' : insts'[j] = insts[j]
  BY <1>1, <1>2 DEF Writers
<1>4. DestType'
  BY <1>2 DEF Owners, DestType
<1>5. renameMap \in [ArchRegs -> PhysRegs] /\ freeList \in Seq(PhysRegs)
  BY TypeUses
<1>6. CASE insts[i].dest = NoReg
  <2>1. freeList' = freeList
    BY <1>1, <1>6 DEF Freed
  <2>2. insts[i].arch \notin ArchRegs /\ i \notin Writers
    BY <1>6, <1>1, Numbers DEF Owners, DestType, Writers
  <2>3. renameMap' = renameMap /\ Mapped' = Mapped
    BY <1>1, <1>5, <2>2 DEF Mapped
  <2>4. Writers' = Writers
    BY <2>2, <1>3
  <2>5. NoDoubleOwner'
    BY <2>1, <2>3, <2>4, <1>3 DEF Owners, NoDoubleOwner
  <2>6. WritersChained'
    BY <2>3, <2>4, <1>3 DEF Owners, WritersChained, NextWriter
  <2>7. SourcesOwned'
    BY <2>3, <2>4, <1>2, <1>3 DEF Owners, SourcesOwned
  <2> QED
    BY <1>4, <2>5, <2>6, <2>7 DEF Owners
<1>7. CASE insts[i].dest # NoReg
  <2> DEFINE d == insts[i].dest
             q == insts[i].prev
             r == insts[i].arch
  <2>1. freeList' = Append(freeList, d) /\ i \in Writers /\ d \in PhysRegs
        /\ r \in ArchRegs /\ q \in PhysRegs
    BY <1>1, <1>7, InstFacts DEF Freed, Writers, Owners, DestType, Regs
  <2>2. renameMap[r] = d
    <3>1. \A j \in Writers : ~(i < j)
      BY <1>1, <1>2 DEF Writers
    <3> QED
      BY <2>1, <3>1 DEF Owners, WritersChained, NextWriter
  <2>3. /\ q \notin Mapped /\ d \in Mapped /\ d # q
        /\ \A m \in DOMAIN freeList : freeList[m] # q /\ freeList[m] # d
        /\ \A j \in Writers' : insts[j].prev # q
        /\ \A j \in Writers : insts[j].prev # d
    <3>1. d \in Mapped
      BY <2>1, <2>2 DEF Mapped
    <3> QED
      BY <3>1, <2>1, <1>3 DEF Owners, NoDoubleOwner
  <2> HIDE DEF d, q, r
  <2>4. /\ \A a \in ArchRegs : renameMap'[a] = IF a = r THEN q ELSE renameMap[a]
        /\ \A p \in Mapped' : p = q \/ (p \in Mapped /\ p # d)
        /\ \A p \in Mapped : p = d \/ p \in Mapped'
        /\ q \in Mapped'
    <3>1. \A a \in ArchRegs : renameMap'[a] = IF a = r THEN q ELSE renameMap[a]
      BY <1>1 DEF q, r
    <3>2. Mapped' = {renameMap'[a] : a \in ArchRegs}
      BY DEF Mapped
    <3>3. \A a, b \in ArchRegs : renameMap[a] = renameMap[b] => a = b
      BY DEF Owners, NoDoubleOwner
    <3> QED
      BY <3>1, <3>2, <3>3, <2>1, <2>2 DEF Mapped
  <2>5. NoDoubleOwner'
    <3>1. /\ \A m \in DOMAIN freeList' :
               freeList'[m] = d \/ (m \in DOMAIN freeList /\ freeList'[m] = freeList[m])
          /\ \A m, n \in DOMAIN freeList' : freeList'[m] = freeList'[n] => m = n
      <4>1. \A m, n \in DOMAIN freeList : freeList[m] = freeList[n] => m = n
        BY DEF Owners, NoDoubleOwner
      <4> QED
        BY <1>5, <2>1, <2>3, <4>1, AppendDistinct
    <3>2. \A m \in DOMAIN freeList' : /\ freeList'[m] \notin Mapped'
                                      /\ \A j \in Writers' : insts'[j].prev # freeList'[m]
      BY <3>1, <2>3, <2>4, <1>3 DEF Owners, NoDoubleOwner
    <3>3. \A a, b \in ArchRegs : renameMap'[a] = renameMap'[b] => a = b
      BY <2>3, <2>4 DEF Owners, NoDoubleOwner, Mapped
    <3>4. /\ \A j, k \in Writers' : insts'[j].prev = insts'[k].prev => j = k
          /\ \A j \in Writers' : insts'[j].prev \notin Mapped'
      BY <2>3, <2>4, <1>3 DEF Owners, NoDoubleOwner
    <3> QED
      BY <3>1, <3>2, <3>3, <3>4 DEF NoDoubleOwner
  <2>6. WritersChained'
    <3> SUFFICES ASSUME NEW k \in Writers'
                 PROVE  \/ /\ renameMap'[insts'[k].arch] = insts'[k].dest
                           /\ \A j \in Writers' : k < j => insts'[j].arch # insts'[k].arch
                        \/ \E j \in Writers' : NextWriter(k, j)' /\ insts'[j].prev = insts'[k].dest
      BY DEF WritersChained
    <3>0. k \in Writers /\ insts'[k] = insts[k] /\ insts[k].arch \in ArchRegs /\ k < i
          /\ k \in Nat /\ i \in Nat
      BY <1>1, <1>2, <1>3 DEF Owners, DestType, Writers
    <3>1. CASE /\ renameMap[insts[k].arch] = insts[k].dest
               /\ \A j \in Writers : k < j => insts[j].arch # insts[k].arch
      <4>1. insts[k].arch # r
        BY <3>0, <3>1, <2>1 DEF r
      <4> QED
        BY <4>1, <3>0, <3>1, <2>4, <1>3
    <3>2. ASSUME NEW j \in Writers, NextWriter(k, j), insts[j].prev = insts[k].dest
          PROVE  \/ /\ renameMap'[insts'[k].arch] = insts'[k].dest
                    /\ \A m \in Writers' : k < m => insts'[m].arch # insts'[k].arch
                 \/ j \in Writers' /\ NextWriter(k, j)' /\ insts'[j].prev = insts'[k].dest
      <4>1. CASE j = i
        <5>1. insts[k].arch = r /\ q = insts[k].dest
          BY <4>1, <3>2 DEF NextWriter, r, q
        <5>2. \A m \in Writers' : m < i /\ m \in Writers
          BY <1>2, <1>3 DEF Writers
        <5>3. \A m \in Writers' : k < m => insts'[m].arch # insts'[k].arch
          BY <5>2, <4>1, <3>0, <3>2, <1>3 DEF NextWriter
        <5> QED
          BY <5>1, <5>3, <3>0, <2>1, <2>4
      <4>2. CASE j # i
        BY <4>2, <3>0, <3>2, <1>3 DEF NextWriter
      <4> QED
        BY <4>1, <4>2
    <3> QED
      BY <3>0, <3>1, <3>2 DEF Owners, WritersChained
  <2>7. SourcesOwned'
    <3> SUFFICES ASSUME NEW k \in Live', NEW p \in Sources(k)'
                 PROVE  /\ p \in Mapped' \/ \E j \in Writers' : k <= j /\ insts'[j].prev = p
                        /\ \A j \in Live' : k <= j => insts'[j].dest # p
      BY DEF SourcesOwned
    <3>1. k \in Live /\ p \in Sources(k) /\ k <= i
      BY <1>1, <1>2
    <3>2. p # d /\ \A j \in Live : k <= j => insts[j].dest # p
      BY <3>1, <1>1 DEF Owners, SourcesOwned, d
    <3>3. p \in Mapped \/ \E j \in Writers : k <= j /\ insts[j].prev = p
      BY <3>1 DEF Owners, SourcesOwned
    <3>4. p \in Mapped' \/ \E j \in Writers' : k <= j /\ insts'[j].prev = p
      BY <3>2, <3>3, <2>4, <1>3 DEF q
    <3> QED
      BY <3>2, <3>4, <1>2
  <2> QED
    BY <1>4, <2>5, <2>6, <2>7 DEF Owners
<1> QED
  BY <1>6, <1>7

\* Owners and dispatch order hold initially.
LEMMA OwnersInit ==
  Init => Owners /\ InOrderDispatch
<1> SUFFICES ASSUME Init PROVE Owners /\ InOrderDispatch
  OBVIOUS
<1>1. Live = {} /\ Writers = {}
  BY DEF Init, Live, Writers
<1>2. Mapped = ArchRegs /\ \A a \in ArchRegs : renameMap[a] = a
  BY DEF Init, Mapped
<1>3. DOMAIN freeList = 1 .. NumPhys - NumArch
      /\ \A m \in DOMAIN freeList : freeList[m] = NumArch + m - 1
  BY DEF Init
<1>4. /\ \A m \in DOMAIN freeList : freeList[m] \notin Mapped
      /\ \A m, n \in DOMAIN freeList : freeList[m] = freeList[n] => m = n
  BY <1>2, <1>3, Numbers DEF ArchRegs
<1> QED
  BY <1>1, <1>2, <1>4 DEF Owners, DestType, NoDoubleOwner, WritersChained, SourcesOwned,
     InOrderDispatch

\* Every step keeps the owners.
LEMMA OwnersNext ==
  ASSUME IQType, Owners, [Next]_vars
  PROVE  Owners'
BY OwnerSteps, OwnersFrame, OwnersRename, OwnersCommit, OwnersSquash

\* Every step keeps the dispatch order.
LEMMA InOrderNext ==
  ASSUME IQType, InOrderDispatch, [Next]_vars
  PROVE  InOrderDispatch'
<1>a. \A j \in Live : j \in Nat /\ j \in Renamed
  BY InstFacts DEF Renamed
<1>1. ASSUME NEW shape, Rename(shape) PROVE InOrderDispatch'
  <2>1. PICK n \in SeqNums : /\ \A j \in Live : j < n
                             /\ Live' = Live \cup {n} /\ RenamedAs(n, shape)
                             /\ \A j \in Live : insts'[j] = insts[j]
    BY <1>1, RenameOwners
  <2>2. insts'[n].st = "skid" /\ n \in Nat
    BY <2>1 DEF RenamedAs, SeqNums
  <2> QED
    BY <1>a, <2>1, <2>2 DEF InOrderDispatch
<1>2. CASE Commit
  <2>1. Live' \subseteq Live /\ \A j \in Live' : insts'[j] = insts[j]
    BY <1>a, <1>2, CommitEffect
  <2> QED
    BY <2>1 DEF InOrderDispatch
<1>3. CASE SquashInst
  <2>1. Live' \subseteq Live /\ \A j \in Live' : insts'[j] = insts[j]
    BY <1>a, <1>3, SquashEffect
  <2> QED
    BY <2>1 DEF InOrderDispatch
<1>4. CASE Insert
  <2>1. PICK i \in Live : /\ insts[i].st = "skid" /\ \A j \in Live : insts[j].st = "skid" => i <= j
                          /\ \A j \in Renamed : j # i => insts'[j] = insts[j]
                          /\ insts'[i].st = "iq" /\ Live' = Live
    BY <1>4, InsertEffect DEF DispatchedAs
  <2> QED
    BY <1>a, <2>1 DEF InOrderDispatch
<1>5. CASE SameOwners /\ SameSkid
  BY <1>5 DEF SameOwners, SameSkid, InOrderDispatch
<1> QED
  BY <1>1, <1>2, <1>3, <1>4, <1>5, OwnerSteps

\* Every step keeps the types.
LEMMA TypeNext ==
  ASSUME IQType, DestType, [Next]_vars
  PROVE  IQType'
<1>1. CASE UNCHANGED vars
  <2>1. Renamed' = Renamed /\ UsesRenamed(Renamed)'
    BY <1>1, TypeUses DEF vars, Renamed, UsesRenamed
  <2> QED
    BY <1>1, <2>1, TypeUses, TypeParts DEF vars
<1>2. CASE SquashSource
  BY <1>2, TypeSquashSource
<1>3. CASE \E k \in 0 .. Len(insts) : Squash(k)
  BY <1>3, TypeSquash
<1>4. CASE \E k \in SeqNums : ProcessFault(k)
  BY <1>4, TypeFault
<1> QED
  BY <1>1, <1>2, <1>3, <1>4, TypeRename, TypeInsert, TypeIssue, TypeWriteback,
     TypeWakeDeferred, TypeWakeFirst, TypeWakeSkip, TypeWakeMark, TypeWakeEnd,
     TypeCommit, TypeSquashInst DEF Next, WakeStep, SquashStep

----------------------------------------------------------------------------
(* What a call of wakeDependents leaves in a chain *)

\* The steps outside the two loops, and the squash of an instruction, touch no
\* chain but that a dispatched instruction may enter.
Quiet ==
    /\ chain' = chain /\ regScoreboard' = regScoreboard /\ pending' = pending
    /\ mode' = mode /\ wk.stage # "chain" /\ wk'.stage # "chain"
    /\ wk'.requeued = FALSE

\* The steps that touch a chain, a scoreboard of the queue or a wake call.
LEMMA QuietSteps ==
  ASSUME IQType, [Next]_vars
  PROVE  \/ Quiet
         \/ UNCHANGED vars
         \/ Insert \/ WakeDeferred \/ WakeFirst \/ WakeSkip \/ WakeMark \/ WakeEnd
         \/ SquashSource
<1>1. ASSUME NEW shape, Rename(shape) PROVE Quiet
  BY <1>1 DEF Rename, Quiet, Running, NoWake
<1>2. ASSUME NEW i, Issue(i) PROVE Quiet
  BY <1>2 DEF Issue, Quiet, Running, NoWake
<1>3. ASSUME NEW i, Writeback(i) PROVE Quiet
  <2>1. /\ chain' = chain /\ regScoreboard' = regScoreboard /\ pending' = pending
        /\ mode' = mode /\ wk = NoWake
        /\ wk' = NoWake \/ wk' = [inst |-> i, stage |-> "deferred", dep |-> NoInst, requeued |-> FALSE]
    BY <1>3 DEF Writeback, Running
  <2> QED
    BY <2>1 DEF Quiet, NoWake
<1>4. CASE Commit
  BY <1>4 DEF Commit, Quiet, Running, NoWake
<1>5. ASSUME NEW k, Squash(k) PROVE Quiet
  BY <1>5 DEF Squash, Quiet, Running, NoWake
<1>6. CASE SquashInst
  <2>1. wk = NoWake
    BY <1>6, SquashEffect
  <2> QED
    BY <1>6, <2>1 DEF SquashInst, Quiet, NoWake
<1>7. ASSUME NEW k, ProcessFault(k) PROVE Quiet
  BY <1>7 DEF ProcessFault, Quiet, Running, NoWake
<1> QED
  BY <1>1, <1>2, <1>3, <1>4, <1>5, <1>6, <1>7 DEF Next, WakeStep, SquashStep

\* A chain is empty when nothing is popped from it.
LEMMA PopNone ==
  ASSUME IQType, NEW p \in Regs, Pop(chain[p]) = NoInst
  PROVE  chain[p] = <<>> /\ Rest(chain[p]) = <<>>
<1>1. chain[p] \in Seq(Renamed) /\ NoInst \notin Renamed
  BY InstFacts DEF IQType
<1> QED
  BY <1>1 DEF Pop, Rest

\* A dispatched instruction enters only the chains of registers that are not
\* ready.
LEMMA InsertChains ==
  ASSUME IQType, NEW i \in Live, InsertInst(i)
  PROVE  /\ regScoreboard' = regScoreboard \ {insts[i].dest}
         /\ \A p \in Regs : /\ Depends(i, p) \in Nat
                            /\ chain'[p] = [m \in 1 .. Depends(i, p) |-> i] \o chain[p]
         /\ \A p \in regScoreboard : Depends(i, p) = 0 /\ chain'[p] = chain[p]
<1>1. i \in Renamed /\ insts[i] \in DynInst /\ DOMAIN insts[i].rdy = DOMAIN insts[i].srcs
  BY InstFacts
<1>2. ASSUME NEW p \in Regs PROVE Depends(i, p) \in Nat
  <2>1. IsFiniteSet(DOMAIN insts[i].srcs)
    BY <1>1, MarkedType
  <2>2. {k \in Unmarked(i) \ BecameReady(i) : insts[i].srcs[k] = p} \subseteq DOMAIN insts[i].srcs
    BY DEF Unmarked
  <2> QED
    BY <2>1, <2>2, FS_Subset, FS_CardinalityType DEF Depends
<1>3. ASSUME NEW p \in Regs PROVE chain'[p] = [m \in 1 .. Depends(i, p) |-> i] \o chain[p]
  BY DEF InsertInst, IQType
<1>4. regScoreboard' = regScoreboard \ {insts[i].dest}
  <2> DEFINE pre == [insts[i] EXCEPT !.st = "iq",
                        !.rdy = [k \in DOMAIN @ |-> @[k] \/ k \in BecameReady(i)]]
  <2>1. regScoreboard' = regScoreboard \ {MarkReady(pre, Cardinality(BecameReady(i))).dest}
    BY DEF InsertInst
  <2>2. MarkReady(pre, Cardinality(BecameReady(i))).dest = insts[i].dest
    BY <1>1 DEF MarkReady, DynInst
  <2> QED
    BY <2>1, <2>2
<1>5. ASSUME NEW p \in regScoreboard PROVE Depends(i, p) = 0 /\ chain'[p] = chain[p]
  <2>1. {k \in Unmarked(i) \ BecameReady(i) : insts[i].srcs[k] = p} = {}
    BY DEF BecameReady
  <2>2. Depends(i, p) = 0
    BY <2>1, FS_EmptySet DEF Depends
  <2>3. p \in Regs /\ chain[p] \in Seq(Renamed)
    BY DEF IQType, Regs
  <2>4. chain'[p] = [m \in 1 .. 0 |-> i] \o chain[p]
    BY <1>3, <2>2, <2>3
  <2>5. [m \in 1 .. 0 |-> i] = <<>>
    OBVIOUS
  <2> QED
    BY <2>2, <2>3, <2>4, <2>5
<1> QED
  BY <1>2, <1>3, <1>4, <1>5

Chains == ShortChains /\ DrainedUnlessRequeued

\* Every step keeps what wakeDependents leaves in a chain.
LEMMA ChainsNext ==
  ASSUME IQType, IQType', Chains, [Next]_vars
  PROVE  Chains'
<1>a. NoReg \notin regScoreboard /\ NoReg \notin regScoreboard'
  BY Numbers DEF IQType
<1>b. chain \in [Regs -> Seq(Renamed)] /\ \A p \in Regs : Len(chain[p]) \in Nat
  BY DEF IQType
<1>c. regScoreboard \subseteq Regs /\ regScoreboard' \subseteq Regs
  BY DEF IQType, Regs
<1>1. CASE Quiet
  <2>1. WakingReg = NoReg /\ WakingReg' = NoReg
    BY <1>1 DEF Quiet, WakingReg
  <2> QED
    BY <1>1, <2>1 DEF Quiet, Chains, ShortChains, DrainedUnlessRequeued
<1>2. CASE UNCHANGED vars
  BY <1>2 DEF vars, Chains, ShortChains, DrainedUnlessRequeued, WakingReg
<1>3. CASE Insert
  <2>1. PICK i \in Live : InsertInst(i)
    BY <1>3, InsertEffect
  <2>2. wk = NoWake /\ wk' = NoWake /\ mode' = mode /\ pending' = pending
    BY <1>3 DEF Insert, InsertInst, Running
  <2>3. WakingReg = NoReg /\ WakingReg' = NoReg
    BY <2>2 DEF WakingReg, NoWake
  <2>4. \A p \in regScoreboard' : p \in regScoreboard /\ chain'[p] = chain[p]
    BY <2>1, InsertChains
  <2> QED
    BY <2>2, <2>3, <2>4 DEF Chains, ShortChains, DrainedUnlessRequeued, NoWake
<1>4. CASE WakeDeferred
  <2>1. /\ pending # <<>> /\ mode' = mode /\ wk' = wk /\ wk.stage = "deferred"
    BY <1>4 DEF WakeDeferred
  <2>2. mode = "wake_phase"
    BY <2>1 DEF Chains, ShortChains
  <2> QED
    BY <2>1, <2>2 DEF Chains, ShortChains, DrainedUnlessRequeued
<1>5. CASE WakeFirst
  <2> DEFINE p == insts[wk.inst].dest
  <2>1. /\ wk.stage = "deferred"
        /\ wk' = [wk EXCEPT !.stage = "chain", !.dep = Pop(chain[p])]
        /\ chain' = [chain EXCEPT ![p] = Rest(chain[p])]
        /\ UNCHANGED <<mode, insts, regScoreboard, pending>>
    BY <1>5 DEF WakeFirst
  <2>2. wk \in Calls /\ p \in Regs
    BY <2>1, WakeCall
  <2>3. /\ wk'.stage = "chain" /\ wk'.dep = Pop(chain[p]) /\ wk'.inst = wk.inst
        /\ wk'.requeued = wk.requeued
    BY <2>1, <2>2 DEF Calls
  <2>4. WakingReg = NoReg /\ WakingReg' = p
    BY <2>1, <2>3 DEF WakingReg
  <2> HIDE DEF p
  <2>5. chain'[p] = Rest(chain[p]) /\ \A q \in Regs : q # p => chain'[q] = chain[q]
    BY <2>1, <2>2, <1>b
  <2>6. wk'.dep = NoInst => chain'[p] = <<>>
    BY <2>2, <2>3, <2>5, PopNone
  <2>7. Len(<<>>) <= 1
    OBVIOUS
  <2> QED
    BY <2>1, <2>3, <2>4, <2>5, <2>6, <2>7, <1>a, <1>c
       DEF Chains, ShortChains, DrainedUnlessRequeued
<1>6. CASE WakeSkip
  <2> DEFINE p == insts[wk.inst].dest
             next == Skip(chain[p], wk.dep)
  <2>1. /\ HookFires /\ wk.dep # NoInst
        /\ wk' = [wk EXCEPT !.dep = next.dep, !.requeued = TRUE]
        /\ chain' = [chain EXCEPT ![p] = next.chain]
        /\ mode # "wake_phase" => pending' = pending
        /\ UNCHANGED <<mode, insts, regScoreboard>>
    BY <1>6 DEF WakeSkip
  <2>2. wk \in Calls /\ p \in Regs /\ wk.stage = "chain" /\ wk.dep \in Renamed
    <3>1. wk \in Calls
      BY <2>1 DEF IQType, NoWake
    <3> QED
      BY <3>1, <2>1, WakeCall DEF Calls
  <2>3. /\ wk'.stage = "chain" /\ wk'.dep = next.dep /\ wk'.inst = wk.inst
        /\ wk'.requeued = TRUE
    BY <2>1, <2>2 DEF Calls
  <2>4. WakingReg = p /\ WakingReg' = p
    BY <2>1, <2>2, <2>3 DEF WakingReg
  <2>5. next.dep = Pop(chain[p]) /\ next.chain = <<wk.dep>> \o Rest(chain[p])
    BY DEF Skip
  <2> HIDE DEF p, next
  <2>6. chain'[p] = next.chain /\ \A q \in Regs : q # p => chain'[q] = chain[q]
    BY <2>1, <2>2, <1>b
  <2>7. wk'.dep = NoInst => Len(chain'[p]) <= 1
    <3> SUFFICES ASSUME wk'.dep = NoInst PROVE Len(chain'[p]) <= 1
      OBVIOUS
    <3>1. Rest(chain[p]) = <<>>
      BY <2>2, <2>3, <2>5, PopNone
    <3>2. chain'[p] = <<wk.dep>> \o <<>>
      BY <3>1, <2>5, <2>6
    <3> QED
      BY <3>2
  <2>8. mode \in {"wake_omit", "wake_phase"}
    BY <2>1 DEF HookFires
  <2> QED
    BY <2>1, <2>3, <2>4, <2>6, <2>7, <2>8, <1>a, <1>c
       DEF Chains, ShortChains, DrainedUnlessRequeued
<1>7. CASE WakeMark
  <2> DEFINE p == insts[wk.inst].dest
  <2>1. /\ wk.dep # NoInst
        /\ insts' = [insts EXCEPT ![wk.dep] = MarkReady(insts[wk.dep], 1)]
        /\ wk' = [wk EXCEPT !.dep = Pop(chain[p])]
        /\ chain' = [chain EXCEPT ![p] = Rest(chain[p])]
        /\ UNCHANGED <<mode, regScoreboard, pending>>
    BY <1>7 DEF WakeMark
  <2>2. wk \in Calls /\ p \in Regs /\ wk.stage = "chain" /\ wk.dep \in Renamed /\ wk.inst \in Renamed
    <3>1. wk \in Calls
      BY <2>1 DEF IQType, NoWake
    <3> QED
      BY <3>1, <2>1, WakeCall DEF Calls
  <2>3. /\ wk'.stage = "chain" /\ wk'.dep = Pop(chain[p]) /\ wk'.inst = wk.inst
        /\ wk'.requeued = wk.requeued
    BY <2>1, <2>2 DEF Calls
  <2>4. WakingReg = p /\ WakingReg' = p
    <3>1. insts'[wk.inst].dest = p
      BY <2>1, <2>2, MarkInst DEF SameNames
    <3> QED
      BY <3>1, <2>2, <2>3 DEF WakingReg
  <2> HIDE DEF p
  <2>5. chain'[p] = Rest(chain[p]) /\ \A q \in Regs : q # p => chain'[q] = chain[q]
    BY <2>1, <2>2, <1>b
  <2>6. wk'.dep = NoInst => chain'[p] = <<>>
    BY <2>2, <2>3, <2>5, PopNone
  <2>7. Len(<<>>) <= 1
    OBVIOUS
  <2> QED
    BY <2>1, <2>3, <2>4, <2>5, <2>6, <2>7, <1>a, <1>c
       DEF Chains, ShortChains, DrainedUnlessRequeued
<1>8. CASE WakeEnd
  <2>1. /\ wk.stage = "chain" /\ wk.dep = NoInst /\ wk' = NoWake
        /\ regScoreboard' = regScoreboard \cup Dest(wk.inst)
        /\ UNCHANGED <<mode, chain, pending>>
    BY <1>8 DEF WakeEnd
  <2>2. WakingReg = insts[wk.inst].dest /\ WakingReg' = NoReg
    BY <2>1 DEF WakingReg, NoWake
  <2>3. \A p \in regScoreboard' : p \in regScoreboard \/ p = WakingReg
    BY <2>1, <2>2 DEF Dest
  <2> QED
    BY <2>1, <2>2, <2>3 DEF Chains, ShortChains, DrainedUnlessRequeued, NoWake
<1>9. CASE SquashSource
  <2> DEFINE i == Youngest(Victims)
             p == insts[i].srcs[sq.src]
  <2>1. /\ Victims # {}
        /\ chain' = chain \/ chain' = [chain EXCEPT ![p] = RemoveFirst(chain[p], i)]
        /\ UNCHANGED <<mode, insts, regScoreboard, pending, wk>>
    BY <1>9 DEF SquashSource, RemoveDep
  <2>2. wk = NoWake
    BY <2>1, VictimFacts
  <2>3. WakingReg = NoReg /\ WakingReg' = NoReg
    BY <2>1, <2>2 DEF WakingReg, NoWake
  <2> HIDE DEF i, p
  <2>4. \A q \in Regs : Len(chain'[q]) <= Len(chain[q]) /\ Len(chain'[q]) \in Nat
    <3>1. \A q \in Regs : Len(chain'[q]) \in Nat
      BY DEF IQType
    <3>2. CASE chain' = chain
      BY <3>1, <3>2
    <3>3. CASE chain' = [chain EXCEPT ![p] = RemoveFirst(chain[p], i)]
      <4>1. \A q \in Regs : q # p => chain'[q] = chain[q]
        BY <3>3, <1>b
      <4>2. p \in Regs => chain'[p] = RemoveFirst(chain[p], i)
                          /\ Len(RemoveFirst(chain[p], i)) <= Len(chain[p])
        BY <3>3, <1>b, CountRemove
      <4> QED
        BY <3>1, <4>1, <4>2, <1>b
    <3> QED
      BY <2>1, <3>2, <3>3
  <2>5. mode # "wake_phase" => \A q \in regScoreboard' \ {NoReg} : Len(chain'[q]) <= 1
    BY <2>1, <2>3, <2>4, <1>b, <1>c DEF Chains, ShortChains
  <2> QED
    BY <2>1, <2>2, <2>3, <2>5 DEF Chains, ShortChains, DrainedUnlessRequeued, NoWake
<1> QED
  BY <1>1, <1>2, <1>3, <1>4, <1>5, <1>6, <1>7, <1>8, <1>9, QuietSteps

----------------------------------------------------------------------------
(* Readiness *)

\* Two writers have two destinations.
LEMMA DistinctDests ==
  ASSUME IQType, Owners, NEW i \in Writers, NEW j \in Writers, insts[i].dest = insts[j].dest
  PROVE  i = j
<1> SUFFICES ASSUME NEW a \in Writers, NEW b \in Writers, a < b, insts[a].dest = insts[b].dest
             PROVE  FALSE
  <2>1. i \in Nat /\ j \in Nat
    BY InstFacts DEF Writers, Renamed
  <2> QED
    BY <2>1
<1>a. /\ \A w \in Writers : w \in Nat /\ insts[w].arch \in ArchRegs
      /\ \A m, n \in Writers : insts[m].prev = insts[n].prev => m = n
      /\ \A w \in Writers : insts[w].prev \notin Mapped
      /\ \A x, y \in ArchRegs : renameMap[x] = renameMap[y] => x = y
  BY InstFacts DEF Writers, Renamed, Owners, DestType, NoDoubleOwner
<1>1. CASE /\ renameMap[insts[a].arch] = insts[a].dest
           /\ \A w \in Writers : a < w => insts[w].arch # insts[a].arch
  <2>1. insts[a].dest \in Mapped
    BY <1>1, <1>a DEF Mapped
  <2>2. renameMap[insts[b].arch] = insts[b].dest
    BY <2>1, <1>a DEF Owners, WritersChained
  <2> QED
    BY <2>2, <1>1, <1>a
<1>2. ASSUME NEW m \in Writers, NextWriter(a, m), insts[m].prev = insts[a].dest
      PROVE  FALSE
  <2>1. insts[a].dest \notin Mapped
    BY <1>2, <1>a
  <2>2. ~(renameMap[insts[b].arch] = insts[b].dest)
    BY <2>1, <1>a DEF Mapped
  <2>3. PICK n \in Writers : NextWriter(b, n) /\ insts[n].prev = insts[b].dest
    BY <2>2 DEF Owners, WritersChained
  <2>4. n = m
    BY <2>3, <1>2, <1>a
  <2> QED
    BY <2>3, <2>4, <1>2 DEF NextWriter
<1> QED
  BY <1>1, <1>2 DEF Owners, WritersChained

\* Outside a squash there are no victims.
LEMMA NoVictims ==
  ASSUME IQType, sq = NoSquash
  PROVE  Victims = {} /\ \A i : From(i) = 1
<1>1. \A i \in Live : i \in Nat /\ i <= MaxSeq
  BY InstFacts DEF SeqNums
<1>2. Victims = {}
  BY <1>1, Numbers DEF Victims, NoSquash
<1> QED
  BY <1>2 DEF From

\* Occurrences are counted by numbers, and an entry of i is one of them.
LEMMA OccursFacts ==
  ASSUME IQType, NEW i, NEW p \in Regs
  PROVE  /\ Occurs(i, p) \in Nat /\ CountIn(chain[p], i) \in Nat
         /\ CountIn(chain[p], i) <= Occurs(i, p)
         /\ Occurs(i, p) = 0 => \A n \in DOMAIN chain[p] : chain[p][n] # i
         /\ wk.dep = i /\ p = WakingReg => Occurs(i, p) > 0
<1>1. chain[p] \in Seq(Renamed)
  BY DEF IQType
<1>2. /\ CountIn(chain[p], i) \in Nat
      /\ CountIn(chain[p], i) = 0 <=> \A n \in DOMAIN chain[p] : chain[p][n] # i
  BY <1>1, CountType
<1>3. Occurs(i, p) = CountIn(chain[p], i) + 1 \/ Occurs(i, p) = CountIn(chain[p], i)
  BY <1>2 DEF Occurs
<1>4. wk.dep = i /\ p = WakingReg => Occurs(i, p) = CountIn(chain[p], i) + 1
  BY DEF Occurs
<1> QED
  BY <1>2, <1>3, <1>4

\* A fact of arithmetic.
LEMMA MinusOne ==
  \A a, b, y \in Nat : a = y + 1 /\ b = a - 1 => y = b
OBVIOUS

\* Occurrences are counted by numbers after a step too.
LEMMA OccursNext ==
  ASSUME IQType', NEW i, NEW p \in Regs
  PROVE  Occurs(i, p)' \in Nat
<1>1. chain'[p] \in Seq(Renamed')
  BY DEF IQType
<1>2. CountIn(chain'[p], i) \in Nat
  BY <1>1, CountType
<1> QED
  BY <1>2 DEF Occurs

\* A source is a register.
LEMMA UnmarkedReg ==
  ASSUME IQType, NEW i \in Live
  PROVE  /\ \A m \in Unmarked(i) : m \in DOMAIN insts[i].srcs
         /\ \A m \in DOMAIN insts[i].srcs :
              /\ m \in Nat /\ m >= 1 /\ m <= Len(insts[i].srcs)
              /\ insts[i].srcs[m] \in PhysRegs
              /\ insts[i].srcs[m] # NoReg /\ insts[i].srcs[m] \in Sources(i)
<1>1. insts[i].srcs \in Seq(PhysRegs)
  BY InstFacts
<1> QED
  BY <1>1, Numbers DEF Unmarked, Sources

\* The sources i waits for are finitely many.
LEMMA WaitsFinite ==
  ASSUME IQType, NEW i \in Live, NEW W \in SUBSET Unmarked(i), NEW p
  PROVE  /\ IsFiniteSet(W) /\ Cardinality(W) \in Nat
         /\ IsFiniteSet({k \in W : insts[i].srcs[k] = p})
         /\ Cardinality({k \in W : insts[i].srcs[k] = p}) \in Nat
         /\ Cardinality({k \in W : insts[i].srcs[k] = p}) = 0
              <=> \A k \in W : insts[i].srcs[k] # p
         /\ \A k \in W : k \in DOMAIN insts[i].srcs /\ insts[i].srcs[k] \in PhysRegs
                         /\ insts[i].srcs[k] \in Sources(i)
<1>0. /\ insts[i] \in DynInst /\ DOMAIN insts[i].rdy = DOMAIN insts[i].srcs
      /\ insts[i].srcs \in Seq(PhysRegs)
  BY InstFacts
<1>1. IsFiniteSet(DOMAIN insts[i].srcs)
  BY <1>0, MarkedType
<1>2. W \subseteq DOMAIN insts[i].srcs
  BY DEF Unmarked
<1>3. IsFiniteSet(W)
  BY <1>1, <1>2, FS_Subset
<1> DEFINE X == {k \in W : insts[i].srcs[k] = p}
<1>4. IsFiniteSet(X)
  BY <1>3, FS_Subset
<1>5. X = {} <=> \A k \in W : insts[i].srcs[k] # p
  OBVIOUS
<1>6. \A k \in W : k \in DOMAIN insts[i].srcs /\ insts[i].srcs[k] \in PhysRegs
                         /\ insts[i].srcs[k] \in Sources(i)
  BY <1>0, <1>2 DEF Sources
<1> HIDE DEF X
<1>7. Cardinality(X) \in Nat /\ (Cardinality(X) = 0 <=> X = {}) /\ Cardinality(W) \in Nat
  BY <1>3, <1>4, FS_CardinalityType, FS_EmptySet
<1> QED
  BY <1>3, <1>4, <1>5, <1>6, <1>7 DEF X

\* An instruction in a chain waits for that register.
LEMMA EntryWaits ==
  ASSUME IQType, NEW i \in Live, NEW W \in SUBSET Unmarked(i), WaitsFor(i, W), NEW p \in Regs
  PROVE  /\ Occurs(i, p) > 0 => /\ insts[i].st = "iq" /\ p \in Sources(i)
                                /\ \E k \in W : insts[i].srcs[k] = p
         /\ Occurs(i, p) = 0 => \A k \in W : insts[i].srcs[k] # p
<1>1. Occurs(i, p) = Cardinality({k \in W : insts[i].srcs[k] = p})
      /\ (W # {} => insts[i].st = "iq")
  BY DEF WaitsFor
<1>2. Occurs(i, p) \in Nat
  BY OccursFacts
<1> DEFINE c == Cardinality({k \in W : insts[i].srcs[k] = p})
<1>3. /\ c = 0 <=> \A k \in W : insts[i].srcs[k] # p
      /\ \A k \in W : insts[i].srcs[k] \in Sources(i)
  BY WaitsFinite
<1>4. Occurs(i, p) = c
  BY <1>1
<1> HIDE DEF c
<1> QED
  BY <1>1, <1>2, <1>3, <1>4

\* What is in a chain, or has just been popped, is live, in the queue, and
\* reads that register.
LEMMA ChainEntry ==
  ASSUME IQType, ChainLive, Waiting, NEW p \in Regs, chain[p] # <<>>
  PROVE  \E i \in Live : /\ insts[i].st = "iq" /\ p \in Sources(i)
                         /\ mode # "wake_omit" => p \notin regScoreboard
<1>1. chain[p] \in Seq(Renamed) /\ 1 \in DOMAIN chain[p]
  BY DEF IQType
<1>2. PICK i \in Live : chain[p][1] = i
  BY <1>1 DEF ChainLive
<1>3. PICK W \in SUBSET Unmarked(i) : WaitsFor(i, W)
  BY DEF Waiting
<1>4. Occurs(i, p) \in Nat /\ Occurs(i, p) # 0
  BY <1>1, <1>2, OccursFacts
<1>5. insts[i].st = "iq" /\ p \in Sources(i) /\ \E k \in W : insts[i].srcs[k] = p
  BY <1>3, <1>4, EntryWaits
<1>6. mode # "wake_omit" => p \notin regScoreboard
  BY <1>3, <1>5 DEF WaitsFor
<1> QED
  BY <1>5, <1>6

\* An instruction that is not in the queue is in no chain.
LEMMA NotWaiting ==
  ASSUME IQType, Waiting, NEW i \in Live, insts[i].st # "iq", NEW p \in Regs
  PROVE  Occurs(i, p) = 0
<1>1. PICK W \in SUBSET Unmarked(i) : WaitsFor(i, W)
  BY DEF Waiting
<1>2. Occurs(i, p) \in Nat
  BY OccursFacts
<1> QED
  BY <1>1, <1>2, EntryWaits

\* An instruction goes on waiting for the same sources.
LEMMA WaitsFrame ==
  ASSUME NEW i, NEW W \in SUBSET Unmarked(i), WaitsFor(i, W),
         insts'[i] = insts[i], mode' = mode,
         \A p \in Regs : Occurs(i, p)' = Occurs(i, p),
         From(i)' = From(i), i \in Victims => i \in Victims',
         mode # "wake_omit" => \A k \in W : insts[i].srcs[k] \notin regScoreboard',
         \A k \in Unmarked(i) :
           insts[i].srcs[k] \notin regScoreboard' \cup {WakingReg'}
             => insts[i].srcs[k] \notin regScoreboard \cup {WakingReg}
  PROVE  W \in SUBSET Unmarked(i)' /\ WaitsFor(i, W)'
<1>1. Unmarked(i)' = Unmarked(i)
  BY DEF Unmarked
<1> QED
  BY <1>1 DEF WaitsFor

\* An instruction that is not in the queue waits for nothing.
LEMMA WaitsNothing ==
  ASSUME NEW i, insts'[i].st # "iq", \A p \in Regs : Occurs(i, p)' = 0
  PROVE  {} \in SUBSET Unmarked(i)' /\ WaitsFor(i, {})'
<1>1. \A p : {k \in {} : insts'[i].srcs[k] = p} = {} /\ Cardinality({}) = 0
  BY FS_EmptySet
<1> QED
  BY <1>1 DEF WaitsFor

Data == WritesPending /\ SourcesProduced /\ MarkedReady /\ SkidCount /\ IssueReady
Base == IQType /\ Owners /\ InOrderDispatch /\ Chains
Sound == Base /\ mode # "wake_phase" /\ panic = "none" /\ ReadySound

\* What a step owes: a failed assertion that DepGraphSound allows, or the same.
SoundAfter == DepGraphSound' /\ IssueReady' /\ (panic' = "none" => ReadySound')

\* The parts of Sound.
LEMMA SoundParts ==
  ASSUME Sound
  PROVE  /\ IQType /\ Owners /\ InOrderDispatch /\ Chains
         /\ mode # "wake_phase" /\ panic = "none"
         /\ Data /\ ReadyOnce /\ ChainLive /\ Waiting
         /\ \A i \in Live : i \in Renamed /\ i \in SeqNums /\ i \in Nat /\ i # NoInst
<1>1. /\ IQType /\ Owners /\ InOrderDispatch /\ Chains
      /\ mode # "wake_phase" /\ panic = "none"
      /\ Data /\ ReadyOnce /\ ChainLive /\ Waiting
  BY DEF Sound, Base, ReadySound, Data
<1>2. \A i \in Live : i \in Renamed /\ i \in SeqNums /\ i \in Nat /\ i # NoInst
  BY <1>1, InstFacts, Numbers DEF SeqNums
<1> QED
  BY <1>1, <1>2

\* A step that does not stop the simulator owes the invariant.
LEMMA SoundGoal ==
  ASSUME panic' = "none", Data', ReadyOnce', ChainLive', Waiting'
  PROVE  SoundAfter
BY DEF SoundAfter, DepGraphSound, ReadySound, Data

\* A step that changes no instruction and no scoreboard keeps the data facts.
LEMMA DataFrame ==
  ASSUME Data, UNCHANGED <<mode, insts, scoreboard, regScoreboard, renameMap>>
  PROVE  Data' /\ Live' = Live
<1>1. Live' = Live /\ Writers' = Writers /\ Mapped' = Mapped
      /\ \A i : Sources(i)' = Sources(i) /\ Marked(i)' = Marked(i)
  BY DEF Live, Writers, Mapped, Sources, Marked
<1>2. \A p, i : Produced(p, i)' <=> Produced(p, i)
  BY <1>1 DEF Produced
<1>3. WritesPending'
  BY <1>1 DEF Data, WritesPending
<1>4. SourcesProduced'
  BY <1>1, <1>2 DEF Data, SourcesProduced
<1>5. MarkedReady' /\ SkidCount' /\ IssueReady'
  BY <1>1 DEF Data, MarkedReady, SkidCount, IssueReady
<1> QED
  BY <1>1, <1>3, <1>4, <1>5 DEF Data

\* Outside the wakeup of a register only the chains matter.
LEMMA OccursQuiet ==
  ASSUME NEW i, NEW p, i # NoInst, wk.dep = NoInst, wk'.dep = NoInst, chain'[p] = chain[p]
  PROVE  Occurs(i, p)' = Occurs(i, p)
BY DEF Occurs

\* A writeback starts a wake call, or drops a squashed instruction.
LEMMA SoundWriteback ==
  ASSUME Sound, NEW i \in SeqNums, Writeback(i)
  PROVE  SoundAfter
<1>0. /\ IQType /\ Data /\ ReadyOnce /\ ChainLive /\ Waiting /\ panic = "none"
      /\ \A j \in Live : j \in Renamed /\ j # NoInst
  BY SoundParts
<1>1. /\ exec' = [exec EXCEPT ![i] = @ - 1] /\ exec[i] > 0 /\ wk = NoWake /\ sq = NoSquash
      /\ insts[i].st = "squashed" => wk' = NoWake
      /\ insts[i].st # "squashed" =>
           wk' = [inst |-> i, stage |-> "deferred", dep |-> NoInst, requeued |-> FALSE]
      /\ UNCHANGED <<mode, insts, renameMap, scoreboard, regScoreboard, chain, readyInsts,
                     sq, panic>>
  BY DEF Writeback, Running, Discarded
<1>2. Data' /\ Live' = Live /\ Renamed' = Renamed
  BY <1>0, <1>1, DataFrame DEF Renamed
<1>3. wk.dep = NoInst /\ wk'.dep = NoInst /\ WakingReg = NoReg /\ WakingReg' = NoReg
  BY <1>1 DEF NoWake, WakingReg
<1>4. ReadyOnce'
  <2>1. /\ exec \in [SeqNums -> Nat] /\ readyInsts \in [SeqNums -> Nat] /\ i \in Renamed
        /\ Renamed \subseteq SeqNums /\ NoInst \notin Renamed
    BY <1>0, <1>1, InstFacts DEF IQType
  <2>2. /\ exec'[i] = exec[i] - 1 /\ exec'[i] \in Nat /\ exec'[i] <= exec[i]
        /\ \A j \in Renamed : j # i => exec'[j] = exec[j]
    BY <1>1, <2>1
  <2>3. insts[i].st \in {"issued", "squashed"} /\ readyInsts[i] + exec[i] <= 1
    BY <1>0, <1>1, <2>1 DEF ReadyOnce
  <2>4. readyInsts[i] + exec'[i] = 0
    BY <1>1, <2>1, <2>2, <2>3
  <2>5. wk'.inst = NoInst \/ (wk'.inst = i /\ insts[i].st = "issued")
    BY <1>1, <2>3 DEF NoWake
  <2>6. \A j \in Renamed :
          /\ readyInsts[j] + exec'[j] <= 1
          /\ exec'[j] > 0 => insts[j].st \in {"issued", "squashed"}
    BY <1>0, <2>1, <2>2, <2>4 DEF ReadyOnce
  <2>7. \A j \in Renamed : wk'.inst = j => insts[j].st = "issued" /\ readyInsts[j] + exec'[j] = 0
    BY <2>1, <2>4, <2>5
  <2> QED
    BY <1>0, <1>1, <1>2, <2>6, <2>7 DEF ReadyOnce
<1>5. ChainLive'
  BY <1>0, <1>1, <1>2, <1>3 DEF ChainLive
<1>6. Waiting'
  <2> SUFFICES ASSUME NEW j \in Live
               PROVE  \E W \in SUBSET Unmarked(j)' : WaitsFor(j, W)'
    BY <1>2 DEF Waiting
  <2>1. PICK W \in SUBSET Unmarked(j) : WaitsFor(j, W)
    BY <1>0 DEF Waiting
  <2>2. \A p \in Regs : Occurs(j, p)' = Occurs(j, p)
    BY <1>0, <1>1, <1>3, OccursQuiet
  <2>3. From(j)' = From(j) /\ Victims' = Victims
    BY <1>1, <1>2 DEF From, Victims
  <2>5. mode # "wake_omit" => \A m \in W : insts[j].srcs[m] \notin regScoreboard'
    BY <1>1, <2>1 DEF WaitsFor
  <2>6. /\ insts'[j] = insts[j] /\ mode' = mode /\ (j \in Victims => j \in Victims')
        /\ \A m \in Unmarked(j) :
             insts[j].srcs[m] \notin regScoreboard' \cup {WakingReg'}
               => insts[j].srcs[m] \notin regScoreboard \cup {WakingReg}
    BY <1>1, <1>3, <2>3
  <2>7. W \in SUBSET Unmarked(j)' /\ WaitsFor(j, W)'
    BY <2>1, <2>2, <2>3, <2>5, <2>6, WaitsFrame
  <2> QED
    BY <2>7
<1> QED
  BY <1>0, <1>1, <1>2, <1>4, <1>5, <1>6, SoundGoal

\* The start of a squash only selects the victims.
LEMMA SoundSquash ==
  ASSUME Sound, IQType', NEW k \in 0 .. Len(insts), Squash(k)
  PROVE  SoundAfter
<1>0. /\ IQType /\ Data /\ ReadyOnce /\ ChainLive /\ Waiting /\ panic = "none"
      /\ \A j \in Live : j \in Renamed /\ j # NoInst
  BY SoundParts
<1>1. /\ wk = NoWake /\ sq = NoSquash /\ sq' = [to |-> k, src |-> 1]
      /\ UNCHANGED <<mode, insts, renameMap, scoreboard, regScoreboard, chain, readyInsts,
                     exec, wk, panic>>
  BY DEF Squash, Running
<1>2. Data' /\ Live' = Live /\ Renamed' = Renamed
  BY <1>0, <1>1, DataFrame DEF Renamed
<1>3. wk.dep = NoInst /\ wk'.dep = NoInst /\ WakingReg = NoReg /\ WakingReg' = NoReg
  BY <1>1 DEF NoWake, WakingReg
<1>4. ReadyOnce' /\ ChainLive'
  BY <1>0, <1>1, <1>2 DEF ReadyOnce, ChainLive
<1>6. Waiting'
  <2> SUFFICES ASSUME NEW j \in Live
               PROVE  \E W \in SUBSET Unmarked(j)' : WaitsFor(j, W)'
    BY <1>2 DEF Waiting
  <2>1. PICK W \in SUBSET Unmarked(j) : WaitsFor(j, W)
    BY <1>0 DEF Waiting
  <2>2. \A p \in Regs : Occurs(j, p)' = Occurs(j, p)
    BY <1>0, <1>1, <1>3, OccursQuiet
  <2>3. From(j) = 1 /\ Victims = {}
    BY <1>0, <1>1, NoVictims
  <2>4. From(j)' = 1
    BY <1>1 DEF From
  <2>5. mode # "wake_omit" => \A m \in W : insts[j].srcs[m] \notin regScoreboard'
    BY <1>1, <2>1 DEF WaitsFor
  <2>6. /\ insts'[j] = insts[j] /\ mode' = mode /\ (j \in Victims => j \in Victims')
        /\ \A m \in Unmarked(j) :
             insts[j].srcs[m] \notin regScoreboard' \cup {WakingReg'}
               => insts[j].srcs[m] \notin regScoreboard \cup {WakingReg}
    BY <1>1, <1>3, <2>3
  <2>7. W \in SUBSET Unmarked(j)' /\ WaitsFor(j, W)'
    BY <2>1, <2>2, <2>3, <2>4, <2>5, <2>6, WaitsFrame
  <2> QED
    BY <2>7
<1> QED
  BY <1>0, <1>1, <1>2, <1>4, <1>6, SoundGoal

\* A stuttering step.
LEMMA SoundStutter ==
  ASSUME Sound, UNCHANGED vars
  PROVE  SoundAfter
<1>0. Data /\ ReadyOnce /\ ChainLive /\ Waiting /\ panic = "none"
  BY SoundParts
<1>1. Data' /\ Live' = Live
  BY <1>0, DataFrame DEF vars
<1>2. ReadyOnce' /\ ChainLive'
  BY <1>0, <1>1 DEF ReadyOnce, ChainLive, vars, Renamed
<1>3. Waiting'
  <2>1. \A j : Unmarked(j)' = Unmarked(j) /\ From(j)' = From(j)
    BY <1>1 DEF vars, Unmarked, From, Victims
  <2>2. Victims' = Victims /\ WakingReg' = WakingReg
    BY <1>1 DEF vars, Victims, WakingReg
  <2>3. \A j, p : Occurs(j, p)' = Occurs(j, p)
    BY <2>2 DEF vars, Occurs
  <2>4. \A j, W : WaitsFor(j, W) => WaitsFor(j, W)'
    BY <2>1, <2>2, <2>3 DEF vars, WaitsFor
  <2> QED
    BY <1>0, <1>1, <2>1, <2>4 DEF Waiting
<1> QED
  BY <1>0, <1>1, <1>2, <1>3, SoundGoal DEF vars

\* The chains change, but nothing enters or leaves what is counted.
LEMMA WaitingSame ==
  ASSUME Sound, UNCHANGED <<mode, insts, regScoreboard, sq>>, WakingReg \in {NoReg, WakingReg'},
         \A j \in Live : \A p \in Regs : Occurs(j, p)' = Occurs(j, p)
  PROVE  Waiting'
<1>0. IQType /\ Waiting
  BY SoundParts
<1>1. Live' = Live
  BY DEF Live
<1> SUFFICES ASSUME NEW j \in Live
             PROVE  \E W \in SUBSET Unmarked(j)' : WaitsFor(j, W)'
  BY <1>1 DEF Waiting
<1>2. PICK W \in SUBSET Unmarked(j) : WaitsFor(j, W)
  BY <1>0 DEF Waiting
<1>3. From(j)' = From(j) /\ Victims' = Victims
  BY <1>1 DEF From, Victims
<1>4. mode # "wake_omit" => \A m \in W : insts[j].srcs[m] \notin regScoreboard'
  BY <1>2 DEF WaitsFor
<1>5. \A m \in Unmarked(j) : insts[j].srcs[m] # NoReg
  BY <1>0, UnmarkedReg
<1>6. /\ insts'[j] = insts[j] /\ mode' = mode /\ (j \in Victims => j \in Victims')
      /\ \A m \in Unmarked(j) :
           insts[j].srcs[m] \notin regScoreboard' \cup {WakingReg'}
             => insts[j].srcs[m] \notin regScoreboard \cup {WakingReg}
  BY <1>3, <1>5
<1>7. W \in SUBSET Unmarked(j)' /\ WaitsFor(j, W)'
  BY <1>2, <1>3, <1>4, <1>6, WaitsFrame
<1> QED
  BY <1>7

\* The popped dependent still counts as waiting for the register.
LEMMA SoundWakeFirst ==
  ASSUME Sound, IQType', WakeFirst
  PROVE  SoundAfter
<1> DEFINE p == insts[wk.inst].dest
<1>0. /\ IQType /\ Data /\ ReadyOnce /\ ChainLive /\ Waiting /\ panic = "none"
      /\ \A j \in Live : j \in Renamed /\ j # NoInst
  BY SoundParts
<1>1. /\ wk.stage = "deferred"
      /\ wk' = [wk EXCEPT !.stage = "chain", !.dep = Pop(chain[p])]
      /\ chain' = [chain EXCEPT ![p] = Rest(chain[p])]
      /\ UNCHANGED <<mode, insts, renameMap, scoreboard, regScoreboard, readyInsts, exec,
                     sq, panic>>
  BY DEF WakeFirst
<1>2. wk \in Calls /\ p \in Regs /\ wk.dep = NoInst
  BY <1>0, <1>1, WakeCall DEF IQType
<1>3. wk'.stage = "chain" /\ wk'.dep = Pop(chain[p]) /\ wk'.inst = wk.inst
  BY <1>1, <1>2 DEF Calls
<1>4. WakingReg = NoReg /\ WakingReg' = p
  BY <1>1, <1>3 DEF WakingReg
<1> HIDE DEF p
<1>5. chain \in [Regs -> Seq(Renamed)]
  BY <1>0 DEF IQType
<1>6. chain'[p] = Rest(chain[p]) /\ \A q \in Regs : q # p => chain'[q] = chain[q]
  BY <1>1, <1>2, <1>5
<1>7. Data' /\ Live' = Live /\ Renamed' = Renamed
  BY <1>0, <1>1, DataFrame DEF Renamed
<1>8. ReadyOnce'
  BY <1>0, <1>1, <1>3, <1>7 DEF ReadyOnce
<1>9. ChainLive'
  <2>1. \A n \in DOMAIN chain'[p] : chain'[p][n] \in Live
    <3>1. CASE chain[p] = <<>>
      BY <3>1, <1>6 DEF Rest
    <3>2. CASE chain[p] # <<>>
      <4>1. \A n \in DOMAIN chain'[p] : n + 1 \in DOMAIN chain[p] /\ chain'[p][n] = chain[p][n + 1]
        BY <3>2, <1>2, <1>5, <1>6 DEF Rest
      <4> QED
        BY <4>1, <1>0, <1>2 DEF ChainLive
    <3> QED
      BY <3>1, <3>2
  <2>2. wk'.dep # NoInst => wk'.dep \in Live
    <3>1. chain[p] # <<>> => 1 \in DOMAIN chain[p] /\ Head(chain[p]) = chain[p][1]
      BY <1>2, <1>5
    <3> QED
      BY <3>1, <1>0, <1>2, <1>3 DEF ChainLive, Pop
  <2> QED
    BY <2>1, <2>2, <1>0, <1>6, <1>7 DEF ChainLive
<1>10. ASSUME NEW j \in Live, NEW q \in Regs PROVE Occurs(j, q)' = Occurs(j, q)
  <2>0. j # NoInst /\ CountIn(chain[q], j) \in Nat
    BY <1>0, OccursFacts
  <2>1. Occurs(j, q) = CountIn(chain[q], j)
    BY <2>0, <1>2 DEF Occurs
  <2>2. Occurs(j, q)' = CountIn(chain'[q], j) + IF Pop(chain[p]) = j /\ q = p THEN 1 ELSE 0
    BY <1>3, <1>4 DEF Occurs
  <2>3. CASE q # p
    BY <2>0, <2>1, <2>2, <2>3, <1>6
  <2>4. CASE q = p /\ chain[p] = <<>>
    BY <2>0, <2>1, <2>2, <2>4, <1>6 DEF Pop, Rest
  <2>5. CASE q = p /\ chain[p] # <<>>
    <3>1. CountIn(chain[p], j) = CountIn(Rest(chain[p]), j) + IF Pop(chain[p]) = j THEN 1 ELSE 0
      BY <2>5, <1>2, <1>5, CountPop
    <3> QED
      BY <3>1, <2>1, <2>2, <2>5, <1>6
  <2> QED
    BY <2>3, <2>4, <2>5
<1>11. Waiting'
  BY <1>1, <1>4, <1>10, WaitingSame
<1> QED
  BY <1>0, <1>1, <1>7, <1>8, <1>9, <1>11, SoundGoal

\* The call that wakes the dependents of p, and the one just popped.
LEMMA WakingFacts ==
  ASSUME Sound, wk.dep # NoInst
  PROVE  /\ wk \in Calls /\ wk.stage = "chain" /\ WakingReg = insts[wk.inst].dest
         /\ WakingReg \in Regs /\ sq = NoSquash /\ wk.inst \in Renamed
         /\ wk.dep \in Live /\ insts[wk.dep].st = "iq" /\ WakingReg \in Sources(wk.dep)
         /\ insts[wk.inst].st = "issued" /\ wk.inst # wk.dep
<1>0. IQType /\ ReadyOnce /\ ChainLive /\ Waiting
  BY SoundParts
<1>1. wk \in Calls /\ wk.dep \in Live
  BY <1>0 DEF IQType, NoWake, ChainLive
<1>2. wk.stage = "chain" /\ wk.inst \in Renamed /\ insts[wk.inst].dest \in Regs /\ sq = NoSquash
  BY <1>0, <1>1, WakeCall DEF Calls
<1>3. WakingReg = insts[wk.inst].dest
  BY <1>2 DEF WakingReg
<1>4. PICK d \in Live : d = wk.dep
  BY <1>1
<1>5. PICK W \in SUBSET Unmarked(d) : WaitsFor(d, W)
  BY <1>0 DEF Waiting
<1>6. PICK p \in Regs : p = WakingReg
  BY <1>2, <1>3
<1>7. Occurs(d, p) > 0
  BY <1>0, <1>4, <1>6, OccursFacts
<1>8. insts[d].st = "iq" /\ p \in Sources(d)
  BY <1>0, <1>5, <1>7, EntryWaits
<1>9. insts[wk.inst].st = "issued"
  BY <1>0, <1>2 DEF ReadyOnce
<1> QED
  BY <1>1, <1>2, <1>3, <1>4, <1>6, <1>8, <1>9

\* A skipped dependent goes back to its chain: it waits as before.
LEMMA SoundWakeSkip ==
  ASSUME Sound, IQType', WakeSkip
  PROVE  SoundAfter
<1> DEFINE p == insts[wk.inst].dest
           next == Skip(chain[p], wk.dep)
<1>0. /\ IQType /\ Data /\ ReadyOnce /\ ChainLive /\ Waiting /\ panic = "none"
      /\ \A j \in Live : j \in Renamed /\ j # NoInst
  BY SoundParts
<1>1. /\ wk.dep # NoInst
      /\ wk' = [wk EXCEPT !.dep = next.dep, !.requeued = TRUE]
      /\ chain' = [chain EXCEPT ![p] = next.chain]
      /\ UNCHANGED <<mode, insts, renameMap, scoreboard, regScoreboard, readyInsts, exec,
                     sq, panic>>
  BY DEF WakeSkip
<1>2. wk \in Calls /\ p \in Regs /\ wk.dep \in Live /\ wk.stage = "chain" /\ WakingReg = p
  BY <1>1, WakingFacts
<1>3. wk'.stage = "chain" /\ wk'.dep = next.dep /\ wk'.inst = wk.inst
  BY <1>1, <1>2 DEF Calls
<1>4. WakingReg' = p
  BY <1>1, <1>3 DEF WakingReg
<1>5. next.dep = Pop(chain[p]) /\ next.chain = <<wk.dep>> \o Rest(chain[p])
  BY DEF Skip
<1> HIDE DEF p, next
<1>6. chain \in [Regs -> Seq(Renamed)] /\ wk.dep \in Renamed
  BY <1>0, <1>2 DEF IQType
<1>7. chain'[p] = <<wk.dep>> \o Rest(chain[p]) /\ \A q \in Regs : q # p => chain'[q] = chain[q]
  BY <1>1, <1>2, <1>5, <1>6
<1>8. Data' /\ Live' = Live /\ Renamed' = Renamed
  BY <1>0, <1>1, DataFrame DEF Renamed
<1>9. ReadyOnce'
  BY <1>0, <1>1, <1>3, <1>8 DEF ReadyOnce
<1>c. chain[p] \in Seq(Renamed) /\ Rest(chain[p]) \in Seq(Renamed)
  BY <1>2, <1>6, PopType
<1>10. ChainLive'
  <2>1. \A n \in DOMAIN Rest(chain[p]) : Rest(chain[p])[n] \in Live
    <3>1. CASE chain[p] = <<>>
      BY <3>1 DEF Rest
    <3>2. CASE chain[p] # <<>>
      <4>1. \A n \in DOMAIN Rest(chain[p]) : n + 1 \in DOMAIN chain[p]
                                             /\ Rest(chain[p])[n] = chain[p][n + 1]
        BY <3>2, <1>c DEF Rest
      <4> QED
        BY <4>1, <1>0, <1>2 DEF ChainLive
    <3> QED
      BY <3>1, <3>2
  <2>2. \A n \in DOMAIN chain'[p] : chain'[p][n] = wk.dep
           \/ (n - 1 \in DOMAIN Rest(chain[p]) /\ chain'[p][n] = Rest(chain[p])[n - 1])
    BY <1>c, <1>7
  <2>3. wk'.dep # NoInst => wk'.dep \in Live
    <3>1. chain[p] # <<>> => 1 \in DOMAIN chain[p] /\ Head(chain[p]) = chain[p][1]
      BY <1>c
    <3> QED
      BY <3>1, <1>0, <1>2, <1>3, <1>5 DEF ChainLive, Pop
  <2> QED
    BY <2>1, <2>2, <2>3, <1>0, <1>2, <1>7, <1>8 DEF ChainLive
<1>11. ASSUME NEW j \in Live, NEW q \in Regs PROVE Occurs(j, q)' = Occurs(j, q)
  <2>0. j # NoInst /\ CountIn(chain[q], j) \in Nat /\ CountIn(Rest(chain[p]), j) \in Nat
    BY <1>0, <1>c, OccursFacts, CountType
  <2>1. Occurs(j, q) = CountIn(chain[q], j) + IF wk.dep = j /\ q = p THEN 1 ELSE 0
    BY <1>2 DEF Occurs
  <2>2. Occurs(j, q)' = CountIn(chain'[q], j) + IF Pop(chain[p]) = j /\ q = p THEN 1 ELSE 0
    BY <1>3, <1>4, <1>5 DEF Occurs
  <2>3. CASE q # p
    BY <2>0, <2>1, <2>2, <2>3, <1>7
  <2>4. CASE q = p
    <3>1. CountIn(chain'[p], j) = CountIn(Rest(chain[p]), j) + IF wk.dep = j THEN 1 ELSE 0
      BY <1>6, <1>7, <1>c, CountPush
    <3>2. CountIn(chain[p], j) = CountIn(Rest(chain[p]), j) + IF Pop(chain[p]) = j THEN 1 ELSE 0
      <4>1. CASE chain[p] = <<>>
        BY <4>1, <2>0 DEF Pop, Rest
      <4>2. CASE chain[p] # <<>>
        BY <4>2, <1>c, CountPop
      <4> QED
        BY <4>1, <4>2
    <3> QED
      BY <3>1, <3>2, <2>0, <2>1, <2>2, <2>4
  <2> QED
    BY <2>3, <2>4
<1>12. Waiting'
  BY <1>1, <1>2, <1>4, <1>11, WaitingSame
<1> QED
  BY <1>0, <1>1, <1>8, <1>9, <1>10, <1>12, SoundGoal

\* A step that changes only the counts of an instruction in the queue.
LEMMA DataNames ==
  ASSUME IQType, Data, UNCHANGED <<mode, scoreboard, regScoreboard, renameMap>>,
         Live' = Live, Len(insts') = Len(insts),
         \A j \in Live : SameNames(j) /\ insts'[j].st = insts[j].st,
         \A j \in Live : insts[j].st = "skid" => insts'[j] = insts[j]
  PROVE  Data'
<1>1. Writers' = Writers /\ Mapped' = Mapped
      /\ \A i \in Live : Sources(i)' = Sources(i) /\ Marked(i)' = Marked(i)
  BY DEF Writers, Mapped, Sources, Marked, SameNames
<1>2. \A p, i : Produced(p, i)' <=> Produced(p, i)
  BY DEF Produced, SameNames
<1>3. WritesPending'
  BY <1>1 DEF Data, WritesPending, Writers, SameNames
<1>4. SourcesProduced'
  <2>1. \A p \in Mapped' : Produced(p, Len(insts) + 1)'
    <3>1. \A p \in Mapped : Produced(p, Len(insts) + 1)
      BY DEF Data, SourcesProduced
    <3> QED
      BY <3>1, <1>1 DEF Produced, SameNames
  <2>2. \A i \in Writers' : insts'[i].prev = insts[i].prev /\ i \in Writers
    BY <1>1 DEF SameNames, Writers
  <2>3. \A i \in Writers' : Produced(insts[i].prev, i)
    BY <2>2 DEF Data, SourcesProduced
  <2>4. \A i \in Writers' : \A p : p = insts'[i].prev => Produced(p, i)'
    BY <1>2, <2>2, <2>3
  <2>5. \A i \in Live' : \A p \in Sources(i)' : Produced(p, i)'
    BY <1>1, <1>2 DEF Data, SourcesProduced
  <2> QED
    BY <2>1, <2>4, <2>5 DEF SourcesProduced, Produced
<1>5. MarkedReady'
  BY <1>1 DEF Data, MarkedReady, SameNames
<1>6. SkidCount'
  BY <1>1 DEF Data, SkidCount
<1>7. IssueReady'
  BY <1>1 DEF Data, IssueReady
<1> QED
  BY <1>3, <1>4, <1>5, <1>6, <1>7 DEF Data

\* A woken dependent has one source less to wait for, and one more counted;
\* it can issue when that was the last.
LEMMA SoundWakeMark ==
  ASSUME Sound, IQType', WakeMark
  PROVE  SoundAfter
<1> DEFINE q == insts[wk.inst].dest
<1>0. /\ IQType /\ Data /\ ReadyOnce /\ ChainLive /\ Waiting /\ panic = "none"
      /\ \A j \in Live : j \in Renamed /\ j \in SeqNums /\ j # NoInst
  BY SoundParts
<1>1. /\ wk.dep # NoInst
      /\ insts' = [insts EXCEPT ![wk.dep] = MarkReady(insts[wk.dep], 1)]
      /\ readyInsts' = [readyInsts EXCEPT ![wk.dep] = @ + addIfReady(MarkReady(insts[wk.dep], 1))]
      /\ wk' = [wk EXCEPT !.dep = Pop(chain[q])]
      /\ chain' = [chain EXCEPT ![q] = Rest(chain[q])]
      /\ UNCHANGED <<mode, renameMap, scoreboard, regScoreboard, exec, sq, panic>>
  BY DEF WakeMark
<1>2. /\ wk \in Calls /\ q \in Regs /\ wk.dep \in Live /\ wk.stage = "chain" /\ WakingReg = q
      /\ wk.inst \in Renamed /\ insts[wk.dep].st = "iq" /\ insts[wk.inst].st = "issued"
      /\ wk.inst # wk.dep /\ sq = NoSquash
  BY <1>1, WakingFacts
<1>3. wk'.stage = "chain" /\ wk'.dep = Pop(chain[q]) /\ wk'.inst = wk.inst
  BY <1>1, <1>2 DEF Calls
<1> HIDE DEF q
<1>d. PICK d \in Live : d = wk.dep
  BY <1>2
<1>p. PICK p \in Regs : p = q
  BY <1>2
<1>4. d \in Renamed /\ insts[d] \in DynInst /\ d \in SeqNums
  BY <1>0, InstFacts
<1>5. /\ insts' \in Seq(DynInst) /\ Len(insts') = Len(insts) /\ Renamed' = Renamed
      /\ \A j \in Renamed : SameNames(j) /\ insts'[j].st = insts[j].st
      /\ \A j \in Renamed : j # d => insts'[j] = insts[j]
      /\ insts'[d] = MarkReady(insts[d], 1)
      /\ Live' = Live
  BY <1>0, <1>1, <1>4, <1>d, MarkInst
<1>6. /\ insts'[d].readyRegs = insts[d].readyRegs + 1 /\ insts[d].readyRegs \in Nat
      /\ insts'[d].canIssue =
              (insts[d].canIssue \/ (/\ insts[d].readyRegs < Len(insts[d].srcs)
                                     /\ Len(insts[d].srcs) <= insts[d].readyRegs + 1))
      /\ insts'[d] \in DynInst
  <2>1. insts[d].readyRegs \in Nat
    BY <1>4 DEF DynInst
  <2>2. 1 \in Nat
    OBVIOUS
  <2>3. /\ MarkReady(insts[d], 1) \in DynInst
        /\ MarkReady(insts[d], 1).readyRegs = insts[d].readyRegs + 1
        /\ MarkReady(insts[d], 1).canIssue =
              (insts[d].canIssue \/ (/\ insts[d].readyRegs < Len(insts[d].srcs)
                                     /\ Len(insts[d].srcs) <= insts[d].readyRegs + 1))
    BY <1>4, <2>2, MarkReadyType, Zenon
  <2> QED
    BY <1>5, <2>1, <2>3, Zenon
<1>7. WakingReg' = p
  <2>1. insts'[wk.inst].dest = q
    BY <1>2, <1>5 DEF SameNames, q
  <2> QED
    BY <2>1, <1>3, <1>p DEF WakingReg
<1>8. chain \in [Regs -> Seq(Renamed)] /\ chain[p] \in Seq(Renamed)
  BY <1>0 DEF IQType
<1>9. chain'[p] = Rest(chain[p]) /\ \A r \in Regs : r # p => chain'[r] = chain[r]
  BY <1>1, <1>8, <1>p
<1>10. Data'
  <2>1. \A j \in Live : insts[j].st = "skid" => insts'[j] = insts[j]
    BY <1>0, <1>2, <1>5, <1>d
  <2> QED
    BY <1>0, <1>1, <1>5, <2>1, DataNames
<1>11. PICK W \in SUBSET Unmarked(d) : WaitsFor(d, W)
  BY <1>0 DEF Waiting
<1>12. Occurs(d, p) > 0 /\ Occurs(d, p) \in Nat
  BY <1>0, <1>2, <1>d, <1>p, OccursFacts
<1>13. PICK k \in W : insts[d].srcs[k] = p
  BY <1>0, <1>11, <1>12, EntryWaits
<1>14. Victims = {} /\ Victims' = {} /\ \A j : From(j) = 1 /\ From(j)' = 1
  <2>1. Victims = {} /\ \A j : From(j) = 1
    BY <1>0, <1>2, NoVictims
  <2>2. Victims' = {}
    BY <2>1, <1>1, <1>5 DEF Victims
  <2>3. \A j : From(j)' = 1
    BY <2>2 DEF From
  <2> QED
    BY <2>1, <2>2, <2>3
<1>15. /\ Cardinality(W) + insts[d].readyRegs = Len(insts[d].srcs) /\ ~insts[d].canIssue
       /\ IsFiniteSet(W) /\ Cardinality(W) \in Nat /\ Len(insts[d].srcs) \in Nat
  <2>1. W # {} /\ d \notin Victims
    BY <1>13, <1>14
  <2>2. Cardinality(W) + insts[d].readyRegs = Len(insts[d].srcs) /\ ~insts[d].canIssue
    BY <1>11, <2>1 DEF WaitsFor
  <2> QED
    BY <2>2, <1>0, <1>4, WaitsFinite, InstFacts
<1>16. /\ Cardinality(W \ {k}) = Cardinality(W) - 1 /\ Cardinality(W) > 0
       /\ W \ {k} = {} <=> Cardinality(W) = 1
  <2>1. IsFiniteSet(W \ {k}) /\ Cardinality(W \ {k}) = Cardinality(W) - 1
    BY <1>13, <1>15, FS_RemoveElement
  <2>2. Cardinality(W \ {k}) \in Nat /\ (Cardinality(W \ {k}) = 0 <=> W \ {k} = {})
    BY <2>1, FS_CardinalityType, FS_EmptySet
  <2> QED
    BY <2>1, <2>2, <1>15
<1>17. insts'[d].canIssue <=> W \ {k} = {}
  <2> DEFINE r == insts[d].readyRegs
             l == Len(insts[d].srcs)
             c == Cardinality(W)
  <2>1. r \in Nat /\ l \in Nat /\ c \in Nat /\ c + r = l /\ c > 0
    BY <1>6, <1>15, <1>16
  <2>2. insts'[d].canIssue <=> (r < l /\ l <= r + 1)
    BY <1>6, <1>15, Zenon
  <2> HIDE DEF r, l, c
  <2>3. (r < l /\ l <= r + 1) <=> c = 1
    BY <2>1
  <2> QED
    BY <2>2, <2>3, <1>16 DEF c
<1>18. ReadyOnce'
  <2>1. /\ readyInsts \in [SeqNums -> Nat] /\ exec \in [SeqNums -> Nat]
        /\ Renamed \subseteq SeqNums
    BY <1>0, InstFacts DEF IQType
  <2>2. /\ readyInsts'[d] = readyInsts[d] + addIfReady(insts'[d])
        /\ \A j \in Renamed : j # d => readyInsts'[j] = readyInsts[j]
    BY <1>1, <1>4, <1>5, <1>d, <2>1
  <2>3. addIfReady(insts'[d]) = IF insts'[d].canIssue THEN 1 ELSE 0
    BY <1>6, addIfReadyType
  <2>4. readyInsts[d] = 0 /\ exec[d] = 0
    <3>1. ~(readyInsts[d] > 0) /\ ~(exec[d] > 0)
      BY <1>0, <1>2, <1>4, <1>15, <1>d DEF ReadyOnce
    <3> QED
      BY <3>1, <2>1, <1>4
  <2>5. readyInsts'[d] + exec[d] <= 1 /\ (readyInsts'[d] > 0 => insts'[d].canIssue)
    BY <2>2, <2>3, <2>4
  <2>6. insts'[d].st = "iq"
    BY <1>2, <1>4, <1>5, <1>d
  <2>7. ASSUME NEW j \in Renamed
        PROVE  /\ readyInsts'[j] + exec[j] <= 1
               /\ readyInsts'[j] > 0 => insts'[j].st \in {"iq", "squashed"} /\ insts'[j].canIssue
               /\ exec[j] > 0 => insts'[j].st \in {"issued", "squashed"}
               /\ wk.inst = j => insts'[j].st = "issued" /\ readyInsts'[j] + exec[j] = 0
    <3>1. CASE j = d
      BY <3>1, <2>4, <2>5, <2>6, <1>2, <1>d
    <3>2. CASE j # d
      BY <3>2, <2>2, <1>0, <1>5 DEF ReadyOnce
    <3> QED
      BY <3>1, <3>2
  <2> QED
    BY <2>7, <1>1, <1>3, <1>5 DEF ReadyOnce
<1>19. ChainLive'
  <2>1. \A n \in DOMAIN chain'[p] : chain'[p][n] \in Live
    <3>1. CASE chain[p] = <<>>
      BY <3>1, <1>9 DEF Rest
    <3>2. CASE chain[p] # <<>>
      <4>1. \A n \in DOMAIN chain'[p] : n + 1 \in DOMAIN chain[p] /\ chain'[p][n] = chain[p][n + 1]
        BY <3>2, <1>8, <1>9 DEF Rest
      <4> QED
        BY <4>1, <1>0 DEF ChainLive
    <3> QED
      BY <3>1, <3>2
  <2>2. wk'.dep # NoInst => wk'.dep \in Live
    <3>1. chain[p] # <<>> => 1 \in DOMAIN chain[p] /\ Head(chain[p]) = chain[p][1]
      BY <1>8
    <3> QED
      BY <3>1, <1>0, <1>3, <1>p DEF ChainLive, Pop
  <2> QED
    BY <2>1, <2>2, <1>0, <1>5, <1>9 DEF ChainLive
<1>20. ASSUME NEW j \in Live, NEW r \in Regs
       PROVE  Occurs(j, r) = Occurs(j, r)' + IF d = j /\ r = p THEN 1 ELSE 0
  <2>0. j # NoInst /\ CountIn(chain[r], j) \in Nat /\ CountIn(Rest(chain[p]), j) \in Nat
    BY <1>0, <1>8, OccursFacts, CountType, PopType
  <2>1. Occurs(j, r) = CountIn(chain[r], j) + IF d = j /\ r = p THEN 1 ELSE 0
    BY <1>2, <1>d, <1>p DEF Occurs
  <2>2. Occurs(j, r)' = CountIn(chain'[r], j) + IF Pop(chain[p]) = j /\ r = p THEN 1 ELSE 0
    BY <1>3, <1>7, <1>p DEF Occurs
  <2>3. CASE r # p
    BY <2>0, <2>1, <2>2, <2>3, <1>9
  <2>4. CASE r = p
    <3>1. CountIn(chain[p], j) = CountIn(Rest(chain[p]), j) + IF Pop(chain[p]) = j THEN 1 ELSE 0
      <4>1. CASE chain[p] = <<>>
        BY <4>1, <2>0, <2>4 DEF Pop, Rest
      <4>2. CASE chain[p] # <<>>
        BY <4>2, <1>8, CountPop
      <4> QED
        BY <4>1, <4>2
    <3> QED
      BY <3>1, <2>0, <2>1, <2>2, <2>4, <1>9
  <2> QED
    BY <2>3, <2>4
<1>21. Waiting'
  <2> SUFFICES ASSUME NEW j \in Live
               PROVE  \E X \in SUBSET Unmarked(j)' : WaitsFor(j, X)'
    BY <1>5 DEF Waiting
  <2>1. CASE j # d
    <3>1. PICK X \in SUBSET Unmarked(j) : WaitsFor(j, X)
      BY <1>0 DEF Waiting
    <3>2. \A r \in Regs : Occurs(j, r)' = Occurs(j, r)
      <4>1. \A r \in Regs : Occurs(j, r)' \in Nat /\ Occurs(j, r) = Occurs(j, r)' + 0
        <5>1. \A r \in Regs : Occurs(j, r)' \in Nat
          BY OccursNext
        <5> QED
          BY <5>1, <2>1, <1>20
      <4> QED
        BY <4>1
    <3>3. mode # "wake_omit" => \A m \in X : insts[j].srcs[m] \notin regScoreboard'
      BY <1>1, <3>1 DEF WaitsFor
    <3>4. /\ insts'[j] = insts[j] /\ mode' = mode /\ (j \in Victims => j \in Victims')
          /\ From(j)' = From(j)
          /\ \A m \in Unmarked(j) :
               insts[j].srcs[m] \notin regScoreboard' \cup {WakingReg'}
                 => insts[j].srcs[m] \notin regScoreboard \cup {WakingReg}
      BY <2>1, <1>0, <1>1, <1>2, <1>5, <1>7, <1>14, <1>p
    <3>5. X \in SUBSET Unmarked(j)' /\ WaitsFor(j, X)'
      BY <3>1, <3>2, <3>3, <3>4, WaitsFrame
    <3> QED
      BY <3>5
  <2>2. CASE j = d
    <3> DEFINE X == W \ {k}
    <3>0. /\ insts'[d].srcs = insts[d].srcs /\ insts'[d].rdy = insts[d].rdy /\ insts'[d].st = "iq"
      BY <1>2, <1>4, <1>5, <1>d DEF SameNames
    <3>1. Unmarked(d)' = Unmarked(d) /\ X \in SUBSET Unmarked(d)
      BY <3>0 DEF Unmarked
    <3>2. ASSUME NEW r \in Regs
          PROVE  Occurs(d, r)' = Cardinality({m \in X : insts'[d].srcs[m] = r})
      <4> DEFINE A == {m \in W : insts[d].srcs[m] = r}
                 B == {m \in X : insts[d].srcs[m] = r}
      <4>1. Occurs(d, r) = Cardinality(A) /\ IsFiniteSet(A) /\ Cardinality(A) \in Nat
        BY <1>0, <1>11, WaitsFinite DEF WaitsFor
      <4>2. Occurs(d, r)' \in Nat /\ Occurs(d, r) = Occurs(d, r)' + IF r = p THEN 1 ELSE 0
        <5>1. Occurs(d, r)' \in Nat
          BY OccursNext
        <5> QED
          BY <5>1, <1>20
      <4>3. CASE r = p
        <5>1. B = A \ {k} /\ k \in A
          BY <4>3, <1>13
        <5> HIDE DEF A, B
        <5>2. Cardinality(B) = Cardinality(A) - 1
          BY <4>1, <5>1, FS_RemoveElement
        <5>3. Occurs(d, r) = Occurs(d, r)' + 1
          BY <4>2, <4>3, Zenon
        <5>4. \A a, b, y \in Nat : a = y + 1 /\ b = a - 1 => y = b
          BY MinusOne
        <5>5. Occurs(d, r)' = Cardinality(B)
          <6>1. Cardinality(B) \in Nat
            BY <4>1, <5>1, FS_Subset, FS_CardinalityType
          <6> QED
            BY <4>1, <4>2, <5>2, <5>3, <5>4, <6>1, Zenon
        <5> QED
          BY <5>5, <3>0 DEF B
      <4>4. CASE r # p
        <5>1. A = B
          BY <4>4, <1>13
        <5> HIDE DEF A, B
        <5>2. Occurs(d, r)' = Cardinality(B)
          <6>1. \A y \in Nat : y + 0 = y
            OBVIOUS
          <6> QED
            BY <4>1, <4>2, <4>4, <5>1, <6>1, Zenon
        <5> QED
          BY <5>2, <3>0 DEF B
      <4> QED
        BY <4>3, <4>4
    <3>3. /\ \A m \in W : m >= 1
          /\ mode # "wake_omit" => \A m \in W : insts[d].srcs[m] \notin regScoreboard
          /\ \A m \in Unmarked(d) :
               insts[d].srcs[m] \notin regScoreboard \cup {p} /\ m >= 1 => m \in W
      BY <1>2, <1>11, <1>14, <1>d, <1>p DEF WaitsFor
    <3>4. \A m \in X : m >= From(d)'
      BY <3>3, <1>14
    <3>5. mode' # "wake_omit" => \A m \in X : insts'[d].srcs[m] \notin regScoreboard'
      BY <3>0, <3>3, <1>1
    <3>6. \A m \in Unmarked(d)' :
            insts'[d].srcs[m] \notin regScoreboard' \cup {WakingReg'} /\ m >= From(d)' => m \in X
      BY <3>0, <3>1, <3>3, <1>1, <1>7, <1>13, <1>14
    <3>7. /\ Cardinality(X) + insts'[d].readyRegs = Len(insts'[d].srcs)
          /\ X # {} => ~insts'[d].canIssue
          /\ X = {} => insts'[d].canIssue
      BY <3>0, <1>6, <1>15, <1>16, <1>17
    <3> HIDE DEF X
    <3>8. WaitsFor(d, X)'
      BY <3>0, <3>2, <3>4, <3>5, <3>6, <3>7 DEF WaitsFor
    <3> QED
      BY <2>2, <3>1, <3>8
  <2> QED
    BY <2>1, <2>2
<1> QED
  BY <1>0, <1>1, <1>10, <1>18, <1>19, <1>21, SoundGoal

\* A register becomes ready when its chain is drained, or only requeued.
LEMMA SoundWakeEnd ==
  ASSUME Sound, IQType', WakeEnd
  PROVE  SoundAfter
<1>0. /\ IQType /\ Owners /\ Chains /\ Data /\ ReadyOnce /\ ChainLive /\ Waiting
      /\ panic = "none" /\ mode # "wake_phase"
      /\ \A j \in Live : j \in Renamed /\ j # NoInst
  BY SoundParts
<1>1. wk.stage = "chain" /\ wk.dep = NoInst
  BY DEF WakeEnd
<1>2. wk \in Calls /\ wk.inst \in Renamed /\ insts[wk.inst].dest \in Regs /\ sq = NoSquash
  BY <1>0, <1>1, WakeCall
<1>i. PICK i \in Renamed : i = wk.inst
  BY <1>2
<1>3. insts[i].st = "issued" /\ readyInsts[i] + exec[i] = 0 /\ i \in Live
  <2>1. insts[i].st = "issued" /\ readyInsts[i] + exec[i] = 0
    BY <1>0, <1>i DEF ReadyOnce
  <2> QED
    BY <2>1 DEF Live, Renamed
<1>p. PICK p \in Regs : p = insts[i].dest
  BY <1>2, <1>i
<1>4. /\ panic' = IF ~wk.requeued /\ chain[p] # <<>> THEN "drain" ELSE panic
      /\ regScoreboard' = regScoreboard \cup ({p} \ {NoReg})
      /\ scoreboard' = scoreboard \cup ({p} \ {NoReg})
      /\ insts' = [insts EXCEPT ![i].st = "done"] /\ wk' = NoWake
      /\ UNCHANGED <<mode, renameMap, chain, readyInsts, exec, sq>>
  BY <1>3, <1>i, <1>p DEF WakeEnd, Dest
<1>5. /\ Len(insts') = Len(insts) /\ Renamed' = Renamed /\ Live' = Live
      /\ \A j \in Renamed : SameNames(j)
      /\ \A j \in Renamed : j # i => insts'[j] = insts[j]
      /\ insts'[i].st = "done" /\ insts'[i].canIssue = insts[i].canIssue
  <2>1. "done" \in States
    BY DEF States
  <2> QED
    BY <1>0, <1>3, <1>4, <2>1, RestateInst
<1>6. WakingReg = p /\ WakingReg' = NoReg
  BY <1>1, <1>4, <1>i, <1>p DEF WakingReg, NoWake
<1>7. ~wk.requeued => chain[p] = <<>>
  BY <1>0, <1>1, <1>6 DEF Chains, DrainedUnlessRequeued
<1>8. panic' = "none"
  BY <1>0, <1>4, <1>7
<1>9. /\ Writers' = Writers /\ Mapped' = Mapped
      /\ \A j \in Live : Sources(j)' = Sources(j) /\ Marked(j)' = Marked(j)
                         /\ insts'[j].dest = insts[j].dest /\ insts'[j].prev = insts[j].prev
      /\ \A j \in Live : j # i => insts'[j] = insts[j]
  BY <1>0, <1>4, <1>5 DEF Writers, Mapped, Sources, Marked, SameNames
<1>10. Data'
  <2>1. WritesPending'
    <3>1. \A j \in Writers : j # i => insts[j].dest # p
      <4>1. p # NoReg => i \in Writers
        BY <1>3, <1>p DEF Writers
      <4> QED
        BY <4>1, <1>0, <1>p, DistinctDests DEF Writers
    <3>2. \A j \in Writers : j \in Live /\ insts[j].dest # NoReg
      BY DEF Writers
    <3>3. scoreboard' \subseteq regScoreboard'
      BY <1>0, <1>4 DEF Data, WritesPending
    <3>4. ASSUME NEW j \in Writers
          PROVE  /\ insts'[j].st = "done" <=> insts'[j].dest \in scoreboard'
                 /\ insts'[j].st \in {"iq", "issued"} => insts'[j].dest \notin regScoreboard'
      <4>1. CASE j = i
        BY <4>1, <3>2, <1>4, <1>5, <1>9, <1>p
      <4>2. CASE j # i
        BY <4>2, <3>1, <3>2, <1>0, <1>4, <1>9 DEF Data, WritesPending
      <4> QED
        BY <4>1, <4>2
    <3> QED
      BY <3>3, <3>4, <1>9 DEF WritesPending
  <2>2. SourcesProduced'
    <3>1. ASSUME NEW x, NEW n, Produced(x, n) PROVE Produced(x, n)'
      BY <3>1, <1>4, <1>5, <1>9 DEF Produced
    <3>2. \A x \in Mapped' : x \in scoreboard' \/ \E j \in Live' : j < Len(insts') + 1 /\ insts'[j].dest = x
      BY <1>0, <1>4, <1>5, <1>9 DEF Data, SourcesProduced, Produced
    <3>3. \A j \in Writers' : insts'[j].prev \in scoreboard' \/ \E m \in Live' : m < j /\ insts'[m].dest = insts'[j].prev
      BY <1>0, <1>4, <1>5, <1>9 DEF Data, SourcesProduced, Produced, Writers
    <3>4. \A j \in Live' : \A x \in Sources(j)' : Produced(x, j)'
      BY <3>1, <1>0, <1>5, <1>9 DEF Data, SourcesProduced
    <3> QED
      BY <3>2, <3>3, <3>4 DEF SourcesProduced, Produced
  <2>3. MarkedReady'
    BY <1>0, <1>4, <1>5, <1>9 DEF Data, MarkedReady, SameNames
  <2>4. SkidCount'
    <3>1. \A j \in Live' : insts'[j].st = "skid" => insts'[j] = insts[j] /\ j \in Live
      BY <1>5, <1>9
    <3> QED
      BY <3>1, <1>0, <1>4, <1>9 DEF Data, SkidCount
  <2>5. IssueReady'
    BY <1>0, <1>3, <1>4, <1>5, <1>9 DEF Data, IssueReady
  <2> QED
    BY <2>1, <2>2, <2>3, <2>4, <2>5 DEF Data
<1>11. ReadyOnce'
  <2>1. NoInst \notin Renamed /\ wk'.inst = NoInst
    BY <1>0, <1>4, InstFacts DEF NoWake
  <2>2. readyInsts \in [SeqNums -> Nat] /\ exec \in [SeqNums -> Nat] /\ i \in SeqNums
    BY <1>0, InstFacts DEF IQType
  <2>3. readyInsts[i] = 0 /\ exec[i] = 0
    BY <2>2, <1>3
  <2>4. \A j \in Renamed :
          /\ readyInsts[j] + exec[j] <= 1
          /\ readyInsts[j] > 0 => insts'[j].st \in {"iq", "squashed"} /\ insts'[j].canIssue
          /\ exec[j] > 0 => insts'[j].st \in {"issued", "squashed"}
    BY <2>3, <1>0, <1>5 DEF ReadyOnce
  <2> QED
    BY <2>1, <2>4, <1>4, <1>5 DEF ReadyOnce
<1>12. ChainLive'
  BY <1>0, <1>4, <1>5 DEF ChainLive, NoWake
<1>13. Waiting'
  <2> SUFFICES ASSUME NEW j \in Live
               PROVE  \E W \in SUBSET Unmarked(j)' : WaitsFor(j, W)'
    BY <1>5 DEF Waiting
  <2>1. \A q \in Regs : Occurs(j, q)' = Occurs(j, q)
    BY <1>0, <1>1, <1>4, OccursQuiet DEF NoWake
  <2>2. CASE j = i
    <3>1. \A q \in Regs : Occurs(j, q)' = 0
      BY <2>1, <2>2, <1>0, <1>3, NotWaiting
    <3>2. {} \in SUBSET Unmarked(j)' /\ WaitsFor(j, {})'
      BY <3>1, <2>2, <1>5, WaitsNothing
    <3> QED
      BY <3>2
  <2>3. CASE j # i
    <3>1. PICK W \in SUBSET Unmarked(j) : WaitsFor(j, W)
      BY <1>0 DEF Waiting
    <3>2. \A m \in Unmarked(j) : insts[j].srcs[m] \in PhysRegs /\ insts[j].srcs[m] # NoReg
      BY <1>0, UnmarkedReg
    <3>3. mode # "wake_omit" => \A m \in W : insts[j].srcs[m] \notin regScoreboard'
      <4> SUFFICES ASSUME mode # "wake_omit", NEW m \in W
                   PROVE  insts[j].srcs[m] \notin regScoreboard'
        OBVIOUS
      <4>1. insts[j].srcs[m] \notin regScoreboard
        BY <3>1 DEF WaitsFor
      <4>2. chain[p] = <<>>
        BY <1>0, <1>7 DEF Chains, DrainedUnlessRequeued
      <4>3. CountIn(chain[p], j) = 0
        <5>1. CountIn(chain[p], j) = Cardinality({n \in DOMAIN <<>> : <<>>[n] = j})
          BY <4>2 DEF CountIn
        <5>2. {n \in DOMAIN <<>> : <<>>[n] = j} = {}
          OBVIOUS
        <5> QED
          BY <5>1, <5>2, FS_EmptySet
      <4>4. Occurs(j, p) = 0
        BY <4>3, <1>0, <1>1 DEF Occurs
      <4>5. insts[j].srcs[m] # p
        BY <4>4, <3>1, <1>0, EntryWaits
      <4> QED
        BY <4>1, <4>5, <1>4
    <3>4. From(j)' = From(j) /\ Victims' = Victims
      BY <1>4, <1>5 DEF From, Victims
    <3>5. /\ insts'[j] = insts[j] /\ mode' = mode /\ (j \in Victims => j \in Victims')
          /\ \A m \in Unmarked(j) :
               insts[j].srcs[m] \notin regScoreboard' \cup {WakingReg'}
                 => insts[j].srcs[m] \notin regScoreboard \cup {WakingReg}
      BY <2>3, <3>2, <3>4, <1>0, <1>4, <1>6, <1>9
    <3>6. W \in SUBSET Unmarked(j)' /\ WaitsFor(j, W)'
      BY <2>1, <3>1, <3>3, <3>4, <3>5, WaitsFrame
    <3> QED
      BY <3>6
  <2> QED
    BY <2>2, <2>3
<1> QED
  BY <1>8, <1>10, <1>11, <1>12, <1>13, SoundGoal

\* The instruction being squashed has one source less to wait for.
LEMMA SquashedWaits ==
  ASSUME NEW y, NEW s \in Nat, NEW W \in SUBSET Unmarked(y), WaitsFor(y, W),
         NEW X \in SUBSET W, s \notin X, \A m \in W : m \in Nat,
         UNCHANGED <<mode, insts, regScoreboard>>, WakingReg' = WakingReg,
         y \in Victims', From(y) = s, From(y)' = s + 1,
         \A r \in Regs : Occurs(y, r)' = Cardinality({m \in X : insts[y].srcs[m] = r}),
         insts[y].st = "iq" =>
           \A m \in Unmarked(y) :
             insts[y].srcs[m] \notin regScoreboard \cup {WakingReg} /\ m >= s + 1 => m \in X
  PROVE  X \in SUBSET Unmarked(y)' /\ WaitsFor(y, X)'
<1>1. Unmarked(y)' = Unmarked(y)
  BY DEF Unmarked
<1>2. \A m \in X : m >= s + 1
  <2>1. \A m \in X : m >= s /\ m # s /\ m \in Nat
    BY DEF WaitsFor
  <2> QED
    BY <2>1
<1>3. X # {} => insts[y].st = "iq"
  BY DEF WaitsFor
<1>4. mode # "wake_omit" => \A m \in X : insts[y].srcs[m] \notin regScoreboard
  BY DEF WaitsFor
<1> QED
  BY <1>1, <1>2, <1>3, <1>4 DEF WaitsFor

\* remove finds one entry for the source it has come to; under wake_omit the
\* chain may hold another instruction, which is the one assertion that fails.
LEMMA SoundSquashSource ==
  ASSUME Sound, IQType', SquashSource
  PROVE  SoundAfter
<1>0. /\ IQType /\ Data /\ ReadyOnce /\ ChainLive /\ Waiting /\ panic = "none"
      /\ \A j \in Live : j \in Renamed /\ j # NoInst
  BY SoundParts
<1>1. Victims # {} /\ AtSource(Youngest(Victims))
  BY DEF SquashSource
<1>2. /\ Youngest(Victims) \in Victims /\ Youngest(Victims) \in Live
      /\ sq \in [to : 0 .. MaxSeq, src : Nat \ {0}] /\ wk = NoWake
  BY <1>0, <1>1, VictimFacts
<1>y. PICK y \in Live : y = Youngest(Victims) /\ y \in Victims
  BY <1>2
<1>s. PICK s \in Nat : s = sq.src /\ s >= 1
  BY <1>2
<1>3. /\ insts[y].st = "iq" /\ s <= Len(insts[y].srcs) /\ s \in DOMAIN insts[y].srcs
      /\ insts[y].srcs[s] \in Regs /\ insts[y].srcs[s] # NoReg
  <2>1. insts[y].st = "iq" /\ s <= Len(insts[y].srcs)
    BY <1>1, <1>y, <1>s DEF AtSource
  <2>2. s \in DOMAIN insts[y].srcs
    <3>1. DOMAIN insts[y].srcs = 1 .. Len(insts[y].srcs) /\ Len(insts[y].srcs) \in Nat
      BY <1>0, InstFacts
    <3> QED
      BY <2>1, <3>1, <1>s
  <2> QED
    BY <2>1, <2>2, <1>0, UnmarkedReg DEF Regs
<1>p. PICK p \in Regs : p = insts[y].srcs[s]
  BY <1>3
<1>4. /\ insts[y].rdy[s] => UNCHANGED <<chain, panic>>
      /\ ~insts[y].rdy[s] => RemoveDep(p, y)
      /\ sq' = [sq EXCEPT !.src = @ + 1]
      /\ UNCHANGED <<mode, insts, renameMap, scoreboard, regScoreboard, readyInsts, exec, wk>>
  BY <1>y, <1>s, <1>p DEF SquashSource
<1>5. Data' /\ Live' = Live /\ Renamed' = Renamed
  BY <1>0, <1>4, DataFrame DEF Renamed
<1>6. ReadyOnce'
  BY <1>0, <1>4, <1>5 DEF ReadyOnce
<1>7. wk.dep = NoInst /\ wk'.dep = NoInst /\ WakingReg = NoReg /\ WakingReg' = NoReg
  BY <1>2, <1>4 DEF NoWake, WakingReg
<1>8. /\ Victims' = Victims
      /\ \A j : From(j) = IF j = y THEN s ELSE 1
      /\ \A j : From(j)' = IF j = y THEN s + 1 ELSE 1
  <2>1. sq'.to = sq.to /\ sq'.src = s + 1
    BY <1>2, <1>4, <1>s
  <2>2. Victims' = Victims
    BY <2>1, <1>5 DEF Victims
  <2> QED
    BY <2>1, <2>2, <1>1, <1>y, <1>s DEF From
<1>9. PICK W \in SUBSET Unmarked(y) : WaitsFor(y, W)
  BY <1>0 DEF Waiting
<1>a. /\ \A m \in W : m >= s /\ m \in Nat
      /\ \A m \in Unmarked(y) :
           insts[y].srcs[m] \notin regScoreboard \cup {NoReg} /\ m >= s => m \in W
      /\ \A m \in Unmarked(y) : m \in Nat
      /\ \A r \in Regs : Occurs(y, r) = Cardinality({m \in W : insts[y].srcs[m] = r})
  <2>1. \A m \in Unmarked(y) : m \in Nat
    BY <1>0, UnmarkedReg
  <2> QED
    BY <2>1, <1>3, <1>7, <1>8, <1>9 DEF WaitsFor
<1>b. chain \in [Regs -> Seq(Renamed)] /\ chain[p] \in Seq(Renamed)
  BY <1>0 DEF IQType
<1>c. \A j \in Live, r \in Regs : Occurs(j, r) = CountIn(chain[r], j)
  <2>1. \A j \in Live, r \in Regs : CountIn(chain[r], j) \in Nat
    BY <1>0, OccursFacts
  <2> QED
    BY <2>1, <1>0, <1>7 DEF Occurs
<1>d. \A j \in Live, r \in Regs : Occurs(j, r)' = CountIn(chain'[r], j)
  <2>1. \A j \in Live, r \in Regs : CountIn(chain'[r], j) \in Nat
    <3>1. \A r \in Regs : chain'[r] \in Seq(Renamed')
      BY DEF IQType
    <3> QED
      BY <3>1, CountType
  <2> QED
    BY <2>1, <1>0, <1>7 DEF Occurs
\* The other instructions, when their entries are as before.
<1>e. ASSUME NEW j \in Live, j # y, \A r \in Regs : Occurs(j, r)' = Occurs(j, r)
      PROVE  \E V \in SUBSET Unmarked(j)' : WaitsFor(j, V)'
  <2>1. PICK V \in SUBSET Unmarked(j) : WaitsFor(j, V)
    BY <1>0 DEF Waiting
  <2>2. mode # "wake_omit" => \A m \in V : insts[j].srcs[m] \notin regScoreboard'
    BY <1>4, <2>1 DEF WaitsFor
  <2>3. /\ insts'[j] = insts[j] /\ mode' = mode /\ (j \in Victims => j \in Victims')
        /\ From(j)' = From(j)
        /\ \A m \in Unmarked(j) :
             insts[j].srcs[m] \notin regScoreboard' \cup {WakingReg'}
               => insts[j].srcs[m] \notin regScoreboard \cup {WakingReg}
    BY <1>4, <1>7, <1>8, <1>e
  <2>4. V \in SUBSET Unmarked(j)' /\ WaitsFor(j, V)'
    BY <1>e, <2>1, <2>2, <2>3, WaitsFrame
  <2> QED
    BY <2>4
\* The squashed instruction, when X is what is left to wait for.
<1>f. ASSUME NEW X \in SUBSET W, s \notin X,
             \A r \in Regs : Occurs(y, r)' = Cardinality({m \in X : insts[y].srcs[m] = r}),
             \A m \in W : insts[y].srcs[m] \notin regScoreboard /\ m >= s + 1 => m \in X
      PROVE  \E V \in SUBSET Unmarked(y)' : WaitsFor(y, V)'
  <2>1. \A m \in Unmarked(y) :
          insts[y].srcs[m] \notin regScoreboard \cup {WakingReg} /\ m >= s + 1 => m \in X
    <3>1. \A m \in Unmarked(y) : m \in Nat /\ (m >= s + 1 => m >= s)
      BY <1>a
    <3> QED
      BY <3>1, <1>a, <1>f, <1>7
  <2>2. /\ y \in Victims' /\ From(y) = s /\ From(y)' = s + 1 /\ WakingReg' = WakingReg
        /\ \A m \in W : m \in Nat
    BY <1>a, <1>7, <1>8, <1>y
  <2>3. X \in SUBSET Unmarked(y)' /\ WaitsFor(y, X)'
    BY <1>4, <1>9, <1>f, <2>1, <2>2, SquashedWaits
  <2> QED
    BY <2>3
<1>10. ASSUME chain' = chain, s \notin W, panic' = "none"
       PROVE  SoundAfter
  <2>1. ChainLive'
    BY <1>10, <1>0, <1>5, <1>7 DEF ChainLive
  <2>2. \A j \in Live, r \in Regs : Occurs(j, r)' = Occurs(j, r)
    BY <1>10, <1>c, <1>d
  <2>3. \E V \in SUBSET Unmarked(y)' : WaitsFor(y, V)'
    BY <1>10, <1>a, <1>f, <2>2
  <2>4. Waiting'
    BY <1>5, <1>e, <2>2, <2>3 DEF Waiting
  <2> QED
    BY <1>10, <1>5, <1>6, <2>1, <2>4, SoundGoal
<1>11. CASE insts[y].rdy[s]
  <2>1. s \notin W
    BY <1>11, <1>9 DEF Unmarked
  <2> QED
    BY <2>1, <1>0, <1>4, <1>10, <1>11
<1>12. CASE ~insts[y].rdy[s]
  <2>0. RemoveDep(p, y) /\ s \in Unmarked(y)
    BY <1>3, <1>4, <1>12 DEF Unmarked
  <2>1. /\ chain'[p] = RemoveFirst(chain[p], y) /\ \A q \in Regs : q # p => chain'[q] = chain[q]
        /\ chain' \in [Regs -> Seq(Renamed)]
        /\ panic' = IF chain[p] = <<>> \/ y \in Range(chain[p]) THEN panic ELSE "remove"
    BY <2>0, <1>0, RemoveType DEF RemoveDep
  <2>2. s \notin W => p \in regScoreboard
    BY <2>0, <1>3, <1>a, <1>p
  <2>3. y \in Range(chain[p]) <=> Occurs(y, p) > 0
    <3>1. y \in Range(chain[p]) <=> ~(\A n \in DOMAIN chain[p] : chain[p][n] # y)
      BY <1>b DEF Range
    <3>2. CountIn(chain[p], y) \in Nat
          /\ (CountIn(chain[p], y) = 0 <=> \A n \in DOMAIN chain[p] : chain[p][n] # y)
      BY <1>b, CountType
    <3>3. Occurs(y, p) = CountIn(chain[p], y)
      BY <1>c
    <3> QED
      BY <3>1, <3>2, <3>3
  <2>4. Occurs(y, p) \in Nat /\ (Occurs(y, p) = 0 => s \notin W)
    BY <1>0, <1>9, <1>p, OccursFacts, EntryWaits
  <2>5. CASE chain[p] = <<>>
    <3>1. y \notin Range(chain[p])
      BY <2>5 DEF Range
    <3>2. RemoveFirst(chain[p], y) = chain[p]
      BY <3>1, <1>b, CountRemove
    <3>3. chain' = chain
      BY <3>2, <2>1, <1>b
    <3>4. s \notin W
      BY <3>1, <2>3, <2>4
    <3> QED
      BY <3>3, <3>4, <2>1, <2>5, <1>0, <1>10
  <2>6. CASE y \in Range(chain[p])
    <3>1. \A j : CountIn(chain[p], j) = CountIn(chain'[p], j) + IF y = j THEN 1 ELSE 0
      BY <2>1, <2>6, <1>b, CountRemove
    <3>2. ASSUME NEW j \in Live, NEW r \in Regs
          PROVE  /\ Occurs(j, r)' \in Nat
                 /\ Occurs(j, r) = Occurs(j, r)' + IF j = y /\ r = p THEN 1 ELSE 0
      <4>1. Occurs(j, r)' \in Nat
        BY OccursNext
      <4>2. CASE r = p
        <5>1. Occurs(j, r) = CountIn(chain[p], j) /\ Occurs(j, r)' = CountIn(chain'[p], j)
          BY <1>c, <1>d, <4>2
        <5>2. CountIn(chain[p], j) = CountIn(chain'[p], j) + IF y = j THEN 1 ELSE 0
          BY <3>1
        <5> QED
          BY <4>1, <4>2, <5>1, <5>2
      <4>3. CASE r # p
        <5>1. Occurs(j, r) = Occurs(j, r)'
          BY <1>c, <1>d, <2>1, <4>3
        <5> QED
          BY <4>1, <4>3, <5>1
      <4> QED
        BY <4>2, <4>3
    <3>3. ChainLive'
      <4>1. \A n \in DOMAIN chain'[p] : \E m \in DOMAIN chain[p] : chain'[p][n] = chain[p][m]
        BY <2>1, <1>b, CountRemove
      <4> QED
        BY <4>1, <2>1, <1>0, <1>5, <1>7 DEF ChainLive
    <3>4. \A j \in Live, r \in Regs : j # y => Occurs(j, r)' = Occurs(j, r)
      <4>1. \A z \in Nat : z + 0 = z
        OBVIOUS
      <4> QED
        BY <3>2, <4>1
    <3>5. PICK k \in W : insts[y].srcs[k] = p /\ (s \in W => k = s)
      <4>1. \E k \in W : insts[y].srcs[k] = p
        BY <2>3, <2>6, <1>0, <1>9, EntryWaits
      <4> QED
        BY <4>1, <1>p
    <3> DEFINE X == W \ {k}
    <3>6. s \notin X /\ X \in SUBSET W
      BY <3>5
    <3>7. \A m \in W : insts[y].srcs[m] \notin regScoreboard /\ m >= s + 1 => m \in X
      <4>1. ~(s >= s + 1)
        OBVIOUS
      <4> QED
        BY <3>5, <2>2, <4>1
    <3>8. ASSUME NEW r \in Regs
          PROVE  Occurs(y, r)' = Cardinality({m \in X : insts[y].srcs[m] = r})
      <4> DEFINE A == {m \in W : insts[y].srcs[m] = r}
                 B == {m \in X : insts[y].srcs[m] = r}
      <4>1. Occurs(y, r) = Cardinality(A) /\ IsFiniteSet(A) /\ Cardinality(A) \in Nat
        BY <1>0, <1>a, WaitsFinite
      <4>2. CASE r = p
        <5>1. B = A \ {k} /\ k \in A
          BY <4>2, <3>5
        <5> HIDE DEF A, B
        <5>2. Cardinality(B) = Cardinality(A) - 1 /\ Cardinality(B) \in Nat
          BY <4>1, <5>1, FS_RemoveElement, FS_CardinalityType
        <5>3. Occurs(y, r) = Occurs(y, r)' + 1 /\ Occurs(y, r)' \in Nat
          BY <3>2, <4>2
        <5>4. Occurs(y, r)' = Cardinality(B)
          BY <4>1, <5>2, <5>3, MinusOne, Zenon
        <5> QED
          BY <5>4 DEF B
      <4>3. CASE r # p
        <5>1. A = B
          BY <4>3, <3>5
        <5> HIDE DEF A, B
        <5>2. Occurs(y, r) = Occurs(y, r)'
          <6>1. \A z \in Nat : z + 0 = z
            OBVIOUS
          <6> QED
            BY <6>1, <3>2, <4>3
        <5> QED
          BY <4>1, <5>1, <5>2 DEF B
      <4> QED
        BY <4>2, <4>3
    <3> HIDE DEF X
    <3>9. \E V \in SUBSET Unmarked(y)' : WaitsFor(y, V)'
      BY <3>6, <3>7, <3>8, <1>f
    <3>10. Waiting'
      BY <3>4, <3>9, <1>5, <1>e DEF Waiting
    <3>11. panic' = "none"
      BY <2>1, <2>6, <1>0
    <3> QED
      BY <3>3, <3>10, <3>11, <1>5, <1>6, SoundGoal
  <2>7. CASE chain[p] # <<>> /\ y \notin Range(chain[p])
    <3>1. mode # "wake_omit" => p \notin regScoreboard
      BY <2>7, <1>0, ChainEntry
    <3>2. p \in regScoreboard
      BY <2>2, <2>3, <2>4, <2>7
    <3>3. mode' = "wake_omit" /\ panic' = "remove"
      BY <3>1, <3>2, <2>1, <2>7, <1>4
    <3> QED
      BY <3>3, <1>5 DEF SoundAfter, DepGraphSound, Data
  <2> QED
    BY <2>5, <2>6, <2>7
<1> QED
  BY <1>11, <1>12

\* What is mapped after a squash was mapped before, or has been restored.
LEMMA SquashMapped ==
  ASSUME IQType, Owners, NEW y \in Live, \A j \in Live : j <= y,
         renameMap' = [a \in ArchRegs |->
                         IF a = insts[y].arch THEN insts[y].prev ELSE renameMap[a]]
  PROVE  \A p \in Mapped' : \/ y \in Writers /\ p = insts[y].prev
                            \/ p \in Mapped /\ p # insts[y].dest
<1>1. renameMap \in [ArchRegs -> PhysRegs]
  BY TypeUses
<1>2. CASE insts[y].dest = NoReg
  <2>1. insts[y].arch \notin ArchRegs
    BY <1>2, Numbers DEF Owners, DestType
  <2>2. \A a \in ArchRegs : renameMap'[a] = renameMap[a] /\ renameMap[a] # NoReg
    BY <1>1, <2>1, Numbers
  <2> QED
    BY <1>2, <2>2 DEF Mapped
<1>3. CASE insts[y].dest # NoReg
  <2>1. y \in Writers /\ insts[y].arch \in ArchRegs
    BY <1>3 DEF Owners, DestType, Writers
  <2>2. \A j \in Writers : ~(y < j)
    BY InstFacts DEF Writers, Renamed
  <2>3. renameMap[insts[y].arch] = insts[y].dest
    BY <2>1, <2>2 DEF Owners, WritersChained, NextWriter
  <2>4. \A a, b \in ArchRegs : renameMap[a] = renameMap[b] => a = b
    BY DEF Owners, NoDoubleOwner
  <2> QED
    BY <2>1, <2>3, <2>4 DEF Mapped
<1> QED
  BY <1>2, <1>3

\* An instruction leaves the reorder buffer and no chain had it.
LEMMA LeaveRob ==
  ASSUME Sound, NEW y \in Live, Live' = Live \ {y}, Renamed' = Renamed,
         \A j \in Renamed : j # y => insts'[j] = insts[j],
         UNCHANGED <<mode, scoreboard, regScoreboard, chain, readyInsts, exec, wk>>,
         \A p \in Regs : Occurs(y, p) = 0, wk = NoWake
  PROVE  /\ \A j \in Live' : insts'[j] = insts[j] /\ j \in Live /\ j # y
         /\ \A j \in Live' : Sources(j)' = Sources(j) /\ Marked(j)' = Marked(j)
         /\ Writers' = Writers \ {y}
         /\ WritesPending' /\ MarkedReady' /\ SkidCount' /\ IssueReady' /\ ChainLive'
<1>0. IQType /\ Data /\ ChainLive /\ \A j \in Live : j \in Renamed
  BY SoundParts
<1>1. \A j \in Live' : insts'[j] = insts[j] /\ j \in Live /\ j # y
  BY <1>0
<1>2. \A j \in Live' : Sources(j)' = Sources(j) /\ Marked(j)' = Marked(j)
  BY <1>1 DEF Sources, Marked
<1>3. Writers' = Writers \ {y}
  BY <1>1 DEF Writers
<1>4. WritesPending'
  BY <1>0, <1>1, <1>3 DEF Data, WritesPending, Writers
<1>5. MarkedReady'
  BY <1>0, <1>1, <1>2 DEF Data, MarkedReady
<1>6. SkidCount'
  BY <1>0, <1>1, <1>2 DEF Data, SkidCount
<1>7. IssueReady'
  BY <1>0, <1>1, <1>2 DEF Data, IssueReady
<1>8. ChainLive'
  <2>1. \A p \in Regs : \A n \in DOMAIN chain[p] : chain[p][n] # y
    BY <1>0, OccursFacts
  <2> QED
    BY <2>1, <1>0 DEF ChainLive, NoWake
<1> QED
  BY <1>1, <1>2, <1>3, <1>4, <1>5, <1>6, <1>7, <1>8

\* No chain holds an instruction that leaves the queue, and the chain of its
\* destination is empty since its readers were squashed before it.
LEMMA SoundSquashInst ==
  ASSUME Sound, IQType', SquashInst
  PROVE  SoundAfter
<1>0. /\ IQType /\ Owners /\ Data /\ ReadyOnce /\ ChainLive /\ Waiting /\ panic = "none"
      /\ \A j \in Live : j \in Renamed /\ j \in Nat /\ j # NoInst
  BY SoundParts
<1>1. PICK y \in Victims :
           /\ y = Youngest(Victims) /\ ~AtSource(y)
           /\ \A j \in Live : j <= y
           /\ Len(insts') = Len(insts) /\ Renamed' = Renamed
           /\ \A j \in Renamed : j # y => insts'[j] = insts[j]
           /\ insts'[y].st = "squashed" /\ insts'[y].canIssue
           /\ Live' = Live \ {y}
           /\ panic' = IF insts[y].st # "skid" /\ chain[insts[y].dest] # <<>>
                         THEN "dest" ELSE panic
           /\ renameMap' = [a \in ArchRegs |->
                              IF a = insts[y].arch THEN insts[y].prev ELSE renameMap[a]]
           /\ sq' = IF Victims = {y} THEN NoSquash ELSE [sq EXCEPT !.src = 1]
           /\ sq \in [to : 0 .. MaxSeq, src : Nat \ {0}] /\ wk = NoWake
  BY <1>0, SquashEffect
<1>2. UNCHANGED <<mode, scoreboard, regScoreboard, chain, readyInsts, exec, wk>>
  BY DEF SquashInst
<1>y. y \in Live /\ y \in Renamed /\ insts[y].dest \in Regs
  BY <1>0, <1>1, InstFacts DEF Victims
<1>3. panic' = "none"
  <2>1. ASSUME chain[insts[y].dest] # <<>> PROVE FALSE
    <3>1. PICK j \in Live : insts[y].dest \in Sources(j)
      BY <2>1, <1>0, <1>y, ChainEntry
    <3> QED
      BY <3>1, <1>0, <1>1, <1>y DEF Owners, SourcesOwned
  <2> QED
    BY <2>1, <1>0, <1>1
<1>4. wk.dep = NoInst /\ wk'.dep = NoInst /\ WakingReg = NoReg /\ WakingReg' = NoReg
  BY <1>1, <1>2 DEF NoWake, WakingReg
<1>5. \A p \in Regs : Occurs(y, p) = 0
  <2>1. CASE insts[y].st # "iq"
    BY <2>1, <1>0, <1>y, NotWaiting
  <2>2. CASE insts[y].st = "iq"
    <3>1. PICK W \in SUBSET Unmarked(y) : WaitsFor(y, W)
      BY <1>0, <1>y DEF Waiting
    <3>2. From(y) = sq.src
      BY <1>1 DEF From
    <3>3. ~(sq.src <= Len(insts[y].srcs)) /\ sq.src \in Nat
      BY <2>2, <1>1 DEF AtSource
    <3>4. \A m \in W : m >= sq.src /\ m \in Nat /\ m <= Len(insts[y].srcs)
      BY <3>1, <3>2, <1>0, <1>y, UnmarkedReg DEF WaitsFor
    <3>5. W = {}
      <4>1. Len(insts[y].srcs) \in Nat
        BY <1>0, <1>y, InstFacts
      <4> QED
        BY <4>1, <3>3, <3>4
    <3>6. \A p \in Regs : Occurs(y, p) \in Nat
      BY <1>0, OccursFacts
    <3> QED
      BY <3>1, <3>5, <3>6, <1>0, <1>y, EntryWaits
  <2> QED
    BY <2>1, <2>2
<1>6. /\ \A j \in Live' : insts'[j] = insts[j] /\ j \in Live /\ j # y
      /\ \A j \in Live' : Sources(j)' = Sources(j) /\ Marked(j)' = Marked(j)
      /\ Writers' = Writers \ {y}
      /\ WritesPending' /\ MarkedReady' /\ SkidCount' /\ IssueReady' /\ ChainLive'
  BY <1>1, <1>2, <1>5, <1>y, LeaveRob
<1>7. SourcesProduced'
  <2>0. \A j \in Live' : j < y
    BY <1>0, <1>1, <1>6, <1>y
  <2>1. ASSUME NEW x, NEW n \in Nat, n <= y, Produced(x, n) PROVE Produced(x, n)'
    <3>1. \A j \in Live : j < n => j \in Live' /\ insts'[j] = insts[j]
      BY <2>1, <1>0, <1>1, <1>6, <1>y
    <3> QED
      BY <3>1, <2>1, <1>2 DEF Produced
  <2>2. \A p \in Mapped' : p \in scoreboard' \/ \E j \in Live' : j < Len(insts') + 1 /\ insts'[j].dest = p
    <3> SUFFICES ASSUME NEW p \in Mapped', p \notin scoreboard'
                 PROVE  \E j \in Live' : j < Len(insts') + 1 /\ insts'[j].dest = p
      OBVIOUS
    <3>0. \A j \in Live : j < Len(insts') + 1
      BY <1>0, <1>1, InstFacts DEF Renamed
    <3>1. CASE y \in Writers /\ p = insts[y].prev
      <4>1. PICK j \in Live : j < y /\ insts[j].dest = p
        BY <3>1, <1>0, <1>2 DEF Data, SourcesProduced, Produced
      <4>2. j \in Live'
        BY <4>1, <1>0, <1>1, <1>y
      <4> QED
        BY <4>1, <4>2, <3>0, <1>6
    <3>2. CASE p \in Mapped /\ p # insts[y].dest
      <4>1. PICK j \in Live : insts[j].dest = p
        BY <3>2, <1>0, <1>2 DEF Data, SourcesProduced, Produced
      <4>2. j \in Live'
        BY <3>2, <4>1, <1>1
      <4> QED
        BY <4>1, <4>2, <3>0, <1>6
    <3> QED
      BY <3>1, <3>2, <1>0, <1>1, <1>y, SquashMapped
  <2>3. \A j \in Writers' : \A p : p = insts'[j].prev => Produced(p, j)'
    <3>1. \A j \in Writers' : j \in Writers /\ j < y /\ j \in Nat /\ insts'[j].prev = insts[j].prev
      BY <2>0, <1>0, <1>6 DEF Writers
    <3> QED
      BY <3>1, <2>1, <1>0, <1>y DEF Data, SourcesProduced
  <2>4. \A j \in Live' : \A p \in Sources(j)' : Produced(p, j)'
    <3>1. \A j \in Live' : j \in Live /\ j < y /\ j \in Nat
      BY <2>0, <1>0, <1>6
    <3> QED
      BY <3>1, <2>1, <1>0, <1>6, <1>y DEF Data, SourcesProduced
  <2> QED
    BY <2>2, <2>3, <2>4 DEF SourcesProduced, Produced
<1>8. ReadyOnce'
  <2>1. NoInst \notin Renamed /\ wk'.inst = NoInst
    BY <1>0, <1>1, <1>2, InstFacts DEF NoWake
  <2>2. \A j \in Renamed :
          /\ readyInsts[j] + exec[j] <= 1
          /\ readyInsts[j] > 0 => insts'[j].st \in {"iq", "squashed"} /\ insts'[j].canIssue
          /\ exec[j] > 0 => insts'[j].st \in {"issued", "squashed"}
    BY <1>0, <1>1 DEF ReadyOnce
  <2> QED
    BY <2>1, <2>2, <1>1, <1>2 DEF ReadyOnce
<1>9. /\ \A j : From(j)' = 1
      /\ \A j \in Live' : From(j) = 1 /\ (j \in Victims => j \in Victims')
  <2>1. CASE Victims = {y}
    <3>1. sq' = NoSquash
      BY <2>1, <1>1
    <3>2. Victims' = {}
      <4>1. \A j \in Live' : j \in Nat /\ j <= MaxSeq
        BY <1>0, <1>6, InstFacts DEF SeqNums
      <4> QED
        BY <3>1, <4>1, Numbers DEF Victims, NoSquash
    <3> QED
      BY <2>1, <3>2, <1>1, <1>6 DEF From
  <2>2. CASE Victims # {y}
    <3>1. sq' = [sq EXCEPT !.src = 1]
      BY <2>2, <1>1
    <3>2. sq'.src = 1 /\ sq'.to = sq.to
      BY <3>1, <1>1
    <3>3. \A j \in Live' : j \in Victims => j \in Victims'
      BY <3>2 DEF Victims
    <3>4. \A j : From(j)' = 1
      BY <3>2 DEF From
    <3> QED
      BY <3>3, <3>4, <1>1, <1>6 DEF From
  <2> QED
    BY <2>1, <2>2
<1>10. Waiting'
  <2> SUFFICES ASSUME NEW j \in Live'
               PROVE  \E W \in SUBSET Unmarked(j)' : WaitsFor(j, W)'
    BY DEF Waiting
  <2>0. j \in Live /\ insts'[j] = insts[j]
    BY <1>6
  <2>1. PICK W \in SUBSET Unmarked(j) : WaitsFor(j, W)
    BY <1>0, <2>0 DEF Waiting
  <2>2. \A q \in Regs : Occurs(j, q)' = Occurs(j, q)
    BY <1>0, <1>2, <1>4, <2>0, OccursQuiet
  <2>3. mode # "wake_omit" => \A m \in W : insts[j].srcs[m] \notin regScoreboard'
    BY <1>2, <2>1 DEF WaitsFor
  <2>4. /\ mode' = mode /\ (j \in Victims => j \in Victims') /\ From(j)' = From(j)
        /\ \A m \in Unmarked(j) :
             insts[j].srcs[m] \notin regScoreboard' \cup {WakingReg'}
               => insts[j].srcs[m] \notin regScoreboard \cup {WakingReg}
    BY <1>2, <1>4, <1>9
  <2>5. W \in SUBSET Unmarked(j)' /\ WaitsFor(j, W)'
    BY <2>0, <2>1, <2>2, <2>3, <2>4, WaitsFrame
  <2> QED
    BY <2>5
<1>11. Data'
  BY <1>6, <1>7 DEF Data
<1> QED
  BY <1>3, <1>6, <1>8, <1>10, <1>11, SoundGoal

\* An instruction that commits waits for nothing, and its register is written.
LEMMA SoundCommit ==
  ASSUME Sound, IQType', Commit
  PROVE  SoundAfter
<1>0. /\ IQType /\ Owners /\ Data /\ ReadyOnce /\ ChainLive /\ Waiting /\ panic = "none"
      /\ \A j \in Live : j \in Renamed /\ j \in Nat /\ j # NoInst
  BY SoundParts
<1>1. PICK i \in Live :
           /\ \A j \in Live : i <= j
           /\ insts[i].st = "done"
           /\ Len(insts') = Len(insts) /\ Renamed' = Renamed
           /\ \A j \in Renamed : j # i => insts'[j] = insts[j]
           /\ Live' = Live \ {i}
  BY <1>0, CommitEffect
<1>2. /\ UNCHANGED <<mode, renameMap, scoreboard, regScoreboard, chain, readyInsts, exec, wk, sq, panic>>
      /\ wk = NoWake /\ sq = NoSquash
  BY DEF Commit, Running
<1>4. wk.dep = NoInst /\ wk'.dep = NoInst /\ WakingReg = NoReg /\ WakingReg' = NoReg
  BY <1>2 DEF NoWake, WakingReg
<1>5. \A p \in Regs : Occurs(i, p) = 0
  BY <1>0, <1>1, NotWaiting
<1>6. /\ \A j \in Live' : insts'[j] = insts[j] /\ j \in Live /\ j # i
      /\ \A j \in Live' : Sources(j)' = Sources(j) /\ Marked(j)' = Marked(j)
      /\ Writers' = Writers \ {i}
      /\ WritesPending' /\ MarkedReady' /\ SkidCount' /\ IssueReady' /\ ChainLive'
  BY <1>1, <1>2, <1>5, LeaveRob
<1>7. SourcesProduced'
  <2>1. ASSUME NEW x \in PhysRegs, NEW n, Produced(x, n) PROVE Produced(x, n)'
    <3>1. x = insts[i].dest => x \in scoreboard
      BY <1>0, <1>1, Numbers DEF Data, WritesPending, Writers
    <3> QED
      BY <3>1, <2>1, <1>1, <1>2, <1>6 DEF Produced
  <2>2. Mapped' = Mapped /\ \A p \in Mapped : p \in PhysRegs
    BY <1>0, <1>2, TypeUses DEF Mapped
  <2>3. \A p \in Mapped' : Produced(p, Len(insts) + 1)
    BY <2>2, <1>0 DEF Data, SourcesProduced
  <2>4. \A p \in Mapped' : p \in scoreboard' \/ \E j \in Live' : j < Len(insts') + 1 /\ insts'[j].dest = p
    <3> SUFFICES ASSUME NEW p \in Mapped', p \notin scoreboard'
                 PROVE  \E j \in Live' : j < Len(insts') + 1 /\ insts'[j].dest = p
      OBVIOUS
    <3>1. PICK j \in Live : j < Len(insts) + 1 /\ insts[j].dest = p
      BY <2>3, <1>2 DEF Produced
    <3>2. j # i
      BY <3>1, <2>2, <1>0, <1>1, <1>2, Numbers DEF Data, WritesPending, Writers
    <3> QED
      BY <3>1, <3>2, <1>1, <1>6
  <2>5. \A j \in Writers' : \A p : p = insts'[j].prev => Produced(p, j)'
    <3>1. \A j \in Writers' : j \in Writers /\ insts'[j].prev = insts[j].prev /\ insts[j].prev \in PhysRegs
      BY <1>0, <1>6 DEF Writers, Owners, DestType
    <3> QED
      BY <3>1, <2>1, <1>0 DEF Data, SourcesProduced
  <2>6. \A j \in Live' : \A p \in Sources(j)' : Produced(p, j)'
    <3>1. \A j \in Live' : \A p \in Sources(j) : p \in PhysRegs
      BY <1>0, <1>6, UnmarkedReg DEF Sources
    <3> QED
      BY <3>1, <2>1, <1>0, <1>6 DEF Data, SourcesProduced
  <2> QED
    BY <2>4, <2>5, <2>6 DEF SourcesProduced, Produced
<1>8. ReadyOnce'
  <2>1. NoInst \notin Renamed /\ wk'.inst = NoInst
    BY <1>0, <1>2, InstFacts DEF NoWake
  <2>2. \A j \in Renamed :
          /\ readyInsts[j] + exec[j] <= 1
          /\ readyInsts[j] > 0 => insts'[j].st \in {"iq", "squashed"} /\ insts'[j].canIssue
          /\ exec[j] > 0 => insts'[j].st \in {"issued", "squashed"}
    BY <1>0, <1>1 DEF ReadyOnce
  <2> QED
    BY <2>1, <2>2, <1>1, <1>2 DEF ReadyOnce
<1>9. Victims = {} /\ \A j : From(j) = 1 /\ From(j)' = 1
  <2>1. Victims = {} /\ \A j : From(j) = 1
    BY <1>0, <1>2, NoVictims
  <2>2. Victims' = {}
    BY <2>1, <1>1, <1>2 DEF Victims
  <2> QED
    BY <2>1, <2>2 DEF From
<1>10. Waiting'
  <2> SUFFICES ASSUME NEW j \in Live'
               PROVE  \E W \in SUBSET Unmarked(j)' : WaitsFor(j, W)'
    BY DEF Waiting
  <2>0. j \in Live /\ insts'[j] = insts[j]
    BY <1>6
  <2>1. PICK W \in SUBSET Unmarked(j) : WaitsFor(j, W)
    BY <1>0, <2>0 DEF Waiting
  <2>2. \A q \in Regs : Occurs(j, q)' = Occurs(j, q)
    BY <1>0, <1>2, <1>4, <2>0, OccursQuiet
  <2>3. mode # "wake_omit" => \A m \in W : insts[j].srcs[m] \notin regScoreboard'
    BY <1>2, <2>1 DEF WaitsFor
  <2>4. /\ mode' = mode /\ (j \in Victims => j \in Victims') /\ From(j)' = From(j)
        /\ \A m \in Unmarked(j) :
             insts[j].srcs[m] \notin regScoreboard' \cup {WakingReg'}
               => insts[j].srcs[m] \notin regScoreboard \cup {WakingReg}
    BY <1>2, <1>4, <1>9
  <2>5. W \in SUBSET Unmarked(j)' /\ WaitsFor(j, W)'
    BY <2>0, <2>1, <2>2, <2>3, <2>4, WaitsFrame
  <2> QED
    BY <2>5
<1>11. Data'
  BY <1>6, <1>7 DEF Data
<1> QED
  BY <1>0, <1>2, <1>6, <1>8, <1>10, <1>11, SoundGoal

\* Outside wake_phase nothing is deferred.
LEMMA SoundWakeDeferred ==
  ASSUME Sound, WakeDeferred
  PROVE  SoundAfter
<1>1. pending = <<>>
  BY SoundParts DEF Chains, ShortChains
<1> QED
  BY <1>1 DEF WakeDeferred

\* Outside the two loops there is no register being woken and no victim.
LEMMA RunningFacts ==
  ASSUME Sound, Running
  PROVE  /\ wk.dep = NoInst /\ wk.inst = NoInst /\ NoInst \notin Renamed
         /\ WakingReg = NoReg /\ Victims = {} /\ \A j : From(j) = 1
<1>0. IQType
  BY SoundParts
<1>1. Victims = {} /\ \A j : From(j) = 1
  BY <1>0, NoVictims DEF Running
<1>2. NoInst \notin Renamed
  BY <1>0, InstFacts
<1> QED
  BY <1>1, <1>2 DEF Running, NoWake, WakingReg

\* Outside the two loops an instruction goes on waiting while its chains and
\* its sources stay as they are.
LEMMA KeepsWaiting ==
  ASSUME Sound, Running, UNCHANGED <<mode, wk, sq>>, Victims' = {},
         NEW j \in Live, insts'[j] = insts[j],
         \A p \in Regs : CountIn(chain'[p], j) = CountIn(chain[p], j),
         \A p \in Sources(j) : p \in regScoreboard' <=> p \in regScoreboard
  PROVE  \E W \in SUBSET Unmarked(j)' : WaitsFor(j, W)'
<1>0. IQType /\ Waiting /\ j # NoInst
  BY SoundParts
<1>1. PICK W \in SUBSET Unmarked(j) : WaitsFor(j, W)
  BY <1>0 DEF Waiting
<1>2. wk.dep = NoInst /\ WakingReg = NoReg /\ Victims = {} /\ From(j) = 1
  BY RunningFacts
<1>3. WakingReg' = NoReg /\ From(j)' = 1
  <2>1. From(j)' = 1
    BY DEF From
  <2> QED
    BY <2>1 DEF WakingReg, Running, NoWake
<1>4. \A p \in Regs : Occurs(j, p)' = Occurs(j, p)
  BY <1>0, <1>2 DEF Occurs
<1>5. \A m \in Unmarked(j) : insts[j].srcs[m] \in Sources(j)
  BY <1>0, UnmarkedReg
<1>6. mode # "wake_omit" => \A m \in W : insts[j].srcs[m] \notin regScoreboard'
  BY <1>1, <1>5 DEF WaitsFor
<1>7. \A m \in Unmarked(j) :
        insts[j].srcs[m] \notin regScoreboard' \cup {WakingReg'}
          => insts[j].srcs[m] \notin regScoreboard \cup {WakingReg}
  BY <1>2, <1>3, <1>5
<1>8. W \in SUBSET Unmarked(j)' /\ WaitsFor(j, W)'
  BY <1>1, <1>2, <1>3, <1>4, <1>6, <1>7, WaitsFrame
<1> QED
  BY <1>8

\* An instruction on a ready list has all its sources.
LEMMA CanIssue ==
  ASSUME Sound, Running, NEW i \in Live, insts[i].st = "iq", insts[i].canIssue
  PROVE  /\ Sources(i) \subseteq regScoreboard
         /\ \A p \in Regs : Occurs(i, p) = 0
<1>0. IQType /\ Waiting /\ Data
  BY SoundParts
<1>1. PICK W \in SUBSET Unmarked(i) : WaitsFor(i, W)
  BY <1>0 DEF Waiting
<1>2. WakingReg = NoReg /\ Victims = {} /\ From(i) = 1
  BY RunningFacts
<1>3. W = {}
  BY <1>1, <1>2 DEF WaitsFor
<1>4. \A p \in Regs : Occurs(i, p) = 0
  <2>1. \A p \in Regs : Occurs(i, p) \in Nat
    BY <1>0, OccursFacts
  <2> QED
    BY <2>1, <1>0, <1>1, <1>3, EntryWaits
<1>5. ASSUME NEW m \in DOMAIN insts[i].srcs PROVE insts[i].srcs[m] \in regScoreboard
  <2>1. m \in Nat /\ m >= 1 /\ insts[i].srcs[m] # NoReg
    BY <1>0, UnmarkedReg
  <2>2. CASE insts[i].rdy[m]
    BY <2>2, <1>0 DEF Data, MarkedReady, Marked, WritesPending
  <2>3. CASE ~insts[i].rdy[m]
    <3>1. m \in Unmarked(i)
      BY <2>3 DEF Unmarked
    <3> QED
      BY <3>1, <2>1, <1>1, <1>2, <1>3 DEF WaitsFor
  <2> QED
    BY <2>2, <2>3
<1> QED
  BY <1>4, <1>5 DEF Sources

\* An instruction that can issue waits for nothing.
LEMMA SoundIssue ==
  ASSUME Sound, NEW i \in SeqNums, Issue(i)
  PROVE  SoundAfter
<1>0. /\ IQType /\ Owners /\ Data /\ ReadyOnce /\ ChainLive /\ Waiting /\ panic = "none"
      /\ \A j \in Live : j \in Renamed /\ j \in Nat /\ j # NoInst
  BY SoundParts
<1>1. /\ readyInsts[i] > 0
      /\ readyInsts' = [readyInsts EXCEPT ![i] = @ - 1]
      /\ UNCHANGED <<mode, renameMap, scoreboard, regScoreboard, chain, wk, sq, panic>>
      /\ Running
  BY DEF Issue
<1>2. /\ wk.dep = NoInst /\ wk.inst = NoInst /\ NoInst \notin Renamed
      /\ WakingReg = NoReg /\ Victims = {} /\ \A j : From(j) = 1
  BY <1>1, RunningFacts
<1>3. i \in Renamed /\ insts[i].st \in {"iq", "squashed"} /\ insts[i].canIssue
      /\ readyInsts[i] + exec[i] <= 1
  BY <1>0, <1>1 DEF IQType, ReadyOnce
<1>4. readyInsts \in [SeqNums -> Nat] /\ exec \in [SeqNums -> Nat] /\ \A j \in Renamed : j \in SeqNums
  BY <1>0, InstFacts DEF IQType
<1>5. readyInsts[i] = 1 /\ exec[i] = 0 /\ readyInsts'[i] = 0
      /\ \A j \in Renamed : j # i => readyInsts'[j] = readyInsts[j]
  BY <1>1, <1>3, <1>4
<1>6. CASE insts[i].st = "squashed"
  <2>1. insts' = insts /\ exec' = exec
    BY <1>6 DEF Issue
  <2>2. Data' /\ Live' = Live /\ Renamed' = Renamed
    BY <1>0, <1>1, <2>1, DataFrame DEF Renamed
  <2>3. ReadyOnce'
    <3>1. \A j \in Renamed : /\ readyInsts'[j] + exec[j] <= 1
                             /\ readyInsts'[j] > 0 => readyInsts[j] > 0
      BY <1>0, <1>4, <1>5 DEF ReadyOnce
    <3> QED
      BY <3>1, <2>1, <2>2, <1>0, <1>1, <1>2 DEF ReadyOnce
  <2>4. ChainLive'
    BY <2>2, <1>0, <1>1 DEF ChainLive
  <2>5. Waiting'
    <3>1. Victims' = {}
      BY <2>2, <1>1, <1>2 DEF Victims
    <3> QED
      BY <3>1, <2>1, <2>2, <1>1, KeepsWaiting DEF Waiting
  <2> QED
    BY <2>2, <2>3, <2>4, <2>5, <1>0, <1>1, SoundGoal
<1>7. CASE insts[i].st = "iq"
  <2>1. insts' = [insts EXCEPT ![i].st = "issued"] /\ exec' = [exec EXCEPT ![i] = @ + 1]
    BY <1>7 DEF Issue
  <2>2. /\ Renamed' = Renamed /\ Live' = Live /\ Len(insts') = Len(insts)
        /\ \A j \in Renamed : SameNames(j) /\ insts'[j].canIssue = insts[j].canIssue
        /\ \A j \in Renamed : j # i => insts'[j] = insts[j]
        /\ insts'[i].st = "issued"
    <3>1. "issued" \in States
      BY DEF States
    <3> QED
      BY <3>1, <2>1, <1>0, <1>3, <1>7, RestateInst
  <2>3. i \in Live
    BY <1>3, <1>7 DEF Live, Renamed
  <2>4. /\ Sources(i) \subseteq regScoreboard
        /\ \A p \in Regs : Occurs(i, p) = 0
    BY <2>3, <1>1, <1>3, <1>7, CanIssue
  <2>5. /\ Writers' = Writers /\ Mapped' = Mapped
        /\ \A j \in Live : Sources(j)' = Sources(j) /\ Marked(j)' = Marked(j)
                           /\ insts'[j].dest = insts[j].dest /\ insts'[j].prev = insts[j].prev
        /\ \A j \in Live : j # i => insts'[j] = insts[j]
    BY <1>0, <1>1, <2>2 DEF Writers, Mapped, Sources, Marked, SameNames
  <2>6. Data'
    <3>1. WritesPending'
      <4>1. \A j \in Writers : j \in Live /\ (j = i \/ insts'[j] = insts[j])
        BY <2>5 DEF Writers
      <4> QED
        BY <4>1, <2>2, <2>5, <1>0, <1>1, <1>7 DEF Data, WritesPending
    <3>2. SourcesProduced'
      <4>1. ASSUME NEW x, NEW n, Produced(x, n) PROVE Produced(x, n)'
        BY <4>1, <1>1, <2>2, <2>5 DEF Produced
      <4>2. \A x \in Mapped' : x \in scoreboard' \/ \E j \in Live' : j < Len(insts') + 1 /\ insts'[j].dest = x
        BY <1>0, <1>1, <2>2, <2>5 DEF Data, SourcesProduced, Produced
      <4>3. \A j \in Writers' : insts'[j].prev \in scoreboard' \/ \E m \in Live' : m < j /\ insts'[m].dest = insts'[j].prev
        BY <1>0, <1>1, <2>2, <2>5 DEF Data, SourcesProduced, Produced, Writers
      <4>4. \A j \in Live' : \A x \in Sources(j)' : Produced(x, j)'
        BY <4>1, <1>0, <2>2, <2>5 DEF Data, SourcesProduced
      <4> QED
        BY <4>2, <4>3, <4>4 DEF SourcesProduced, Produced
    <3>3. MarkedReady'
      BY <1>0, <1>1, <2>2, <2>5 DEF Data, MarkedReady, SameNames
    <3>4. SkidCount'
      <4>1. \A j \in Live' : insts'[j].st = "skid" => insts'[j] = insts[j] /\ j \in Live
        BY <2>2, <2>5
      <4> QED
        BY <4>1, <1>0, <1>1, <2>5 DEF Data, SkidCount
    <3>5. IssueReady'
      <4>1. \A j \in Live : insts'[j].st \in {"issued", "done"} /\ mode # "wake_phase"
                               => Sources(j) \subseteq regScoreboard
        BY <2>4, <2>5, <1>0 DEF Data, IssueReady
      <4> QED
        BY <4>1, <1>1, <2>2, <2>5 DEF IssueReady
    <3> QED
      BY <3>1, <3>2, <3>3, <3>4, <3>5 DEF Data
  <2>7. ReadyOnce'
    <3>1. exec'[i] = 1 /\ \A j \in Renamed : j # i => exec'[j] = exec[j]
      BY <2>1, <1>4, <1>5
    <3>2. ASSUME NEW j \in Renamed
          PROVE  /\ readyInsts'[j] + exec'[j] <= 1
                 /\ readyInsts'[j] > 0 => insts'[j].st \in {"iq", "squashed"} /\ insts'[j].canIssue
                 /\ exec'[j] > 0 => insts'[j].st \in {"issued", "squashed"}
      <4>1. CASE j = i
        BY <4>1, <3>1, <2>2, <1>5
      <4>2. CASE j # i
        BY <4>2, <3>1, <2>2, <1>0, <1>5 DEF ReadyOnce
      <4> QED
        BY <4>1, <4>2
    <3> QED
      BY <3>2, <2>2, <1>1, <1>2 DEF ReadyOnce
  <2>8. ChainLive'
    BY <2>2, <1>0, <1>1 DEF ChainLive
  <2>9. Waiting'
    <3>1. Victims' = {}
      BY <2>2, <1>1, <1>2 DEF Victims
    <3> SUFFICES ASSUME NEW j \in Live
                 PROVE  \E W \in SUBSET Unmarked(j)' : WaitsFor(j, W)'
      BY <2>2 DEF Waiting
    <3>2. CASE j = i
      <4>1. \A p \in Regs : Occurs(j, p)' = 0
        BY <3>2, <2>4, <1>0, <1>1, <1>2, OccursQuiet
      <4>2. {} \in SUBSET Unmarked(j)' /\ WaitsFor(j, {})'
        BY <4>1, <3>2, <2>2, WaitsNothing
      <4> QED
        BY <4>2
    <3>3. CASE j # i
      BY <3>1, <3>3, <2>5, <1>1, KeepsWaiting
    <3> QED
      BY <3>2, <3>3
  <2> QED
    BY <2>6, <2>7, <2>8, <2>9, <1>0, <1>1, SoundGoal
<1> QED
  BY <1>3, <1>6, <1>7

\* CHAOSIQ acts on the oldest instruction, whose sources are all written: what
\* it toggles or swaps no longer decides anything.
LEMMA SoundFault ==
  ASSUME Sound, NEW k \in SeqNums, ProcessFault(k)
  PROVE  SoundAfter
<1>0. /\ IQType /\ Owners /\ Data /\ ReadyOnce /\ ChainLive /\ Waiting /\ panic = "none"
      /\ \A j \in Live : j \in Renamed /\ j \in Nat /\ j # NoInst
  BY SoundParts
<1>1. PICK h \in Live :
           /\ \A j \in Live : h <= j
           /\ FaultAs(h)
           /\ Len(insts') = Len(insts) /\ Renamed' = Renamed
           /\ \A j \in Renamed : j # h => insts'[j] = insts[j]
           /\ \A j \in Renamed : DOMAIN insts'[j].rdy = DOMAIN insts'[j].srcs
           /\ Live' = Live
           /\ \A j \in Renamed : Sources(j)' = Sources(j)
  BY <1>0, FaultEffect
<1>2. /\ UNCHANGED <<mode, renameMap, scoreboard, regScoreboard, chain, readyInsts, exec, wk, sq, panic>>
      /\ Running
  BY DEF ProcessFault
<1>3. /\ wk.dep = NoInst /\ wk.inst = NoInst /\ NoInst \notin Renamed
      /\ WakingReg = NoReg /\ Victims = {} /\ \A j : From(j) = 1
  BY <1>2, RunningFacts
<1>4. /\ \A j \in Live : /\ insts'[j].st = insts[j].st /\ insts'[j].dest = insts[j].dest
                         /\ insts'[j].prev = insts[j].prev /\ insts'[j].canIssue = insts[j].canIssue
                         /\ Sources(j)' = Sources(j)
      /\ \A j \in Live : j # h => insts'[j] = insts[j]
  BY <1>0, <1>1 DEF FaultAs
<1>5. Writers' = Writers /\ Mapped' = Mapped
  BY <1>1, <1>2, <1>4 DEF Writers, Mapped
<1>6. Sources(h) \subseteq scoreboard /\ Sources(h) \subseteq regScoreboard
  BY <1>0, <1>1 DEF Data, SourcesProduced, Produced, WritesPending
<1>7. Data'
  <2>1. WritesPending'
    <3>1. \A j \in Writers : j \in Live
      BY DEF Writers
    <3> QED
      BY <3>1, <1>0, <1>2, <1>4, <1>5 DEF Data, WritesPending
  <2>2. SourcesProduced'
    <3>1. ASSUME NEW x, NEW n, Produced(x, n) PROVE Produced(x, n)'
      BY <3>1, <1>1, <1>2, <1>4 DEF Produced
    <3>2. \A x \in Mapped' : x \in scoreboard' \/ \E j \in Live' : j < Len(insts') + 1 /\ insts'[j].dest = x
      BY <1>0, <1>1, <1>2, <1>4, <1>5 DEF Data, SourcesProduced, Produced
    <3>3. \A j \in Writers' : insts'[j].prev \in scoreboard' \/ \E m \in Live' : m < j /\ insts'[m].dest = insts'[j].prev
      BY <1>0, <1>1, <1>2, <1>4, <1>5 DEF Data, SourcesProduced, Produced, Writers
    <3>4. \A j \in Live' : \A x \in Sources(j)' : Produced(x, j)'
      BY <3>1, <1>0, <1>1, <1>4 DEF Data, SourcesProduced
    <3> QED
      BY <3>2, <3>3, <3>4 DEF SourcesProduced, Produced
  <2>3. MarkedReady'
    <3> SUFFICES ASSUME NEW j \in Live, NEW m \in Marked(j)'
                 PROVE  insts'[j].srcs[m] \in scoreboard
      BY <1>1, <1>2 DEF MarkedReady
    <3>1. CASE j = h
      <4>1. insts'[h].srcs[m] \in Sources(h)'
        BY <3>1 DEF Marked, Sources
      <4> QED
        BY <4>1, <3>1, <1>4, <1>6
    <3>2. CASE j # h
      <4>1. m \in Marked(j) /\ insts'[j] = insts[j]
        BY <3>2, <1>4 DEF Marked
      <4> QED
        BY <4>1, <1>0 DEF Data, MarkedReady
    <3> QED
      BY <3>1, <3>2
  <2>4. SkidCount'
    <3> SUFFICES ASSUME NEW j \in Live, insts'[j].st = "skid",
                        (\E p \in Sources(j) : p \notin scoreboard) \/ mode # "src_ready_bitflip"
                 PROVE  /\ insts'[j].readyRegs = Cardinality(Marked(j)')
                        /\ insts'[j].canIssue <=> insts'[j].readyRegs = Len(insts'[j].srcs)
      BY <1>1, <1>2, <1>4 DEF SkidCount
    <3>1. /\ insts[j].readyRegs = Cardinality(Marked(j))
          /\ insts[j].canIssue <=> insts[j].readyRegs = Len(insts[j].srcs)
      BY <1>0, <1>4 DEF Data, SkidCount
    <3>2. CASE j = h
      <4>1. mode = "tag_sub"
        BY <3>2, <1>1, <1>6 DEF FaultAs
      <4>2. /\ insts'[h].rdy = insts[h].rdy /\ Len(insts'[h].srcs) = Len(insts[h].srcs)
            /\ insts'[h].readyRegs = insts[h].readyRegs /\ insts'[h].canIssue = insts[h].canIssue
        BY <4>1, <1>1 DEF FaultAs
      <4>3. DOMAIN insts'[h].srcs = DOMAIN insts[h].srcs
        BY <4>2, <1>0, <1>1, InstFacts
      <4>4. Marked(h)' = Marked(h)
        BY <4>2, <4>3 DEF Marked
      <4> QED
        BY <3>1, <3>2, <4>2, <4>4
    <3>3. CASE j # h
      <4>1. insts'[j] = insts[j] /\ Marked(j)' = Marked(j)
        BY <3>3, <1>4 DEF Marked
      <4> QED
        BY <3>1, <4>1
    <3> QED
      BY <3>2, <3>3
  <2>5. IssueReady'
    BY <1>0, <1>1, <1>2, <1>4 DEF Data, IssueReady
  <2> QED
    BY <2>1, <2>2, <2>3, <2>4, <2>5 DEF Data
<1>8. ReadyOnce'
  <2>1. \A j \in Renamed : insts'[j].st = insts[j].st /\ insts'[j].canIssue = insts[j].canIssue
    BY <1>1, <1>4
  <2> QED
    BY <2>1, <1>0, <1>1, <1>2, <1>3 DEF ReadyOnce
<1>9. ChainLive'
  BY <1>0, <1>1, <1>2 DEF ChainLive
<1>10. Waiting'
  <2>1. Victims' = {}
    BY <1>1, <1>2, <1>3 DEF Victims
  <2> SUFFICES ASSUME NEW j \in Live
               PROVE  \E W \in SUBSET Unmarked(j)' : WaitsFor(j, W)'
    BY <1>1 DEF Waiting
  <2>2. CASE j = h
    <3>1. PICK W \in SUBSET Unmarked(h) : WaitsFor(h, W)
      BY <1>0 DEF Waiting
    <3>2. mode # "wake_omit"
      BY <1>1 DEF FaultAs
    <3>3. \A m \in W : insts[h].srcs[m] \notin regScoreboard /\ insts[h].srcs[m] \in Sources(h)
      BY <3>1, <3>2, <1>0, UnmarkedReg DEF WaitsFor
    <3>4. W = {}
      BY <3>3, <1>6
    <3>5. \A p \in Regs : Occurs(h, p)' = 0
      <4>1. \A p \in Regs : Occurs(h, p) \in Nat
        BY <1>0, OccursFacts
      <4>2. \A p \in Regs : Occurs(h, p) = 0
        BY <4>1, <3>1, <3>4, <1>0, EntryWaits
      <4> QED
        BY <4>2, <1>0, <1>2, <1>3, OccursQuiet
    <3>6. \A p : {m \in {} : insts'[h].srcs[m] = p} = {} /\ Cardinality({}) = 0
      BY FS_EmptySet
    <3>7. \A m \in Unmarked(h)' : insts'[h].srcs[m] \in regScoreboard'
      <4>1. \A m \in Unmarked(h)' : insts'[h].srcs[m] \in Sources(h)'
        BY DEF Unmarked, Sources
      <4> QED
        BY <4>1, <1>2, <1>4, <1>6
    <3>8. insts'[h].st = "iq" /\ mode' # "src_ready_bitflip" =>
            /\ Cardinality({}) + insts'[h].readyRegs = Len(insts'[h].srcs)
            /\ insts'[h].canIssue
      <4>1. /\ insts'[h].st = insts[h].st /\ insts'[h].canIssue = insts[h].canIssue
            /\ insts'[h].readyRegs = insts[h].readyRegs /\ Len(insts'[h].srcs) = Len(insts[h].srcs)
        BY <1>1 DEF FaultAs
      <4>2. insts[h].st = "iq" /\ mode # "src_ready_bitflip" =>
              /\ Cardinality(W) + insts[h].readyRegs = Len(insts[h].srcs)
              /\ insts[h].canIssue
        BY <3>1, <3>4, <1>3 DEF WaitsFor
      <4> QED
        BY <4>1, <4>2, <3>4, <1>2
    <3>9. WaitsFor(h, {})'
      BY <3>5, <3>6, <3>7, <3>8 DEF WaitsFor
    <3> QED
      BY <2>2, <3>9
  <2>3. CASE j # h
    BY <2>1, <2>3, <1>2, <1>4, KeepsWaiting
  <2> QED
    BY <2>2, <2>3
<1> QED
  BY <1>0, <1>2, <1>7, <1>8, <1>9, <1>10, SoundGoal

\* A renamed instruction reads mapped registers and writes a free one.
LEMMA SoundRename ==
  ASSUME Sound, NEW shape, Rename(shape)
  PROVE  SoundAfter
<1>0. /\ IQType /\ Owners /\ Data /\ ReadyOnce /\ ChainLive /\ Waiting /\ panic = "none"
      /\ \A j \in Live : j \in Renamed /\ j \in SeqNums /\ j \in Nat /\ j # NoInst
  BY SoundParts
<1>1. PICK n \in SeqNums :
           /\ n = Len(insts) + 1 /\ n \notin Live /\ \A j \in Live : j < n
           /\ Live' = Live \cup {n} /\ RenamedAs(n, shape) /\ Len(insts') = n
           /\ \A j \in Live : insts'[j] = insts[j]
           /\ \A j \in Live : Sources(j)' = Sources(j)
           /\ \A p \in Sources(n)' : p \in Mapped
           /\ shape.dest = NoDest =>
                /\ insts'[n].dest = NoReg /\ insts'[n].prev = NoReg /\ insts'[n].arch = NoDest
                /\ Writers' = Writers /\ renameMap' = renameMap /\ freeList' = freeList
           /\ shape.dest # NoDest =>
                /\ shape.dest \in ArchRegs /\ freeList # <<>>
                /\ insts'[n].dest = freeList[1] /\ insts'[n].arch = shape.dest
                /\ insts'[n].prev = renameMap[shape.dest]
                /\ freeList[1] \in PhysRegs /\ renameMap[shape.dest] \in PhysRegs
                /\ renameMap' = [renameMap EXCEPT ![shape.dest] = freeList[1]]
                /\ freeList' = Tail(freeList)
                /\ Writers' = Writers \cup {n}
  BY <1>0, RenameOwners
<1>r. /\ Renamed' = Renamed \cup {n} /\ n \notin Renamed /\ n # NoInst /\ n \in Nat
      /\ \A j \in Renamed : insts'[j] = insts[j]
  <2>1. n \notin Renamed /\ n # NoInst /\ n \in Nat
    BY <1>0, <1>1, InstFacts, Numbers DEF Renamed, SeqNums
  <2> QED
    BY <2>1, <1>0, <1>1, RenameEffect
<1>p. PICK new : new = insts'[n].dest
  OBVIOUS
<1>2. /\ UNCHANGED <<mode, regScoreboard, chain, readyInsts, exec, wk, sq, panic>> /\ Running
      /\ scoreboard' = scoreboard \ {new}
  <2>1. /\ UNCHANGED <<mode, regScoreboard, chain, readyInsts, exec, wk, sq, panic>> /\ Running
        /\ scoreboard' = scoreboard \ {IF shape.dest = NoDest THEN NoReg ELSE Head(freeList)}
    BY DEF Rename
  <2>2. new = IF shape.dest = NoDest THEN NoReg ELSE Head(freeList)
    BY <1>1, <1>p DEF RenamedAs
  <2> QED
    BY <2>1, <2>2
<1>3. /\ wk.dep = NoInst /\ wk.inst = NoInst /\ NoInst \notin Renamed
      /\ WakingReg = NoReg /\ Victims = {} /\ \A j : From(j) = 1
  BY <1>2, RunningFacts
<1>4. /\ \A p \in Mapped : p # new /\ p \in PhysRegs
      /\ \A j \in Writers : insts[j].dest # new /\ insts[j].prev # new
      /\ \A j \in Live : new \notin Sources(j)
  <2>1. \A p \in Mapped : p \in PhysRegs
    BY <1>0, TypeUses DEF Mapped
  <2>2. CASE shape.dest = NoDest
    <3>1. new = NoReg
      BY <2>2, <1>1, <1>p
    <3>2. \A j \in Writers : insts[j].dest # NoReg /\ insts[j].prev # NoReg
      BY <1>0, Numbers DEF Owners, DestType, Writers
    <3>3. \A j \in Live : NoReg \notin Sources(j)
      BY <1>0, UnmarkedReg DEF Sources
    <3> QED
      BY <2>1, <3>1, <3>2, <3>3, Numbers
  <2>3. CASE shape.dest # NoDest
    <3>1. new = freeList[1] /\ 1 \in DOMAIN freeList
      <4>1. freeList \in Seq(PhysRegs) /\ freeList # <<>>
        BY <2>3, <1>0, <1>1 DEF IQType
      <4> QED
        BY <4>1, <2>3, <1>1, <1>p
    <3> QED
      BY <2>1, <3>1, <1>0, NotFree
  <2> QED
    BY <2>2, <2>3
<1>5. /\ insts'[n].st = "skid" /\ DOMAIN insts'[n].srcs = DOMAIN shape.srcs
      /\ insts'[n].rdy = [m \in DOMAIN shape.srcs |-> insts'[n].srcs[m] \in scoreboard]
  BY <1>1 DEF RenamedAs
<1>6. Data'
  <2>1. WritesPending'
    <3>1. scoreboard' \subseteq regScoreboard'
      BY <1>0, <1>2 DEF Data, WritesPending
    <3>2. ASSUME NEW j \in Writers'
          PROVE  /\ insts'[j].st = "done" <=> insts'[j].dest \in scoreboard'
                 /\ insts'[j].st \in {"iq", "issued"} => insts'[j].dest \notin regScoreboard'
      <4>1. CASE j = n
        BY <4>1, <1>2, <1>5, <1>p
      <4>2. CASE j # n
        <5>1. j \in Writers /\ insts'[j] = insts[j]
          BY <4>2, <1>1 DEF Writers
        <5> QED
          BY <5>1, <1>0, <1>2, <1>4 DEF Data, WritesPending
      <4> QED
        BY <4>1, <4>2
    <3> QED
      BY <3>1, <3>2 DEF WritesPending
  <2>2. SourcesProduced'
    <3>1. ASSUME NEW x, NEW m, x # new, Produced(x, m) PROVE Produced(x, m)'
      BY <3>1, <1>1, <1>2 DEF Produced
    <3>2. \A x \in Mapped : Produced(x, n)
      BY <1>0, <1>1 DEF Data, SourcesProduced
    <3>3. ASSUME NEW x \in Mapped'
          PROVE  x \in scoreboard' \/ \E j \in Live' : j < Len(insts') + 1 /\ insts'[j].dest = x
      <4>1. x \in Mapped \/ x = new
        <5>1. CASE shape.dest = NoDest
          BY <5>1, <1>1 DEF Mapped
        <5>2. CASE shape.dest # NoDest
          <6>1. renameMap \in [ArchRegs -> PhysRegs]
            BY <1>0, TypeUses
          <6> QED
            BY <6>1, <5>2, <1>1, <1>p DEF Mapped
        <5> QED
          BY <5>1, <5>2
      <4>2. CASE x = new
        BY <4>2, <1>1, <1>p, <1>r
      <4>3. CASE x \in Mapped
        <5>1. Produced(x, n)'
          BY <4>3, <3>1, <3>2, <1>4
        <5>2. \A j \in Live' : j \in Nat
          BY <1>0, <1>1, <1>r
        <5> QED
          BY <5>1, <5>2, <1>1, <1>r DEF Produced
      <4> QED
        BY <4>1, <4>2, <4>3
    <3>4. \A j \in Writers' : \A x : x = insts'[j].prev => Produced(x, j)'
      <4> SUFFICES ASSUME NEW j \in Writers', NEW x, x = insts'[j].prev PROVE Produced(x, j)'
        OBVIOUS
      <4>1. CASE j = n
        <5>1. shape.dest # NoDest
          BY <4>1, <1>1 DEF Writers
        <5>2. x \in Mapped
          BY <5>1, <4>1, <1>1 DEF Mapped
        <5> QED
          BY <5>2, <4>1, <3>1, <3>2, <1>4
      <4>2. CASE j # n
        <5>1. j \in Writers /\ insts'[j] = insts[j]
          BY <4>2, <1>1 DEF Writers
        <5> QED
          BY <5>1, <3>1, <1>0, <1>4 DEF Data, SourcesProduced
      <4> QED
        BY <4>1, <4>2
    <3>5. \A j \in Live' : \A x \in Sources(j)' : Produced(x, j)'
      <4> SUFFICES ASSUME NEW j \in Live', NEW x \in Sources(j)' PROVE Produced(x, j)'
        OBVIOUS
      <4>1. CASE j = n
        BY <4>1, <3>1, <3>2, <1>1, <1>4
      <4>2. CASE j # n
        <5>1. j \in Live /\ x \in Sources(j)
          BY <4>2, <1>1
        <5> QED
          BY <5>1, <3>1, <1>0, <1>4 DEF Data, SourcesProduced
      <4> QED
        BY <4>1, <4>2
    <3> QED
      BY <3>3, <3>4, <3>5 DEF SourcesProduced, Produced
  <2>3. MarkedReady'
    <3> SUFFICES ASSUME NEW j \in Live', NEW m \in Marked(j)'
                 PROVE  insts'[j].srcs[m] \in scoreboard'
      BY DEF MarkedReady
    <3>1. insts'[j].srcs[m] \in Sources(j)'
      BY DEF Marked, Sources
    <3>2. CASE j = n
      <4>1. insts'[n].srcs[m] \in scoreboard
        BY <3>2, <1>5 DEF Marked
      <4>2. insts'[n].srcs[m] # new
        BY <3>1, <3>2, <1>1, <1>4
      <4> QED
        BY <4>1, <4>2, <3>2, <1>2
    <3>3. CASE j # n
      <4>1. j \in Live /\ insts'[j] = insts[j] /\ m \in Marked(j) /\ insts[j].srcs[m] # new
        BY <3>1, <3>3, <1>1, <1>4 DEF Marked
      <4> QED
        BY <4>1, <1>0, <1>2 DEF Data, MarkedReady
    <3> QED
      BY <3>2, <3>3
  <2>4. SkidCount'
    <3> SUFFICES ASSUME NEW j \in Live', insts'[j].st = "skid",
                        (\E p \in Sources(j)' : p \notin scoreboard') \/ mode' # "src_ready_bitflip"
                 PROVE  /\ insts'[j].readyRegs = Cardinality(Marked(j)')
                        /\ insts'[j].canIssue <=> insts'[j].readyRegs = Len(insts'[j].srcs)
      BY DEF SkidCount
    <3>1. CASE j = n
      BY <3>1, <1>1 DEF RenamedAs, Marked
    <3>2. CASE j # n
      <4>1. j \in Live /\ insts'[j] = insts[j] /\ Sources(j)' = Sources(j) /\ Marked(j)' = Marked(j)
        BY <3>2, <1>1 DEF Marked
      <4>2. (\E p \in Sources(j) : p \notin scoreboard) \/ mode # "src_ready_bitflip"
        BY <4>1, <1>2, <1>4
      <4> QED
        BY <4>1, <4>2, <1>0 DEF Data, SkidCount
    <3> QED
      BY <3>1, <3>2
  <2>5. IssueReady'
    <3>1. \A j \in Live' : insts'[j].st \in {"issued", "done"} => j \in Live
      BY <1>1, <1>5
    <3> QED
      BY <3>1, <1>0, <1>1, <1>2 DEF Data, IssueReady
  <2> QED
    BY <2>1, <2>2, <2>3, <2>4, <2>5 DEF Data
<1>7. ReadyOnce'
  <2>1. readyInsts[n] = 0 /\ exec[n] = 0
    BY <1>0, <1>1, <1>r DEF IQType
  <2>2. \A j \in Renamed' : j = n \/ (j \in Renamed /\ insts'[j] = insts[j])
    BY <1>r
  <2> QED
    BY <2>1, <2>2, <1>0, <1>2, <1>3, <1>r DEF ReadyOnce
<1>8. ChainLive'
  BY <1>0, <1>1, <1>2 DEF ChainLive
<1>9. Waiting'
  <2>1. Victims' = {}
    <3>1. \A j \in Live' : j \in Nat /\ j <= MaxSeq
      BY <1>0, <1>1 DEF SeqNums
    <3>2. sq' = NoSquash
      BY <1>2 DEF Running
    <3> QED
      BY <3>1, <3>2, Numbers DEF Victims, NoSquash
  <2> SUFFICES ASSUME NEW j \in Live'
               PROVE  \E W \in SUBSET Unmarked(j)' : WaitsFor(j, W)'
    BY DEF Waiting
  <2>2. CASE j = n
    <3>1. ASSUME NEW p \in Regs PROVE Occurs(n, p)' = 0
      <4>1. chain[p] \in Seq(Renamed)
        BY <1>0 DEF IQType
      <4>2. \A m \in DOMAIN chain[p] : chain[p][m] # n
        BY <4>1, <1>r
      <4>3. CountIn(chain[p], n) = 0
        BY <4>1, <4>2, CountType
      <4> QED
        BY <4>3, <1>2, <1>3, <1>r DEF Occurs
    <3>2. {} \in SUBSET Unmarked(n)' /\ WaitsFor(n, {})'
      BY <3>1, <1>5, WaitsNothing
    <3> QED
      BY <3>2, <2>2
  <2>3. CASE j # n
    <3>1. j \in Live /\ insts'[j] = insts[j]
      BY <2>3, <1>1
    <3> QED
      BY <2>1, <3>1, <1>2, KeepsWaiting
  <2> QED
    BY <2>2, <2>3
<1> QED
  BY <1>0, <1>2, <1>6, <1>7, <1>8, <1>9, SoundGoal

\* Marked sources, sources that have become ready, and the others are all.
LEMMA InsertCounts ==
  ASSUME IQType, NEW i \in Live, NEW W, W = Unmarked(i) \ BecameReady(i)
  PROVE  /\ Cardinality(Marked(i)) \in Nat /\ Cardinality(BecameReady(i)) \in Nat
         /\ IsFiniteSet(W) /\ Cardinality(W) \in Nat /\ (Cardinality(W) = 0 <=> W = {})
         /\ Cardinality(Marked(i)) + Cardinality(BecameReady(i)) + Cardinality(W)
              = Len(insts[i].srcs)
<1>1. /\ insts[i] \in DynInst /\ DOMAIN insts[i].rdy = DOMAIN insts[i].srcs
  BY InstFacts
<1>2. PICK D : D = DOMAIN insts[i].srcs
  OBVIOUS
<1>3. IsFiniteSet(D) /\ Cardinality(D) = Len(insts[i].srcs)
  BY <1>1, <1>2, MarkedType
<1>4. PICK M : M = Marked(i)
  OBVIOUS
<1>5. PICK B : B = BecameReady(i)
  OBVIOUS
<1>6. M \subseteq D /\ B \subseteq D /\ W \subseteq D
  BY <1>2, <1>4, <1>5 DEF Marked, BecameReady, Unmarked
<1>7. D = (M \cup B) \cup W /\ M \cap B = {} /\ (M \cup B) \cap W = {}
  BY <1>2, <1>4, <1>5 DEF Marked, BecameReady, Unmarked
<1>8. IsFiniteSet(M) /\ IsFiniteSet(B) /\ IsFiniteSet(W)
  BY <1>3, <1>6, FS_Subset
<1>9. /\ Cardinality(M) \in Nat /\ Cardinality(B) \in Nat /\ Cardinality(W) \in Nat
      /\ Cardinality({}) = 0 /\ (Cardinality(W) = 0 <=> W = {})
  BY <1>8, FS_CardinalityType, FS_EmptySet
<1>10. IsFiniteSet(M \cup B) /\ Cardinality(M \cup B) = Cardinality(M) + Cardinality(B) - Cardinality(M \cap B)
  BY <1>8, FS_Union
<1>11. Cardinality((M \cup B) \cup W)
         = Cardinality(M \cup B) + Cardinality(W) - Cardinality((M \cup B) \cap W)
  BY <1>8, <1>10, FS_Union
<1>12. Cardinality(M \cap B) = 0 /\ Cardinality((M \cup B) \cap W) = 0
       /\ Cardinality(D) = Cardinality((M \cup B) \cup W)
  BY <1>7, <1>9, Zenon
<1>13. Cardinality(D) = Cardinality(M) + Cardinality(B) + Cardinality(W)
  <2> DEFINE a == Cardinality(M \cup B)
             b == Cardinality(W)
             c == Cardinality((M \cup B) \cup W)
             x == Cardinality(M)
             y == Cardinality(B)
             m == Cardinality(M \cap B)
             n == Cardinality((M \cup B) \cap W)
             d == Cardinality(D)
  <2>1. a = x + y - m /\ m = 0 /\ c = a + b - n /\ n = 0 /\ d = c
    BY <1>10, <1>11, <1>12
  <2>2. Cardinality(M \cup B) \in Int /\ Cardinality((M \cup B) \cup W) \in Int
        /\ Cardinality(D) \in Int /\ Cardinality(M \cap B) \in Int
        /\ Cardinality((M \cup B) \cap W) \in Int
    BY <1>3, <1>7, <1>8, <1>10, <1>12, FS_CardinalityType
  <2>3. x \in Int /\ y \in Int /\ b \in Int
    BY <1>9
  <2>4. a \in Int /\ c \in Int /\ d \in Int /\ m \in Int /\ n \in Int
    BY <2>2
  <2> HIDE DEF a, b, c, x, y, m, n, d
  <2>5. d = x + y + b
    BY <2>1, <2>3, <2>4
  <2> QED
    BY <2>5 DEF d, x, y, b
<1> QED
  BY <1>3, <1>4, <1>5, <1>8, <1>9, <1>13

\* Dispatch leaves i waiting for the sources that are neither marked nor have
\* become ready.
LEMMA InsertWaits ==
  ASSUME Sound, NEW i \in Live, insts[i].st = "skid", DispatchedAs(i),
         UNCHANGED <<mode, wk, sq>>, Running, Victims' = {},
         regScoreboard' \subseteq regScoreboard,
         \A p \in Regs : CountIn(chain'[p], i) = Depends(i, p)
  PROVE  \E W \in SUBSET Unmarked(i)' : WaitsFor(i, W)'
<1>0. IQType /\ Data /\ i # NoInst /\ i \in Renamed
  BY SoundParts
<1>1. PICK W : W = Unmarked(i) \ BecameReady(i)
  OBVIOUS
<1>2. /\ Cardinality(Marked(i)) \in Nat /\ Cardinality(BecameReady(i)) \in Nat
      /\ IsFiniteSet(W) /\ Cardinality(W) \in Nat /\ (Cardinality(W) = 0 <=> W = {})
      /\ Cardinality(Marked(i)) + Cardinality(BecameReady(i)) + Cardinality(W)
           = Len(insts[i].srcs)
  BY <1>0, <1>1, InsertCounts
<1>3. /\ insts'[i].st = "iq" /\ insts'[i].srcs = insts[i].srcs
      /\ insts'[i].rdy = [k \in DOMAIN insts[i].srcs |-> insts[i].rdy[k] \/ k \in BecameReady(i)]
      /\ insts'[i].readyRegs = insts[i].readyRegs + Cardinality(BecameReady(i))
      /\ insts'[i].canIssue =
           (insts[i].canIssue
              \/ (/\ insts[i].readyRegs < Len(insts[i].srcs)
                  /\ Len(insts[i].srcs) <= insts[i].readyRegs + Cardinality(BecameReady(i))))
  BY DEF DispatchedAs
<1>4. Unmarked(i)' = W
  BY <1>1, <1>3 DEF Unmarked
<1>5. \A k \in W : insts[i].srcs[k] \notin regScoreboard /\ insts[i].srcs[k] \in Sources(i)
                   /\ k \in Nat /\ k >= 1
  BY <1>0, <1>1, UnmarkedReg DEF BecameReady
<1>6. W # {} \/ mode # "src_ready_bitflip" =>
        /\ insts[i].readyRegs = Cardinality(Marked(i))
        /\ insts[i].canIssue <=> insts[i].readyRegs = Len(insts[i].srcs)
  BY <1>0, <1>5 DEF Data, SkidCount, WritesPending
<1>7. /\ W # {} \/ mode # "src_ready_bitflip" =>
           Cardinality(W) + insts'[i].readyRegs = Len(insts'[i].srcs)
      /\ W # {} => ~insts'[i].canIssue
      /\ W = {} /\ mode # "src_ready_bitflip" => insts'[i].canIssue
  <2> DEFINE m == Cardinality(Marked(i))
             b == Cardinality(BecameReady(i))
             w == Cardinality(W)
             l == Len(insts[i].srcs)
             r == insts[i].readyRegs
  <2>1. m \in Nat /\ b \in Nat /\ w \in Nat /\ m + b + w = l /\ (w = 0 <=> W = {})
    BY <1>2
  <2>2. l \in Nat
    BY <1>0, InstFacts
  <2>3. W # {} \/ mode # "src_ready_bitflip" => r = m /\ (insts[i].canIssue <=> r = l)
    BY <1>6
  <2>4. /\ insts'[i].readyRegs = r + b /\ Len(insts'[i].srcs) = l
        /\ insts'[i].canIssue <=> (insts[i].canIssue \/ (r < l /\ l <= r + b))
    BY <1>3
  <2> HIDE DEF m, b, w, l, r
  <2>5. W # {} \/ mode # "src_ready_bitflip" => w + insts'[i].readyRegs = Len(insts'[i].srcs)
    BY <2>1, <2>2, <2>3, <2>4
  <2>6. W # {} => ~insts'[i].canIssue
    BY <2>1, <2>2, <2>3, <2>4
  <2>7. W = {} /\ mode # "src_ready_bitflip" => insts'[i].canIssue
    BY <2>1, <2>2, <2>3, <2>4
  <2> QED
    BY <2>5, <2>6, <2>7 DEF w
<1>8. wk.dep = NoInst
  BY RunningFacts
<1>9. \A p \in Regs : Occurs(i, p)' = Cardinality({k \in W : insts'[i].srcs[k] = p})
  <2> SUFFICES ASSUME NEW p \in Regs
               PROVE  Occurs(i, p)' = Cardinality({k \in W : insts'[i].srcs[k] = p})
    OBVIOUS
  <2>1. {k \in W : insts'[i].srcs[k] = p} = {k \in Unmarked(i) \ BecameReady(i) : insts[i].srcs[k] = p}
    BY <1>1, <1>3
  <2>2. Depends(i, p) = Cardinality({k \in W : insts'[i].srcs[k] = p})
    BY <2>1 DEF Depends
  <2>3. Depends(i, p) \in Nat
    <3>1. {k \in W : insts'[i].srcs[k] = p} \subseteq W
      OBVIOUS
    <3>2. IsFiniteSet({k \in W : insts'[i].srcs[k] = p})
      BY <3>1, <1>2, FS_Subset
    <3> QED
      BY <3>2, <2>2, FS_CardinalityType
  <2>4. Occurs(i, p)' = CountIn(chain'[p], i) + 0
    BY <1>0, <1>8 DEF Occurs
  <2> QED
    BY <2>2, <2>3, <2>4
<1>10. From(i)' = 1
  BY DEF From
<1>11. WaitsFor(i, W)'
  BY <1>3, <1>4, <1>5, <1>7, <1>9, <1>10 DEF WaitsFor
<1> QED
  BY <1>4, <1>11

\* The panic and the ready list of insert, in terms of what i has become.
LEMMA InsertEnds ==
  ASSUME IQType, NEW i \in Live, InsertInst(i)
  PROVE  /\ panic' = IF chain[insts[i].dest] # <<>> THEN "producers" ELSE panic
         /\ readyInsts' = [readyInsts EXCEPT ![i] = @ + addIfReady(insts'[i])]
         /\ UNCHANGED <<mode, faults, renameMap, freeList, scoreboard, exec, pending, wk, sq>>
<1>1. i \in Renamed /\ insts[i] \in DynInst /\ DOMAIN insts = Renamed
  BY InstFacts
<1> DEFINE pre == [insts[i] EXCEPT !.st = "iq",
                      !.rdy = [k \in DOMAIN @ |-> @[k] \/ k \in BecameReady(i)]]
           rec == MarkReady(pre, Cardinality(BecameReady(i)))
<1>2. /\ insts' = [insts EXCEPT ![i] = rec]
      /\ panic' = IF chain[rec.dest] # <<>> THEN "producers" ELSE panic
      /\ readyInsts' = [readyInsts EXCEPT ![i] = @ + addIfReady(rec)]
      /\ UNCHANGED <<mode, faults, renameMap, freeList, scoreboard, exec, pending, wk, sq>>
  BY DEF InsertInst
<1>3. rec.dest = insts[i].dest
  BY <1>1 DEF MarkReady, DynInst
<1> HIDE DEF rec
<1>4. insts'[i] = rec
  BY <1>1, <1>2
<1> QED
  BY <1>2, <1>3, <1>4

\* Dispatch finds the chain of its destination empty and enters the chains of
\* the sources that are not ready.
LEMMA SoundInsert ==
  ASSUME Sound, IQType', Insert
  PROVE  SoundAfter
<1>0. /\ IQType /\ Owners /\ InOrderDispatch /\ Data /\ ReadyOnce /\ ChainLive /\ Waiting
      /\ panic = "none"
      /\ \A j \in Live : j \in Renamed /\ j \in SeqNums /\ j \in Nat /\ j # NoInst
  BY SoundParts
<1>1. PICK i \in Live :
           /\ insts[i].st = "skid" /\ \A j \in Live : insts[j].st = "skid" => i <= j
           /\ InsertInst(i)
           /\ insts' \in Seq(DynInst) /\ Len(insts') = Len(insts) /\ Renamed' = Renamed
           /\ \A j \in Renamed : j # i => insts'[j] = insts[j]
           /\ DispatchedAs(i)
           /\ Live' = Live
  BY <1>0, InsertEffect
<1>p. PICK d \in Regs : d = insts[i].dest
  BY <1>0, <1>1, InstFacts
<1>2. /\ Running /\ UNCHANGED <<mode, renameMap, scoreboard, exec, wk, sq>>
      /\ panic' = IF chain[d] # <<>> THEN "producers" ELSE panic
      /\ readyInsts' = [readyInsts EXCEPT ![i] = @ + addIfReady(insts'[i])]
      /\ regScoreboard' = regScoreboard \ {d}
  BY <1>0, <1>1, <1>p, InsertEnds, InsertChains DEF Insert
<1>3. /\ wk.dep = NoInst /\ wk.inst = NoInst /\ NoInst \notin Renamed
      /\ WakingReg = NoReg /\ Victims = {} /\ \A j : From(j) = 1
  BY <1>2, RunningFacts
<1>4. ASSUME NEW j \in Live, insts[j].st # "skid" PROVE d \notin Sources(j) /\ j < i
  <2>1. j < i
    BY <1>4, <1>0, <1>1 DEF InOrderDispatch
  <2> QED
    BY <2>1, <1>0, <1>1, <1>p DEF Owners, SourcesOwned
<1>5. panic' = "none"
  <2>1. ASSUME chain[d] # <<>> PROVE FALSE
    <3>1. PICK j \in Live : insts[j].st = "iq" /\ d \in Sources(j)
      BY <2>1, <1>0, ChainEntry
    <3> QED
      BY <3>1, <1>4
  <2> QED
    BY <2>1, <1>0, <1>2
<1>6. d \notin scoreboard
  <2>1. CASE d = NoReg
    BY <2>1, <1>0, Numbers DEF IQType
  <2>2. CASE d # NoReg
    BY <2>2, <1>0, <1>1, <1>p DEF Data, WritesPending, Writers
  <2> QED
    BY <2>1, <2>2
<1>7. /\ insts'[i].st = "iq" /\ insts'[i].dest = d /\ insts'[i].prev = insts[i].prev
      /\ insts'[i].srcs = insts[i].srcs
      /\ insts'[i].rdy = [k \in DOMAIN insts[i].srcs |-> insts[i].rdy[k] \/ k \in BecameReady(i)]
  BY <1>1, <1>p DEF DispatchedAs
<1>8. /\ Writers' = Writers /\ Mapped' = Mapped
      /\ \A j \in Live : Sources(j)' = Sources(j) /\ insts'[j].dest = insts[j].dest
                         /\ insts'[j].prev = insts[j].prev
      /\ \A j \in Live : j # i => insts'[j] = insts[j]
  <2>1. \A j \in Live : j # i => insts'[j] = insts[j]
    BY <1>0, <1>1
  <2>2. \A j \in Live : Sources(j)' = Sources(j) /\ insts'[j].dest = insts[j].dest
                        /\ insts'[j].prev = insts[j].prev
    BY <2>1, <1>7, <1>p DEF Sources
  <2> QED
    BY <2>1, <2>2, <1>1, <1>2 DEF Writers, Mapped
<1>9. Data'
  <2>1. WritesPending'
    <3>1. scoreboard' \subseteq regScoreboard'
      BY <1>0, <1>2, <1>6 DEF Data, WritesPending
    <3>2. ASSUME NEW j \in Writers
          PROVE  /\ insts'[j].st = "done" <=> insts'[j].dest \in scoreboard'
                 /\ insts'[j].st \in {"iq", "issued"} => insts'[j].dest \notin regScoreboard'
      <4>1. CASE j = i
        BY <4>1, <1>2, <1>6, <1>7
      <4>2. CASE j # i
        <5>1. insts'[j] = insts[j]
          BY <4>2, <1>8 DEF Writers
        <5> QED
          BY <5>1, <1>0, <1>2 DEF Data, WritesPending
      <4> QED
        BY <4>1, <4>2
    <3> QED
      BY <3>1, <3>2, <1>8 DEF WritesPending
  <2>2. SourcesProduced'
    <3>1. ASSUME NEW x, NEW n, Produced(x, n) PROVE Produced(x, n)'
      BY <3>1, <1>1, <1>2, <1>8 DEF Produced
    <3>2. \A x \in Mapped' : x \in scoreboard' \/ \E j \in Live' : j < Len(insts') + 1 /\ insts'[j].dest = x
      BY <1>0, <1>1, <1>2, <1>8 DEF Data, SourcesProduced, Produced
    <3>3. \A j \in Writers' : insts'[j].prev \in scoreboard' \/ \E m \in Live' : m < j /\ insts'[m].dest = insts'[j].prev
      BY <1>0, <1>1, <1>2, <1>8 DEF Data, SourcesProduced, Produced, Writers
    <3>4. \A j \in Live' : \A x \in Sources(j)' : Produced(x, j)'
      BY <3>1, <1>0, <1>1, <1>8 DEF Data, SourcesProduced
    <3> QED
      BY <3>2, <3>3, <3>4 DEF SourcesProduced, Produced
  <2>3. MarkedReady'
    <3> SUFFICES ASSUME NEW j \in Live, NEW m \in Marked(j)'
                 PROVE  insts'[j].srcs[m] \in scoreboard
      BY <1>1, <1>2 DEF MarkedReady
    <3>1. CASE j # i
      <4>1. insts'[j] = insts[j] /\ m \in Marked(j)
        BY <3>1, <1>8 DEF Marked
      <4> QED
        BY <4>1, <1>0 DEF Data, MarkedReady
    <3>2. CASE j = i /\ m \in Marked(i)
      BY <3>2, <1>0, <1>7 DEF Data, MarkedReady
    <3>3. CASE j = i /\ m \notin Marked(i)
      <4>1. m \in BecameReady(i) /\ m \in DOMAIN insts[i].srcs
        BY <3>3, <1>7 DEF Marked
      <4>2. PICK p : p = insts[i].srcs[m]
        OBVIOUS
      <4>3. p \in regScoreboard /\ p \in Sources(i) /\ p # NoReg
        BY <4>1, <4>2, <1>0, UnmarkedReg DEF BecameReady
      <4>4. ASSUME p \notin scoreboard PROVE FALSE
        <5>1. PICK w \in Live : w < i /\ insts[w].dest = p
          BY <4>3, <4>4, <1>0 DEF Data, SourcesProduced, Produced
        <5>2. w \in Writers /\ insts[w].st # "skid"
          BY <4>3, <5>1, <1>0, <1>1 DEF Writers
        <5>3. insts[w].st \notin {"done", "iq", "issued"}
          BY <4>3, <4>4, <5>1, <5>2, <1>0 DEF Data, WritesPending
        <5>4. insts[w].st \in States /\ insts[w].st \notin {"committed", "squashed"}
          BY <1>0, InstFacts DEF Live, DynInst
        <5> QED
          BY <5>2, <5>3, <5>4 DEF States
      <4> QED
        BY <3>3, <4>2, <4>4, <1>7
    <3> QED
      BY <3>1, <3>2, <3>3
  <2>4. SkidCount'
    <3>1. \A j \in Live' : insts'[j].st = "skid" => insts'[j] = insts[j] /\ j \in Live /\ Marked(j)' = Marked(j)
      BY <1>1, <1>7, <1>8 DEF Marked
    <3> QED
      BY <3>1, <1>0, <1>2, <1>8 DEF Data, SkidCount
  <2>5. IssueReady'
    <3>1. \A j \in Live' : insts'[j].st \in {"issued", "done"} =>
            j \in Live /\ insts[j].st \in {"issued", "done"} /\ d \notin Sources(j)
      BY <1>1, <1>4, <1>7, <1>8
    <3> QED
      BY <3>1, <1>0, <1>2, <1>8 DEF Data, IssueReady
  <2> QED
    BY <2>1, <2>2, <2>3, <2>4, <2>5 DEF Data
<1>10. ReadyOnce'
  <2>1. readyInsts \in [SeqNums -> Nat] /\ exec \in [SeqNums -> Nat] /\ i \in SeqNums /\ i \in Renamed
        /\ \A j \in Renamed : j \in SeqNums
    BY <1>0, <1>1, InstFacts DEF IQType
  <2>2. readyInsts[i] = 0 /\ exec[i] = 0
    BY <2>1, <1>0, <1>1 DEF ReadyOnce
  <2>3. addIfReady(insts'[i]) = IF insts'[i].canIssue THEN 1 ELSE 0
    BY DEF addIfReady
  <2>4. readyInsts'[i] = addIfReady(insts'[i]) /\ \A j \in Renamed : j # i => readyInsts'[j] = readyInsts[j]
    <3>1. addIfReady(insts'[i]) \in Nat
      BY <2>3
    <3>2. readyInsts'[i] = readyInsts[i] + addIfReady(insts'[i])
      BY <2>1, <1>2
    <3> QED
      BY <2>1, <2>2, <3>1, <3>2, <1>2
  <2>5. ASSUME NEW j \in Renamed
        PROVE  /\ readyInsts'[j] + exec[j] <= 1
               /\ readyInsts'[j] > 0 => insts'[j].st \in {"iq", "squashed"} /\ insts'[j].canIssue
               /\ exec[j] > 0 => insts'[j].st \in {"issued", "squashed"}
    <3>1. CASE j = i
      BY <3>1, <2>2, <2>3, <2>4, <1>7
    <3>2. CASE j # i
      BY <3>2, <2>4, <1>0, <1>1 DEF ReadyOnce
    <3> QED
      BY <3>1, <3>2
  <2> QED
    BY <2>5, <1>1, <1>2, <1>3 DEF ReadyOnce
<1>11. \A p \in Regs : /\ Depends(i, p) \in Nat
                       /\ chain'[p] = [m \in 1 .. Depends(i, p) |-> i] \o chain[p]
  BY <1>0, <1>1, InsertChains
<1>12. ChainLive'
  <2>1. ASSUME NEW p \in Regs PROVE \A n \in DOMAIN chain'[p] : chain'[p][n] \in Live
    <3>1. chain[p] \in Seq(Live)
      <4>1. chain[p] \in Seq(Renamed) /\ \A n \in DOMAIN chain[p] : chain[p][n] \in Live
        BY <1>0 DEF IQType, ChainLive
      <4> QED
        BY <4>1
    <3>2. [m \in 1 .. Depends(i, p) |-> i] \in Seq(Live)
      BY <1>11
    <3>3. chain'[p] \in Seq(Live)
      <4>1. \A S : \A s, t \in Seq(S) : s \o t \in Seq(S)
        OBVIOUS
      <4> QED
        BY <4>1, <3>1, <3>2, <1>11, Zenon
    <3> QED
      BY <3>3
  <2> QED
    BY <2>1, <1>1, <1>2, <1>3 DEF ChainLive
<1>13. ASSUME NEW j, NEW p \in Regs
       PROVE  CountIn(chain'[p], j) = (IF i = j THEN Depends(i, p) ELSE 0) + CountIn(chain[p], j)
  <2>1. PICK n \in Nat : n = Depends(i, p)
    BY <1>11
  <2>2. PICK c : c = [m \in 1 .. n |-> i]
    OBVIOUS
  <2>3. chain[p] \in Seq(Renamed) /\ c \in Seq(Renamed) /\ chain'[p] = c \o chain[p]
    <3>1. chain[p] \in Seq(Renamed)
      BY <1>0 DEF IQType
    <3>2. i \in Renamed
      BY <1>0
    <3>3. c \in Seq(Renamed)
      BY <2>2, <3>2
    <3>4. chain'[p] = c \o chain[p]
      BY <2>1, <2>2, <1>11, Zenon
    <3> QED
      BY <3>1, <3>3, <3>4
  <2>4. CountIn(c \o chain[p], j) = CountIn(c, j) + CountIn(chain[p], j)
    BY <2>3, CountConcat
  <2>5. CountIn(c, j) = IF i = j THEN n ELSE 0
    <3>1. Len(c) = n /\ \A m \in DOMAIN c : c[m] = i
      BY <2>2
    <3> QED
      BY <2>1, <2>3, <3>1, CountCopies
  <2> QED
    BY <2>1, <2>3, <2>4, <2>5
<1>14. Waiting'
  <2>0. Victims' = {}
    BY <1>1, <1>2, <1>3 DEF Victims
  <2>z. \A z \in Nat : z + 0 = z /\ 0 + z = z
    OBVIOUS
  <2> SUFFICES ASSUME NEW j \in Live
               PROVE  \E W \in SUBSET Unmarked(j)' : WaitsFor(j, W)'
    BY <1>1 DEF Waiting
  <2>1. CASE j = i
    <3>1. ASSUME NEW p \in Regs PROVE CountIn(chain'[p], i) = Depends(i, p)
      <4>1. Occurs(i, p) = 0
        BY <1>0, <1>1, NotWaiting
      <4>2. CountIn(chain[p], i) = 0
        <5>1. CountIn(chain[p], i) \in Nat /\ CountIn(chain[p], i) <= Occurs(i, p)
          BY <1>0, OccursFacts
        <5> QED
          BY <4>1, <5>1
      <4>3. CountIn(chain'[p], i) = Depends(i, p) + 0
        BY <4>2, <1>13
      <4> QED
        BY <4>3, <1>11, <2>z
    <3> QED
      BY <2>0, <2>1, <3>1, <1>1, <1>2, InsertWaits
  <2>2. ASSUME j # i, NEW p \in Regs PROVE CountIn(chain'[p], j) = CountIn(chain[p], j)
    <3>1. CountIn(chain[p], j) \in Nat
      BY <1>0, OccursFacts
    <3>2. CountIn(chain'[p], j) = 0 + CountIn(chain[p], j)
      BY <2>2, <1>13
    <3> QED
      BY <3>1, <3>2, <2>z
  <2>3. CASE j # i /\ insts[j].st = "skid"
    <3>1. ASSUME NEW p \in Regs PROVE Occurs(j, p)' = 0
      <4>1. Occurs(j, p) = 0 /\ CountIn(chain[p], j) = CountIn(chain'[p], j)
        BY <2>2, <2>3, <1>0, NotWaiting
      <4>2. Occurs(j, p)' = Occurs(j, p)
        BY <4>1, <1>0, <1>2, <1>3 DEF Occurs
      <4> QED
        BY <4>1, <4>2
    <3>2. insts'[j].st # "iq"
      BY <2>3, <1>8
    <3>3. {} \in SUBSET Unmarked(j)' /\ WaitsFor(j, {})'
      BY <3>1, <3>2, WaitsNothing
    <3> QED
      BY <3>3
  <2>4. CASE j # i /\ insts[j].st # "skid"
    <3>1. \A p \in Sources(j) : p \in regScoreboard' <=> p \in regScoreboard
      BY <2>4, <1>2, <1>4
    <3> QED
      BY <2>0, <2>2, <2>4, <3>1, <1>2, <1>8, KeepsWaiting
  <2> QED
    BY <2>1, <2>3, <2>4
<1> QED
  BY <1>5, <1>9, <1>10, <1>12, <1>14, SoundGoal

----------------------------------------------------------------------------
(* The theorems *)

\* Every step of a simulation that runs, outside wake_phase.
LEMMA SoundNext ==
  ASSUME Sound, IQType', [Next]_vars
  PROVE  SoundAfter
<1>1. CASE UNCHANGED vars
  BY <1>1, SoundStutter
<1>2. CASE WakeStep
  BY <1>2, SoundWakeDeferred, SoundWakeFirst, SoundWakeSkip, SoundWakeMark, SoundWakeEnd
     DEF WakeStep
<1>3. CASE SquashStep
  BY <1>3, SoundSquashSource, SoundSquashInst DEF SquashStep
<1>4. ASSUME NEW i \in SeqNums, Issue(i) \/ Writeback(i) PROVE SoundAfter
  BY <1>4, SoundIssue, SoundWriteback
<1>5. ASSUME NEW shape, Rename(shape) PROVE SoundAfter
  BY <1>5, SoundRename
<1>6. ASSUME NEW k \in 0 .. Len(insts), Squash(k) PROVE SoundAfter
  BY <1>6, SoundSquash
<1>7. ASSUME NEW k \in SeqNums, ProcessFault(k) PROVE SoundAfter
  BY <1>7, SoundFault
<1>8. CASE Insert \/ Commit
  BY <1>8, SoundInsert, SoundCommit
<1> QED
  BY <1>1, <1>2, <1>3, <1>4, <1>5, <1>6, <1>7, <1>8 DEF Next

\* The mode of a simulation is fixed, and a failed assertion ends it.
LEMMA Stopped ==
  ASSUME [Next]_vars
  PROVE  mode' = mode /\ (panic # "none" => UNCHANGED vars)
<1>1. ASSUME NEW shape, Rename(shape) PROVE mode' = mode /\ panic = "none"
  BY <1>1 DEF Rename, Running
<1>2. CASE Insert
  BY <1>2 DEF Insert, InsertInst, Running
<1>3. ASSUME NEW i, Issue(i) \/ Writeback(i) PROVE mode' = mode /\ panic = "none"
  BY <1>3 DEF Issue, Writeback, Running
<1>4. CASE WakeStep
  BY <1>4 DEF WakeStep, WakeDeferred, WakeFirst, WakeSkip, WakeMark, WakeEnd
<1>5. CASE Commit
  BY <1>5 DEF Commit, Running
<1>6. ASSUME NEW k, Squash(k) \/ ProcessFault(k) PROVE mode' = mode /\ panic = "none"
  BY <1>6 DEF Squash, ProcessFault, Running
<1>7. CASE SquashStep
  BY <1>7 DEF SquashStep, SquashSource, SquashInst
<1>8. CASE UNCHANGED vars
  BY <1>8 DEF vars
<1> QED
  BY <1>1, <1>2, <1>3, <1>4, <1>5, <1>6, <1>7, <1>8 DEF Next

\* The inductive invariant holds when the simulation starts ...
LEMMA InitInv ==
  ASSUME Init
  PROVE  IQInv
<1>1. IQType /\ Owners /\ InOrderDispatch
  BY TypeInit, OwnersInit
<1>2. /\ Live = {} /\ Writers = {} /\ Renamed = {} /\ panic = "none"
      /\ wk = NoWake /\ pending = <<>> /\ scoreboard = PhysRegs /\ regScoreboard = PhysRegs
      /\ \A p \in Regs : chain[p] = <<>>
  BY DEF Init, Live, Writers, Renamed, Regs
<1>3. wk.stage = "none" /\ wk.dep = NoInst /\ wk.requeued = FALSE
  BY <1>2 DEF NoWake
<1>4. Chains
  <2>1. \A p \in regScoreboard : Len(chain[p]) <= 1
    BY <1>2 DEF Regs
  <2> QED
    BY <2>1, <1>2, <1>3 DEF Chains, ShortChains, DrainedUnlessRequeued
<1>5. SourcesProduced
  <2>1. \A p \in Mapped : p \in scoreboard
    BY <1>1, <1>2, TypeUses DEF Mapped
  <2> QED
    BY <2>1, <1>2 DEF SourcesProduced, Produced
<1>6. ChainLive
  BY <1>2, <1>3 DEF ChainLive
<1>7. WritesPending /\ MarkedReady /\ SkidCount /\ IssueReady /\ ReadyOnce /\ Waiting
  BY <1>2 DEF WritesPending, MarkedReady, SkidCount, IssueReady, ReadyOnce, Waiting
<1>8. DepGraphSound
  BY <1>2 DEF DepGraphSound
<1> QED
  BY <1>1, <1>4, <1>5, <1>6, <1>7, <1>8 DEF IQInv, Owners, Chains, ReadyInv, ReadySound

\* ... and every step keeps it.
LEMMA NextInv ==
  ASSUME IQInv, [Next]_vars
  PROVE  IQInv'
<1>1. IQType /\ Owners /\ InOrderDispatch /\ Chains /\ ReadyInv /\ DepGraphSound /\ IssueReady
  BY DEF IQInv, Owners, Chains
<1>2. IQType'
  BY <1>1, TypeNext DEF Owners
<1>3. Owners' /\ InOrderDispatch' /\ Chains'
  BY <1>1, <1>2, OwnersNext, InOrderNext, ChainsNext
<1>4. mode' = mode /\ (panic # "none" => UNCHANGED vars)
  BY Stopped
<1>5. ReadyInv' /\ DepGraphSound' /\ IssueReady'
  <2>1. CASE mode = "wake_phase"
    BY <2>1, <1>4 DEF ReadyInv, DepGraphSound, IssueReady
  <2>2. CASE panic # "none"
    <3>1. /\ panic' = panic /\ mode' = mode /\ Live' = Live
          /\ insts' = insts /\ regScoreboard' = regScoreboard
          /\ \A i : Sources(i)' = Sources(i)
      BY <2>2, <1>4 DEF vars, Live, Sources
    <3> QED
      BY <2>2, <3>1, <1>1 DEF ReadyInv, DepGraphSound, IssueReady
  <2>3. CASE mode # "wake_phase" /\ panic = "none"
    <3>1. Sound
      BY <2>3, <1>1 DEF Sound, Base, ReadyInv
    <3>2. SoundAfter
      BY <3>1, <1>2, SoundNext
    <3> QED
      BY <3>2 DEF SoundAfter, ReadyInv
  <2> QED
    BY <2>1, <2>2, <2>3
<1> QED
  BY <1>2, <1>3, <1>5 DEF IQInv, Owners, Chains

\* The inductive invariant, for every program, size, mode and budget: the
\* types, who owns which physical register, what wakeDependents leaves in a
\* chain, and that each chain holds an instruction once for every source it
\* still waits for.
THEOREM IQInvariance == Spec => []IQInv
<1>1. Init => IQInv
  BY InitInv
<1>2. IQInv /\ [Next]_vars => IQInv'
  BY NextInv
<1> QED
  BY <1>1, <1>2, PTL DEF Spec

\* No fault mode but wake_phase lets scheduleReadyInsts issue an instruction
\* before the producers of all its sources have written back.
THEOREM IssueReadyAlways == Spec => []IssueReady
<1>1. IQInv => IssueReady
  BY DEF IQInv
<1> QED
  BY <1>1, IQInvariance, PTL

\* Without faults in the wake path no wakeup is lost between rename, dispatch
\* and writeback.
THEOREM NoLostWakeupAlways == Spec => []NoLostWakeup
<1>1. IQInv => NoLostWakeup
  <2> SUFFICES ASSUME IQInv, mode \in {"off", "tag_sub"}, Running,
                      NEW i \in Live, insts[i].st = "iq", ~insts[i].canIssue
               PROVE  Sources(i) \cap (PhysRegs \ regScoreboard) # {}
    BY DEF NoLostWakeup
  <2>1. Sound
    BY DEF IQInv, Sound, Base, ReadyInv, Running, Owners, Chains
  <2>2. IQType /\ Waiting
    BY <2>1, SoundParts
  <2>3. PICK W \in SUBSET Unmarked(i) : WaitsFor(i, W)
    BY <2>2 DEF Waiting
  <2>4. W # {}
    BY <2>1, <2>3, RunningFacts DEF WaitsFor
  <2>5. PICK k \in W : insts[i].srcs[k] \notin regScoreboard
    BY <2>3, <2>4 DEF WaitsFor
  <2>6. insts[i].srcs[k] \in Sources(i) /\ insts[i].srcs[k] \in PhysRegs
    BY <2>2, <2>5, UnmarkedReg
  <2> QED
    BY <2>5, <2>6
<1> QED
  BY <1>1, IQInvariance, PTL

\* A call of wakeDependents leaves at most one dependent of a ready register
\* behind, whatever the budget of wake_omit.
THEOREM OmitKeepsOneAlways == Spec => []OmitKeepsOne
<1>1. IQInv => OmitKeepsOne
  <2> SUFFICES ASSUME IQInv, mode # "wake_phase", Running, NEW p \in regScoreboard
               PROVE  Len(chain[p]) <= 1
    BY DEF OmitKeepsOne
  <2>1. WakingReg = NoReg
    BY DEF Running, NoWake, WakingReg
  <2>2. p # NoReg
    BY Numbers DEF IQInv, IQType
  <2> QED
    BY <2>1, <2>2 DEF IQInv, ShortChains
<1> QED
  BY <1>1, IQInvariance, PTL

\* The assertions of the dependency graph: none fails without wake faults, and
\* under wake_omit the one that may fail is the search of remove.
THEOREM DepGraphSoundAlways == Spec => []DepGraphSound
<1>1. IQInv => DepGraphSound
  BY DEF IQInv
<1> QED
  BY <1>1, IQInvariance, PTL
=============================================================================
