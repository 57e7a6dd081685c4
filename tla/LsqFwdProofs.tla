---------------------------- MODULE LsqFwdProofs ----------------------------
(***************************************************************************)
(* Proofs about LsqFwd, for programs of any length, any sizes and any      *)
(* overlaps: without faults every committed load has the right bytes, and  *)
(* with them no more committed loads are wrong than faults were counted.   *)
(*                                                                         *)
(* Both say nothing of a load that has executed and not committed, so they *)
(* are not inductive.  LsqInv states where the bytes of such a load come   *)
(* from, faults apart (Provenance), where those of the cache come from     *)
(* (MemTracks), and the two orders that make both stable: commit and       *)
(* write-back order.                                                       *)
(***************************************************************************)
EXTENDS LsqFwd, FiniteSetTheorems, WellFoundedInduction, NaturalsInduction, TLAPS

States == {"wait", "stalled", "exec", "committed", "written"}
Op == [kind : {"load", "store"}, addr : Nat, size : Nat \ {0}]

\* The part of the state the argument is about.
LsqType ==
    /\ prog \in Seq(Op)
    /\ \A i \in Insts : BytesOf(i) \subseteq Bytes
    /\ st \in [Insts -> States]
    /\ \A i \in Insts : st[i] = "written" => IsStore(i)
    /\ \A i \in Insts : st[i] = "stalled" => IsLoad(i)
    /\ DOMAIN val = Insts
    /\ DOMAIN mem = Bytes

\* Nothing commits before everything older has.
CommitOrder ==
    \A j \in Insts : st[j] \in {"committed", "written"} =>
        \A i \in 1 .. j - 1 : st[i] \in {"committed", "written"}

\* No store reaches the cache before every older one has.
WriteOrder ==
    \A j \in Insts : st[j] = "written" =>
        \A i \in 1 .. j - 1 : IsStore(i) => st[i] = "written"

\* A byte of the cache is that of the latest store written to it.
WrittenTo(b) == {i \in Insts : st[i] = "written" /\ b \in BytesOf(i)}
MemFrom(b, w) ==
    /\ mem[b] = <<w, b>>
    /\ w = 0 \/ w \in WrittenTo(b)
    /\ \A i \in WrittenTo(b) : i <= w
MemTracks == \A b \in Bytes : \E w \in Nat : MemFrom(b, w)

\* A byte of an executed load is that of an older store, or the first
\* contents, and the stores in between that it missed have not executed.
ByteAt(l, n) == prog[l].addr + n - 1
From(l, b, w) ==
    /\ w = 0 \/ w \in Writers(l, b)
    /\ \A i \in Writers(l, b) : i > w => st[i] = "wait"
Sourced(l) ==
    /\ val[l] = [n \in 1 .. prog[l].size |-> val[l][n]]
    /\ \A n \in 1 .. prog[l].size :
          \E w \in Nat : /\ val[l][n] = <<w, ByteAt(l, n)>>
                         /\ From(l, ByteAt(l, n), w)
\* The loads whose bytes do not, and each has cost a fault.
Astray == {l \in Insts : /\ IsLoad(l) /\ st[l] \in {"exec", "committed"}
                         /\ ~Sourced(l)}
Provenance == Cardinality(Astray) <= subs + hits

\* The counters of CHAOSLSQFwd, which stay 0 when it is not mounted.
FaultsCounted ==
    /\ subs \in Nat /\ hits \in Nat
    /\ subs + hits <= MaxFaults
    /\ mode = "off" => subs = 0 /\ hits = 0

LsqInv == /\ LsqType /\ CommitOrder /\ WriteOrder /\ MemTracks
          /\ Provenance /\ FaultsCounted

----------------------------------------------------------------------------
\* A nonempty set of naturals has a least element.
LEMMA LeastExists ==
  ASSUME NEW S \in SUBSET Nat, S # {}
  PROVE  \E m \in S : \A k \in S : m <= k
<1> DEFINE R == {ss \in Nat \X Nat : ss[1] < ss[2]}
<1>1. IsWellFoundedOn(R, Nat)
  BY NatLessThanWellFounded, Zenon DEF OpToRel
<1>2. PICK m \in S : \A y \in S : ~(<<y, m>> \in R)
  <2> HIDE DEF R
  <2> QED
    BY <1>1, WFMin, Zenon
<1>3. \A y \in S : ~(y < m)
  BY <1>2
<1> QED
  BY <1>3

\* A nonempty set of numbers below a bound has a greatest element, which is
\* what Youngest chooses.
LEMMA YoungestMax ==
  ASSUME NEW k \in Nat, NEW S \in SUBSET (1 .. k), S # {}
  PROVE  Youngest(S) \in S /\ \A j \in S : j <= Youngest(S)
<1> DEFINE T == {x \in 0 .. k : k - x \in S}
<1>1. T \in SUBSET Nat
  OBVIOUS
<1>2. \A j \in S : k - j \in T
  <2> SUFFICES ASSUME NEW j \in S PROVE k - j \in T
    OBVIOUS
  <2>1. k - (k - j) = j /\ k - j \in 0 .. k
    OBVIOUS
  <2> QED
    BY <2>1
<1>3. T # {}
  BY <1>2
<1>4. PICK m \in T : \A y \in T : m <= y
  <2> HIDE DEF T
  <2> QED
    BY <1>1, <1>3, LeastExists
<1>5. k - m \in S /\ \A j \in S : j <= k - m
  <2> SUFFICES ASSUME NEW j \in S PROVE j <= k - m
    BY <1>4
  <2>1. m \in Nat /\ j \in Nat
    BY <1>1
  <2> HIDE DEF T
  <2>2. m <= k - j
    BY <1>2, <1>4
  <2> QED
    BY <2>1, <2>2
<1> QED
  BY <1>5 DEF Youngest

\* What the type says of one instruction.
LEMMA InstType ==
  ASSUME LsqType, NEW i \in Insts
  PROVE  /\ i \in Nat /\ i >= 1
         /\ \A j \in 1 .. i - 1 : j \in Insts
         /\ prog[i].kind \in {"load", "store"}
         /\ prog[i].addr \in Nat /\ prog[i].size \in Nat /\ prog[i].size >= 1
<1>1. Insts = 1 .. Len(prog) /\ Len(prog) \in Nat /\ prog[i] \in Op
  BY DEF LsqType, Insts
<1> QED
  BY <1>1 DEF Op

\* A store that covers a load completely has all of its bytes ...
LEMMA FullCovers ==
  ASSUME LsqType, NEW i \in Insts, NEW l \in Insts, Coverage(i, l) = "full"
  PROVE  BytesOf(l) \subseteq BytesOf(i)
BY InstType DEF Coverage, BytesOf

\* ... and one that shares a byte with it is noticed.
LEMMA SharedIsHit ==
  ASSUME LsqType, NEW i \in Insts, NEW l \in Insts,
         NEW b \in BytesOf(i), b \in BytesOf(l)
  PROVE  Coverage(i, l) # "none"
<1>1. /\ prog[i].addr \in Nat /\ prog[i].size \in Nat
      /\ prog[l].addr \in Nat /\ prog[l].size \in Nat
  BY InstType
<1>2. /\ b \in Int /\ prog[i].addr <= b /\ b < prog[i].addr + prog[i].size
      /\ prog[l].addr <= b /\ b < prog[l].addr + prog[l].size
  BY <1>1 DEF BytesOf
<1> QED
  BY <1>1, <1>2 DEF Coverage

\* The bytes of a load, by position.
LEMMA BytePosition ==
  ASSUME LsqType, NEW l \in Insts, NEW n \in 1 .. prog[l].size
  PROVE  ByteAt(l, n) \in BytesOf(l) /\ ByteAt(l, n) \in Bytes
<1>1. ByteAt(l, n) \in BytesOf(l)
  BY InstType DEF ByteAt, BytesOf
<1> QED
  BY <1>1 DEF LsqType

LEMMA CountsAdd ==
  /\ FaultsCounted => subs + hits \in Nat
  /\ FaultsCounted' => subs' + hits' \in Nat
BY DEF FaultsCounted

\* How a step keeps the count: no load goes astray, or one does and a fault is
\* counted.
LEMMA AstrayStep ==
  ASSUME LsqInv, FaultsCounted', UNCHANGED prog, NEW l,
         \/ Astray' \subseteq Astray /\ subs' + hits' >= subs + hits
         \/ Astray' \subseteq Astray \cup {l} /\ subs' + hits' >= subs + hits + 1
  PROVE  Provenance'
<1>1. /\ subs + hits \in Nat /\ subs' + hits' \in Nat
      /\ Cardinality(Astray) <= subs + hits
  <2>2. Cardinality(Astray) <= subs + hits
    BY Zenon DEF LsqInv, Provenance
  <2>3. subs + hits \in Nat /\ subs' + hits' \in Nat
    BY CountsAdd, Zenon DEF LsqInv
  <2> QED
    BY <2>2, <2>3
<1>2. IsFiniteSet(Insts) /\ Insts' = Insts
  <2>1. Insts = 1 .. Len(prog) /\ Len(prog) \in Nat
    BY DEF LsqInv, LsqType, Insts
  <2> QED
    BY <2>1, FS_Interval DEF Insts
<1>3. IsFiniteSet(Astray) /\ IsFiniteSet(Astray')
  BY <1>2, FS_Subset DEF Astray
<1>4. Cardinality(Astray) \in Nat /\ Cardinality(Astray') \in Nat
  BY <1>3, FS_CardinalityType
<1>5. CASE Astray' \subseteq Astray /\ subs' + hits' >= subs + hits
  <2>1. Cardinality(Astray') <= Cardinality(Astray)
    BY <1>3, <1>5, FS_Subset
  <2> QED
    BY <1>1, <1>4, <1>5, <2>1 DEF Provenance
<1>6. CASE Astray' \subseteq Astray \cup {l} /\ subs' + hits' >= subs + hits + 1
  <2>1. /\ IsFiniteSet(Astray \cup {l})
        /\ Cardinality(Astray \cup {l}) = IF l \in Astray THEN Cardinality(Astray)
                                          ELSE Cardinality(Astray) + 1
    BY <1>3, FS_AddElement
  <2>2. Cardinality(Astray') <= Cardinality(Astray \cup {l})
    BY <1>6, <2>1, FS_Subset
  <2> QED
    BY <1>1, <1>4, <1>6, <2>1, <2>2 DEF Provenance
<1> QED
  BY <1>5, <1>6

----------------------------------------------------------------------------
\* The invariant holds initially.
LEMMA InitLsqInv == Init => LsqInv
<1> SUFFICES ASSUME Init PROVE LsqInv
  OBVIOUS
<1>1. LsqType
  BY LsqAssumption DEF Init, LsqType, States, Insts, BytesOf, Op
<1>2. \A i \in Insts : st[i] = "wait"
  BY DEF Init, Insts
<1>3. CommitOrder /\ WriteOrder
  BY <1>2 DEF CommitOrder, WriteOrder
<1>5. FaultsCounted /\ Provenance
  <2>1. Astray = {}
    BY <1>2 DEF Astray
  <2> QED
    BY <2>1, FS_EmptySet, LsqAssumption DEF Init, FaultsCounted, Provenance
<1>4. MemTracks
  <2> SUFFICES ASSUME NEW b \in Bytes PROVE MemFrom(b, 0)
    BY DEF MemTracks
  <2> QED
    BY <1>2 DEF Init, MemFrom, WrittenTo
<1> QED
  BY <1>1, <1>3, <1>4, <1>5 DEF LsqInv

\* A load that was waiting gets data of known provenance.
LEMMA LoadGets ==
  ASSUME LsqInv, NEW l \in Insts, IsLoad(l), st[l] = "wait", NEW D,
         UNCHANGED <<prog, mode, mem>>,
         st' = [st EXCEPT ![l] = "exec"],
         val' = [val EXCEPT ![l] = D],
         FaultsCounted', subs' + hits' >= subs + hits,
         \/ subs' + hits' >= subs + hits + 1
         \/ /\ D = [n \in 1 .. prog[l].size |-> D[n]]
            /\ \A n \in 1 .. prog[l].size :
                 \E w \in Nat : /\ D[n] = <<w, ByteAt(l, n)>>
                                /\ From(l, ByteAt(l, n), w)
  PROVE  LsqInv'
<1> USE DEF LsqInv
<1>1. LsqType'
  BY DEF LsqType, States, Insts, BytesOf, IsStore, IsLoad
<1>2. \A i \in Insts : i # l => st'[i] = st[i]
  BY DEF LsqType
<1>3. st'[l] = "exec" /\ Insts' = Insts
  BY DEF LsqType, Insts
<1>4. CommitOrder'
  BY <1>2, <1>3, InstType DEF CommitOrder
<1>5. WriteOrder'
  BY <1>2, <1>3, InstType DEF WriteOrder, IsStore, IsLoad
<1>6. \A b : WrittenTo(b)' = WrittenTo(b)
  BY <1>2, <1>3 DEF WrittenTo, BytesOf
<1>7. MemTracks'
  BY <1>6 DEF MemTracks, MemFrom
<1>8. \A k \in Insts, b \in Bytes, w \in Nat : From(k, b, w) => From(k, b, w)'
  <2> SUFFICES ASSUME NEW k \in Insts, NEW b \in Bytes, NEW w \in Nat,
                      From(k, b, w)
               PROVE  From(k, b, w)'
    OBVIOUS
  <2>1. Writers(k, b)' = Writers(k, b)
    BY DEF Writers, IsStore, BytesOf
  <2>2. \A i \in Writers(k, b) : i \in Insts /\ i # l
    BY InstType DEF Writers, IsStore, IsLoad
  <2> QED
    BY <1>2, <2>1, <2>2 DEF From
<1>9. ASSUME NEW k \in Insts, k # l, IsLoad(k), st'[k] \in {"exec", "committed"},
             k \notin Astray
      PROVE  Sourced(k)'
  <2>1. val'[k] = val[k] /\ Sourced(k)
    BY <1>2, <1>9 DEF LsqType, Astray
  <2> QED
    BY <1>8, <2>1, BytePosition DEF Sourced, ByteAt
<1>10. Astray' \subseteq Astray \cup {l}
  BY <1>3, <1>9 DEF Astray, IsLoad
<1>11. Provenance'
  <2>1. CASE subs' + hits' >= subs + hits + 1
    BY <1>10, <2>1, AstrayStep
  <2>2. CASE /\ D = [n \in 1 .. prog[l].size |-> D[n]]
             /\ \A n \in 1 .. prog[l].size :
                   \E w \in Nat : D[n] = <<w, ByteAt(l, n)>> /\ From(l, ByteAt(l, n), w)
    <3>1. val'[l] = D
      BY DEF LsqType
    <3>2. Sourced(l)'
      BY <1>8, <2>2, <3>1, BytePosition DEF Sourced, ByteAt
    <3>3. Astray' \subseteq Astray
      BY <1>10, <3>2 DEF Astray
    <3> QED
      BY <3>3, AstrayStep
  <2> QED
    BY <2>1, <2>2
<1> QED
  BY <1>1, <1>4, <1>5, <1>7, <1>11

\* An older store that shares a byte with a load that waits is written before
\* every store still in the queue, or in the queue, or has not executed.
LEMMA OlderStores ==
  ASSUME LsqInv, NEW l \in Insts, NEW b \in BytesOf(l), NEW i \in Writers(l, b)
  PROVE  /\ i \in Insts /\ i < l /\ IsStore(i) /\ b \in BytesOf(i)
         /\ \/ st[i] = "written" /\ i \in WrittenTo(b)
            \/ i \in Hits(l)
            \/ st[i] = "wait"
<1>1. i \in Insts /\ i \in 1 .. l - 1 /\ i < l /\ IsStore(i) /\ b \in BytesOf(i)
  BY InstType DEF LsqInv, Writers
<1>2. st[i] \in States /\ st[i] # "stalled"
  BY <1>1 DEF LsqInv, LsqType, IsStore, IsLoad
<1>3. CASE st[i] \in {"exec", "committed"}
  BY <1>1, <1>3, SharedIsHit DEF LsqInv, Hits, InQueue
<1> QED
  BY <1>1, <1>2, <1>3 DEF States, WrittenTo

\* The cache answers a load that no store of the queue concerns.
LEMMA ReadCacheInv ==
  ASSUME LsqInv, NEW l \in Insts, IsLoad(l), st[l] = "wait",
         Hits(l) = {}, ReadCache(l)
  PROVE  LsqInv'
<1> DEFINE D == [n \in 1 .. prog[l].size |-> mem[ByteAt(l, n)]]
<1>1. ASSUME NEW n \in 1 .. prog[l].size
      PROVE  \E w \in Nat : D[n] = <<w, ByteAt(l, n)>> /\ From(l, ByteAt(l, n), w)
  <2> DEFINE b == ByteAt(l, n)
  <2>1. b \in BytesOf(l) /\ b \in Bytes
    BY BytePosition DEF LsqInv
  <2>2. PICK w \in Nat : MemFrom(b, w)
    BY <2>1 DEF LsqInv, MemTracks
  <2> HIDE DEF b
  <2>3. w = 0 \/ w \in Writers(l, b)
    <3> SUFFICES ASSUME w \in WrittenTo(b) PROVE w \in Writers(l, b)
      BY <2>2 DEF MemFrom
    <3>1. w \in Insts /\ st[w] = "written" /\ IsStore(w) /\ b \in BytesOf(w)
      BY DEF WrittenTo, LsqInv, LsqType
    <3>2. l \in Nat /\ w \in Nat /\ l >= 1 /\ LsqType
      BY <3>1, InstType DEF LsqInv
    <3>3. ~(l \in 1 .. w - 1)
      BY <3>1 DEF LsqInv, CommitOrder
    <3>4. l # w
      BY <3>1
    <3> QED
      BY <3>1, <3>2, <3>3, <3>4, InstType DEF Writers
  <2>4. \A i \in Writers(l, b) : i > w => st[i] = "wait"
    <3> SUFFICES ASSUME NEW i \in Writers(l, b), i > w PROVE st[i] = "wait"
      OBVIOUS
    <3>1. i \in Insts /\ (i \in WrittenTo(b) \/ st[i] = "wait")
      BY <2>1, OlderStores
    <3>2. i \in WrittenTo(b) => i <= w
      BY <2>2 DEF MemFrom
    <3> QED
      BY <3>1, <3>2, InstType DEF LsqInv
  <2> QED
    BY <2>2, <2>3, <2>4 DEF From, MemFrom, b
<1>2. val' = [val EXCEPT ![l] = D]
  BY DEF ReadCache, ByteAt
<1>3. D = [n \in 1 .. prog[l].size |-> D[n]]
  OBVIOUS
<1>4. FaultsCounted' /\ subs' + hits' >= subs + hits
  BY DEF ReadCache, LsqInv, FaultsCounted
<1> HIDE DEF D
<1> QED
  BY <1>1, <1>2, <1>3, <1>4, LoadGets DEF ReadCache

\* Forwarding, which passes on the store's own data or counts a fault.
LEMMA ForwardInv ==
  ASSUME LsqInv, NEW l \in Insts, IsLoad(l), st[l] = "wait", Hits(l) # {},
         NEW i, i = Youngest(Hits(l)), Coverage(i, l) = "full", Forward(i, l)
  PROVE  LsqInv'
<1>1. Hits(l) \in SUBSET (1 .. l - 1) /\ l - 1 \in Nat
  BY InstType DEF LsqInv, Hits, InQueue
<1>2. i \in Hits(l) /\ \A j \in Hits(l) : j <= i
  BY <1>1, YoungestMax
<1>3. /\ i \in Insts /\ i < l /\ i \in Nat /\ IsStore(i)
      /\ st[i] \in {"exec", "committed"}
  BY <1>1, <1>2, InstType DEF LsqInv, Hits, InQueue
<1>4. PICK D : /\ val' = [val EXCEPT ![l] = D]
               /\ FaultsCounted' /\ subs' + hits' >= subs + hits
               /\ D = StoreData(i, l) \/ subs' + hits' >= subs + hits + 1
  <2>0. /\ subs \in Nat /\ hits \in Nat /\ MaxFaults \in Nat /\ mode' = mode
        /\ subs + hits <= MaxFaults /\ (mode = "off" => subs = 0 /\ hits = 0)
    BY LsqAssumption DEF LsqInv, FaultsCounted, Forward
  <2>1. PICK data, s, out :
          /\ \/ data = StoreData(i, l) /\ s = subs
             \/ mode \in SourceFaults /\ Armed /\ s = subs + 1
          /\ out \in CorruptHook(data, s)
          /\ subs' = s /\ hits' = out.hits /\ val' = [val EXCEPT ![l] = out.data]
    <3> DEFINE cur == StoreData(i, l)
               h == Recorded(cur)
               stale == LongEnough(h, Len(cur))
               other == [data |-> SubSeq(h[Latest(stale)], 1, Len(cur)), subs |-> subs + 1]
    <3>1. PICK picked \in {[data |-> cur, subs |-> subs]} \cup
                 IF mode \in SourceFaults /\ Armed /\ stale # {} THEN {other} ELSE {} :
             \E out \in CorruptHook(picked.data, picked.subs) :
                /\ subs' = picked.subs
                /\ hits' = out.hits
                /\ val' = [val EXCEPT ![l] = out.data]
      BY Zenon DEF Forward
    <3>2. \/ picked.data = cur /\ picked.subs = subs
          \/ mode \in SourceFaults /\ Armed /\ picked.subs = subs + 1
      <4> HIDE DEF cur, stale
      <4> QED
        BY <3>1
    <3> HIDE DEF cur, h, stale, other
    <3> QED
      BY <3>1, <3>2 DEF cur
  <2>2. \/ out = [data |-> data, hits |-> hits]
        \/ mode # "off" /\ s + hits < MaxFaults /\ out.hits = hits + 1
    BY <2>1 DEF CorruptHook
  <2>3. mode \in SourceFaults => mode # "off"
    BY DEF SourceFaults
  <2>4. FaultsCounted'
    BY <2>0, <2>1, <2>2, <2>3 DEF FaultsCounted, Armed
  <2>5. /\ subs' + hits' >= subs + hits
        /\ out.data = StoreData(i, l) \/ subs' + hits' >= subs + hits + 1
    BY <2>0, <2>1, <2>2
  <2> QED
    BY <2>1, <2>4, <2>5
<1>5. ASSUME NEW n \in 1 .. prog[l].size PROVE From(l, ByteAt(l, n), i)
  <2> DEFINE b == ByteAt(l, n)
  <2>1. b \in BytesOf(l) /\ b \in BytesOf(i)
    BY <1>3, BytePosition, FullCovers DEF LsqInv
  <2> HIDE DEF b
  <2>2. i \in Writers(l, b)
    BY <1>1, <1>2, <1>3, <2>1 DEF Writers
  <2>3. ASSUME NEW j \in Writers(l, b), j > i PROVE st[j] = "wait"
    <3>1. /\ j \in Insts
          /\ st[j] = "written" \/ j \in Hits(l) \/ st[j] = "wait"
      BY <2>1, OlderStores
    <3>2. j \in Nat /\ i >= 1
      BY <1>3, <3>1, InstType DEF LsqInv
    <3>3. st[j] # "written"
      <4>1. i \in 1 .. j - 1
        BY <1>3, <2>3, <3>2
      <4> QED
        BY <1>3, <3>1, <4>1 DEF LsqInv, WriteOrder
    <3>4. j \notin Hits(l)
      BY <1>2, <1>3, <2>3, <3>2
    <3> QED
      BY <3>1, <3>3, <3>4
  <2> QED
    BY <2>2, <2>3 DEF From, b
<1>6. D = StoreData(i, l) =>
        /\ D = [n \in 1 .. prog[l].size |-> D[n]]
        /\ \A n \in 1 .. prog[l].size : D[n] = <<i, ByteAt(l, n)>>
  BY DEF StoreData, ByteAt
<1> QED
  BY <1>3, <1>4, <1>5, <1>6, LoadGets DEF Forward

\* A partly covered load waits.
LEMMA StallInv ==
  ASSUME LsqInv, NEW l \in Insts, IsLoad(l), st[l] = "wait", NEW i, Stall(i, l)
  PROVE  LsqInv'
<1> USE DEF LsqInv, Stall
<1>1. LsqType'
  BY DEF LsqType, States, Insts, BytesOf, IsStore, IsLoad
<1>2. \A j \in Insts : j # l => st'[j] = st[j]
  BY DEF LsqType
<1>3. st'[l] = "stalled" /\ Insts' = Insts
  BY DEF LsqType, Insts
<1>4. CommitOrder'
  BY <1>2, <1>3, InstType DEF CommitOrder
<1>5. WriteOrder'
  BY <1>2, <1>3, InstType DEF WriteOrder, IsStore, IsLoad
<1>6. \A b : WrittenTo(b)' = WrittenTo(b)
  BY <1>2, <1>3 DEF WrittenTo, BytesOf
<1>7. MemTracks'
  BY <1>6 DEF MemTracks, MemFrom
<1>8. \A k \in Insts, b \in Bytes, w \in Nat : From(k, b, w) => From(k, b, w)'
  <2> SUFFICES ASSUME NEW k \in Insts, NEW b \in Bytes, NEW w \in Nat,
                      From(k, b, w)
               PROVE  From(k, b, w)'
    OBVIOUS
  <2>1. Writers(k, b)' = Writers(k, b)
    BY DEF Writers, IsStore, BytesOf
  <2>2. \A j \in Writers(k, b) : j \in Insts /\ j # l
    BY InstType DEF Writers, IsStore, IsLoad
  <2> QED
    BY <1>2, <2>1, <2>2 DEF From
<1>9. ASSUME NEW k \in Insts, IsLoad(k), st'[k] \in {"exec", "committed"},
             k \notin Astray
      PROVE  Sourced(k)'
  <2>1. k # l /\ Sourced(k)
    BY <1>2, <1>3, <1>9 DEF Astray
  <2> QED
    BY <1>8, <2>1, BytePosition DEF Sourced, ByteAt
<1>10. FaultsCounted' /\ subs' + hits' >= subs + hits
  BY DEF FaultsCounted
<1>11. Provenance'
  <2>1. Astray' \subseteq Astray
    BY <1>3, <1>9 DEF Astray, IsLoad
  <2> QED
    BY <1>10, <2>1, AstrayStep
<1> QED
  BY <1>1, <1>4, <1>5, <1>7, <1>10, <1>11

\* A store executes: the younger loads that missed it are squashed, so the
\* executed ones that are left did not need it.
LEMMA ExecuteStoreInv ==
  ASSUME LsqInv, NEW i \in Insts, ExecuteStore(i)
  PROVE  LsqInv'
<1> DEFINE v == Violators(i)
           oldest == CHOOSE l \in v : \A k \in v : l <= k
           squashed == {j \in Insts : v # {} /\ j >= oldest}
<1>1. /\ IsStore(i) /\ st[i] = "wait"
      /\ UNCHANGED <<prog, mode, mem>>
      /\ st' = [j \in Insts |-> IF j = i THEN "exec"
                                ELSE IF j \in squashed THEN "wait" ELSE st[j]]
      /\ val' = [j \in Insts |-> IF j \in squashed THEN <<>> ELSE val[j]]
  BY DEF ExecuteStore
<1>2. v # {} => oldest \in v /\ \A k \in v : oldest <= k
  <2> SUFFICES ASSUME v # {} PROVE \E l \in v : \A k \in v : l <= k
    OBVIOUS
  <2>1. v \in SUBSET Nat
    BY InstType DEF Violators, LsqInv
  <2> HIDE DEF v
  <2> QED
    BY <2>1, LeastExists
<1>3. \A j \in squashed : j > i /\ j # i /\ st[j] \notin {"committed", "written"}
  <2> SUFFICES ASSUME NEW j \in squashed
               PROVE  j > i /\ j # i /\ st[j] \notin {"committed", "written"}
    OBVIOUS
  <2>1. j \in Insts /\ j \in Nat /\ i \in Nat /\ i >= 1
    BY InstType DEF LsqInv
  <2>2. oldest \in Insts /\ oldest > i /\ oldest \in Nat /\ j >= oldest
    BY <1>2, InstType DEF Violators, LsqInv
  <2>3. i \in 1 .. j - 1
    BY <2>1, <2>2
  <2> QED
    BY <1>1, <2>1, <2>3 DEF LsqInv, CommitOrder
<1> HIDE DEF v, oldest, squashed
<1>4. \A j \in Insts : st'[j] = IF j = i THEN "exec"
                                ELSE IF j \in squashed THEN "wait" ELSE st[j]
  BY <1>1
<1>5. \A j \in Insts : /\ st'[j] = "written" <=> st[j] = "written"
                       /\ st'[j] = "committed" <=> st[j] = "committed"
  BY <1>1, <1>3, <1>4
<1>6. Insts' = Insts
  BY <1>1 DEF Insts
<1>7. LsqType'
  <2>1. st' \in [Insts -> States]
    BY <1>1 DEF LsqInv, LsqType, States
  <2>2. \A j \in Insts : st'[j] = "stalled" => IsLoad(j)
    BY <1>4 DEF LsqInv, LsqType
  <2> QED
    BY <1>1, <1>5, <1>6, <2>1, <2>2
       DEF LsqInv, LsqType, BytesOf, IsStore, IsLoad
<1>8. CommitOrder' /\ WriteOrder'
  BY <1>1, <1>5, <1>6, InstType DEF LsqInv, CommitOrder, WriteOrder, IsStore
<1>9. MemTracks'
  <2>1. \A b : WrittenTo(b)' = WrittenTo(b)
    BY <1>1, <1>5, <1>6 DEF WrittenTo, BytesOf
  <2> QED
    BY <1>1, <2>1 DEF LsqInv, MemTracks, MemFrom
<1>10. ASSUME NEW k \in Insts, IsLoad(k), st'[k] \in {"exec", "committed"},
              k \notin Astray
       PROVE  Sourced(k)'
  <2>1. k # i /\ k \notin squashed /\ st[k] \in {"exec", "committed"}
    BY <1>1, <1>4, <1>10 DEF IsLoad, IsStore
  <2>2. val'[k] = val[k] /\ Sourced(k)
    BY <1>1, <1>10, <2>1 DEF Astray
  <2>3. i < k => \A b \in BytesOf(k) : b \notin BytesOf(i)
    <3> SUFFICES ASSUME i < k, NEW b \in BytesOf(k), b \in BytesOf(i) PROVE FALSE
      OBVIOUS
    <3>1. k \in Nat /\ i \in Nat /\ i >= 1
      BY InstType DEF LsqInv
    <3>2. st[k] = "exec"
      <4>1. i \in 1 .. k - 1
        BY <3>1
      <4> QED
        BY <1>1, <2>1, <4>1 DEF LsqInv, CommitOrder
    <3>3. k \in v
      BY <1>10, <3>1, <3>2 DEF v, Violators
    <3>4. oldest <= k
      BY <1>2, <3>3
    <3>5. oldest \in Nat
      <4>1. oldest \in v
        BY <1>2, <3>3
      <4>2. oldest \in Insts
        BY <4>1 DEF v, Violators
      <4> QED
        BY <4>2, InstType DEF LsqInv
    <3> QED
      BY <2>1, <3>1, <3>3, <3>4, <3>5 DEF squashed
  <2>4. ASSUME NEW b \in BytesOf(k), NEW w \in Nat, From(k, b, w)
        PROVE  From(k, b, w)'
    <3>1. Writers(k, b)' = Writers(k, b)
      BY <1>1 DEF Writers, IsStore, BytesOf
    <3>2. \A j \in Writers(k, b) : j \in Insts /\ j # i
      BY <2>3, InstType DEF Writers, LsqInv
    <3>3. \A j \in Writers(k, b) : st[j] = "wait" => st'[j] = "wait"
      BY <1>4, <3>2
    <3> QED
      BY <2>4, <3>1, <3>3 DEF From
  <2>5. \A n \in 1 .. prog[k].size : ByteAt(k, n) \in BytesOf(k)
    BY BytePosition DEF LsqInv
  <2> QED
    BY <1>1, <2>2, <2>4, <2>5 DEF Sourced, ByteAt
<1>11. FaultsCounted' /\ subs' + hits' >= subs + hits
  BY DEF ExecuteStore, LsqInv, FaultsCounted
<1>12. Provenance'
  <2>1. Astray' \subseteq Astray
    BY <1>1, <1>6, <1>10 DEF Astray, IsLoad
  <2> QED
    BY <1>1, <1>11, <2>1, AstrayStep
<1> QED
  BY <1>7, <1>8, <1>9, <1>11, <1>12 DEF LsqInv

\* Commit and write-back change no state to "wait" but that of stalled loads,
\* and none away from it: provenance is kept.
LEMMA ProvenanceKept ==
  ASSUME LsqInv, UNCHANGED <<prog, mode, val, subs, hits>>,
         \A j \in Insts : IsStore(j) => (st[j] = "wait" => st'[j] = "wait"),
         \A j \in Insts : IsLoad(j) => (st'[j] \in {"exec", "committed"}
                                          => st[j] \in {"exec", "committed"})
  PROVE  Provenance' /\ FaultsCounted'
<1>1. ASSUME NEW k \in Insts, IsLoad(k), st'[k] \in {"exec", "committed"},
             k \notin Astray
      PROVE  Sourced(k)'
  <2>1. Sourced(k)
    BY <1>1 DEF Astray
  <2>2. ASSUME NEW b, NEW w \in Nat, From(k, b, w) PROVE From(k, b, w)'
    <3>1. Writers(k, b)' = Writers(k, b)
      BY DEF Writers, IsStore, BytesOf
    <3>2. \A j \in Writers(k, b) : j \in Insts /\ IsStore(j)
      BY InstType DEF Writers, LsqInv
    <3> QED
      BY <2>2, <3>1, <3>2 DEF From
  <2> QED
    BY <2>1, <2>2 DEF Sourced, ByteAt
<1>2. Astray' \subseteq Astray
  BY <1>1 DEF Astray, IsLoad, Insts
<1>3. FaultsCounted' /\ subs' + hits' >= subs + hits
  BY DEF LsqInv, FaultsCounted
<1> QED
  BY <1>2, <1>3, AstrayStep

\* An instruction commits.
LEMMA CommitInv ==
  ASSUME LsqInv, NEW i \in Insts, Commit(i)
  PROVE  LsqInv'
<1> USE DEF LsqInv, Commit
<1>1. /\ Insts' = Insts /\ st'[i] = "committed" /\ st[i] = "exec"
      /\ \A j \in Insts : j # i => st'[j] = st[j]
  BY DEF LsqType, Insts
<1>2. LsqType'
  BY DEF LsqType, States, Insts, BytesOf, IsStore, IsLoad
<1>3. CommitOrder'
  <2> SUFFICES ASSUME NEW j \in Insts, st'[j] \in {"committed", "written"},
                      NEW k \in 1 .. j - 1
               PROVE  st'[k] \in {"committed", "written"}
    BY <1>1 DEF CommitOrder
  <2>1. k \in Insts
    BY InstType
  <2>2. CASE j = i
    BY <1>1, <2>1, <2>2
  <2>3. CASE j # i
    BY <1>1, <2>1, <2>3 DEF CommitOrder
  <2> QED
    BY <2>2, <2>3
<1>4. WriteOrder'
  BY <1>1, InstType DEF WriteOrder, IsStore
<1>5. \A b : WrittenTo(b)' = WrittenTo(b)
  BY <1>1 DEF WrittenTo, BytesOf
<1>6. MemTracks'
  BY <1>5 DEF MemTracks, MemFrom
<1>7. Provenance' /\ FaultsCounted'
  BY <1>1, ProvenanceKept
<1> QED
  BY <1>2, <1>3, <1>4, <1>6, <1>7

\* A committed store is written, in order; what waited for it is replayed.
LEMMA WriteBackInv ==
  ASSUME LsqInv, NEW i \in Insts, WriteBack(i)
  PROVE  LsqInv'
<1>1. /\ Insts' = Insts /\ UNCHANGED <<prog, mode, val, subs, hits>>
      /\ IsStore(i) /\ st[i] = "committed" /\ st'[i] = "written"
      /\ \A j \in Insts : j # i =>
            st'[j] = st[j] \/ (st[j] = "stalled" /\ st'[j] = "wait")
  BY DEF WriteBack, Insts, Replayed
<1>2. \A j \in 1 .. i - 1 : IsStore(j) => st[j] = "written"
  BY DEF WriteBack
<1>3. mem' = [b \in Bytes |-> IF b \in BytesOf(i) THEN <<i, b>> ELSE mem[b]]
  BY DEF WriteBack
<1>4. LsqType'
  <2>1. st' \in [Insts -> States]
    <3>1. DOMAIN st' = Insts /\ st' = [j \in Insts |-> st'[j]]
      BY DEF WriteBack
    <3>2. \A j \in Insts : st'[j] \in States
      BY <1>1 DEF LsqInv, LsqType, States
    <3> QED
      BY <3>1, <3>2
  <2>2. \A j \in Insts : st'[j] = "written" => IsStore(j)
    BY <1>1 DEF LsqInv, LsqType
  <2>3. \A j \in Insts : st'[j] = "stalled" => IsLoad(j)
    BY <1>1 DEF LsqInv, LsqType
  <2> QED
    BY <1>1, <1>3, <2>1, <2>2, <2>3
       DEF LsqInv, LsqType, BytesOf, IsStore, IsLoad
<1>5. CommitOrder'
  <2> SUFFICES ASSUME NEW j \in Insts, st'[j] \in {"committed", "written"},
                      NEW k \in 1 .. j - 1
               PROVE  st'[k] \in {"committed", "written"}
    BY <1>1 DEF CommitOrder
  <2>1. k \in Insts /\ st[j] \in {"committed", "written"}
    BY <1>1, InstType DEF LsqInv
  <2>2. st[k] \in {"committed", "written"}
    BY <2>1 DEF LsqInv, CommitOrder
  <2> QED
    BY <1>1, <2>1, <2>2
<1>6. WriteOrder'
  <2> SUFFICES ASSUME NEW j \in Insts, st'[j] = "written",
                      NEW k \in 1 .. j - 1, IsStore(k)
               PROVE  st'[k] = "written"
    BY <1>1 DEF WriteOrder, IsStore
  <2>1. k \in Insts
    BY InstType DEF LsqInv
  <2>2. st[k] = "written" \/ k = i
    BY <1>1, <1>2 DEF LsqInv, WriteOrder
  <2> QED
    BY <1>1, <2>1, <2>2
<1>7. MemTracks'
  <2> SUFFICES ASSUME NEW b \in Bytes PROVE \E w \in Nat : MemFrom(b, w)'
    BY DEF MemTracks
  <2>1. WrittenTo(b)' = WrittenTo(b) \cup IF b \in BytesOf(i) THEN {i} ELSE {}
    BY <1>1 DEF WrittenTo, BytesOf
  <2>2. PICK w \in Nat : MemFrom(b, w)
    BY DEF LsqInv, MemTracks
  <2>3. CASE b \in BytesOf(i)
    <3>1. \A j \in WrittenTo(b) : j <= i
      <4> SUFFICES ASSUME NEW j \in WrittenTo(b), ~(j <= i) PROVE FALSE
        OBVIOUS
      <4>1. j \in Insts /\ st[j] = "written"
        BY DEF WrittenTo
      <4>2. j \in Nat /\ i \in Nat /\ i >= 1
        BY <4>1, InstType DEF LsqInv
      <4>3. i \in 1 .. j - 1
        BY <4>2
      <4> QED
        BY <1>1, <4>1, <4>3 DEF LsqInv, WriteOrder
    <3>2. i \in Nat /\ mem'[b] = <<i, b>>
      BY <1>3, <2>3, InstType DEF LsqInv
    <3> QED
      BY <2>1, <2>3, <3>1, <3>2 DEF MemFrom
  <2>4. CASE b \notin BytesOf(i)
    <3>1. mem'[b] = mem[b] /\ WrittenTo(b)' = WrittenTo(b)
      BY <1>3, <2>1, <2>4
    <3> QED
      BY <2>2, <3>1 DEF MemFrom
  <2> QED
    BY <2>3, <2>4
<1>8. Provenance' /\ FaultsCounted'
  <2>1. \A j \in Insts : IsStore(j) => (st[j] = "wait" => st'[j] = "wait")
    BY <1>1
  <2>2. \A j \in Insts : IsLoad(j) => (st'[j] \in {"exec", "committed"}
                                         => st[j] \in {"exec", "committed"})
    BY <1>1 DEF IsLoad, IsStore
  <2> QED
    BY <1>1, <2>1, <2>2, ProvenanceKept
<1> QED
  BY <1>4, <1>5, <1>6, <1>7, <1>8 DEF LsqInv

\* Every step keeps the invariant.
LEMMA NextLsqInv == LsqInv /\ [Next]_vars => LsqInv'
<1> SUFFICES ASSUME LsqInv, [Next]_vars PROVE LsqInv'
  OBVIOUS
<1>1. CASE UNCHANGED vars
  <2>1. UNCHANGED <<prog, mode, st, val, mem, subs, hits>>
    BY <1>1 DEF vars
  <2>2. LsqType'
    BY <2>1 DEF LsqInv, LsqType, Insts, BytesOf, IsStore, IsLoad
  <2>3. CommitOrder' /\ WriteOrder'
    BY <2>1 DEF LsqInv, CommitOrder, WriteOrder, Insts, IsStore
  <2>4. MemTracks'
    BY <2>1 DEF LsqInv, MemTracks, MemFrom, WrittenTo, Insts, BytesOf
  <2>5. Provenance' /\ FaultsCounted'
    BY <2>1, ProvenanceKept
  <2> QED
    BY <2>2, <2>3, <2>4, <2>5 DEF LsqInv
<1>2. ASSUME NEW i \in Insts, ExecuteLoad(i) PROVE LsqInv'
  BY <1>2, ReadCacheInv, ForwardInv, StallInv DEF ExecuteLoad
<1>3. ASSUME NEW i \in Insts, ExecuteStore(i) PROVE LsqInv'
  BY <1>3, ExecuteStoreInv
<1>4. ASSUME NEW i \in Insts, Commit(i) PROVE LsqInv'
  BY <1>4, CommitInv
<1>5. ASSUME NEW i \in Insts, WriteBack(i) PROVE LsqInv'
  BY <1>5, WriteBackInv
<1> QED
  BY <1>1, <1>2, <1>3, <1>4, <1>5 DEF Next

\* When a load commits all older stores have executed, so its bytes are those
\* of the youngest of them, unless a fault led it astray.
LEMMA WrongIsAstray == LsqInv => Wrong \subseteq Astray
<1> SUFFICES ASSUME LsqInv, NEW l \in Insts, IsLoad(l), st[l] = "committed",
                    Sourced(l)
             PROVE  val[l] = Ideal(l)
  BY DEF Wrong, Astray
<1>2. ASSUME NEW n \in 1 .. prog[l].size
      PROVE  val[l][n] = IF Writers(l, ByteAt(l, n)) = {} THEN <<0, ByteAt(l, n)>>
                         ELSE <<Youngest(Writers(l, ByteAt(l, n))), ByteAt(l, n)>>
  <2> DEFINE b == ByteAt(l, n)
             S == Writers(l, b)
  <2>1. PICK w \in Nat : val[l][n] = <<w, b>> /\ From(l, b, w)
    BY DEF Sourced
  <2>2. \A i \in S : i \in Nat /\ i >= 1 /\ i \in 1 .. l - 1
    BY InstType DEF Writers, LsqInv
  <2>3. \A i \in S : st[i] # "wait"
    BY <2>2 DEF LsqInv, CommitOrder
  <2>4. \A i \in S : i <= w
    BY <2>1, <2>2, <2>3 DEF From
  <2>5. S # {} => w \in S
    BY <2>1, <2>2, <2>4 DEF From
  <2>6. S # {} => Youngest(S) = w
    <3> SUFFICES ASSUME S # {} PROVE Youngest(S) = w
      OBVIOUS
    <3>1. S \in SUBSET (1 .. l - 1) /\ l - 1 \in Nat
      BY <2>2, InstType DEF LsqInv
    <3> HIDE DEF S
    <3>2. Youngest(S) \in S /\ \A j \in S : j <= Youngest(S)
      BY <3>1, YoungestMax
    <3> QED
      BY <2>2, <2>4, <2>5, <3>2
  <2>7. S = {} => w = 0
    BY <2>1 DEF From
  <2> QED
    BY <2>1, <2>6, <2>7
<1>3. val[l] = [n \in 1 .. prog[l].size |-> val[l][n]]
  BY DEF Sourced
<1>4. [n \in 1 .. prog[l].size |-> val[l][n]] = Ideal(l)
  BY <1>2 DEF Ideal, ByteAt
<1> QED
  BY <1>3, <1>4

\* The wrong loads are counted with those astray.
LEMMA LsqInvContained == LsqInv => FaultsContained /\ LoadsExact
<1> SUFFICES ASSUME LsqInv PROVE FaultsContained /\ LoadsExact
  OBVIOUS
<1>1. IsFiniteSet(Astray)
  <2>1. Insts = 1 .. Len(prog) /\ Len(prog) \in Nat
    BY DEF LsqInv, LsqType, Insts
  <2>2. IsFiniteSet(Insts)
    BY <2>1, FS_Interval
  <2> QED
    BY <2>2, FS_Subset DEF Astray
<1>2. /\ IsFiniteSet(Wrong) /\ Cardinality(Wrong) <= Cardinality(Astray)
      /\ Cardinality(Wrong) \in Nat /\ Cardinality(Astray) \in Nat
  BY <1>1, WrongIsAstray, FS_Subset, FS_CardinalityType
<1>3. /\ subs \in Nat /\ hits \in Nat /\ Cardinality(Astray) <= subs + hits
      /\ subs + hits <= MaxFaults
  BY DEF LsqInv, FaultsCounted, Provenance
<1>4. FaultsContained
  BY <1>2, <1>3 DEF FaultsContained
<1>5. ASSUME mode = "off" PROVE Wrong = {}
  <2>1. subs = 0 /\ hits = 0
    BY <1>5 DEF LsqInv, FaultsCounted
  <2>2. Cardinality(Wrong) = 0
    BY <1>2, <1>3, <2>1
  <2> QED
    BY <1>2, <2>2, FS_EmptySet
<1> QED
  BY <1>4, <1>5 DEF LoadsExact

\* Without faults every committed load has the bytes of the latest older
\* stores (LSQUnit::read, checkViolations, writebackStores), for every program
\* and every order of execution.
THEOREM ForwardingExact == Spec => []LoadsExact
<1> QED
  BY InitLsqInv, NextLsqInv, LsqInvContained, PTL DEF Spec

\* With CHAOSLSQFwd mounted (pickSource and corrupt, alone or on the same
\* forward), no more committed loads are wrong than faults were counted, and
\* no more are counted than max_faults, however loads are squashed and
\* executed again.
THEOREM ForwardFaultsContained == Spec => []FaultsContained
<1> QED
  BY InitLsqInv, NextLsqInv, LsqInvContained, PTL DEF Spec
=============================================================================
