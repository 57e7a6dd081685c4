--------------------------- MODULE MemFaultsProofs ---------------------------
(***************************************************************************)
(* Proofs about MemFaults for any lines, ways, bytes, programs, fault      *)
(* types, protection models and fault caps: a corrected flip is invisible, *)
(* and each fault damages one address at most.                             *)
(***************************************************************************)
EXTENDS MemFaults, FiniteSetTheorems, TLAPS

Line == [addr : Addrs \cup {None}, data : SUBSET Bits, dirty : BOOLEAN,
         writable : BOOLEAN, readable : BOOLEAN]

\* The types; an empty way is not dirty.
MemType ==
    /\ setup \in SetupType
    /\ cache \in [Ways -> Line]
    /\ \A w \in Ways : cache[w].addr = None => ~cache[w].dirty
    /\ mem \in [Addrs -> SUBSET Bits] /\ golden \in [Addrs -> SUBSET Bits]
    /\ perm \in SUBSET Addrs
    /\ count \in Nat /\ landed \in Nat
    /\ attack \in BOOLEAN /\ panicked \in BOOLEAN /\ misread \in BOOLEAN

\* An address is in one way at most.
OneCopy ==
    \A w, x \in Valid : cache[w].addr = cache[x].addr => w = x

\* A fault that lands is counted, and the attack event is pending below the
\* cap only; the hook of the write-backs has no attack event.
FaultBudget ==
    /\ landed <= count /\ landed <= MaxFaults
    /\ attack => count < MaxFaults
    /\ setup.field = "victim" => ~attack

\* Only a tag fault that landed makes one way answer for another.
AliasIsTagFault == alias # NoAlias => setup.field = "tag" /\ landed > 0

\* Damaged alone can grow without a new fault, when the check re-applies a
\* stuck-at fault to a line that was stored to: count those addresses too.
Touched == Damaged \cup perm
TouchedBounded == alias = NoAlias => Cardinality(Touched) <= landed

\* Before the first fault nothing can go wrong.
CleanBefore ==
    landed = 0 => /\ ~misread /\ ~panicked
                  /\ \A w \in Valid : cache[w].readable

\* An address every copy of which is right, and a right one survives.
Intact(b) ==
    /\ \A x \in Ways : cache[x].addr = b => cache[x].data = golden[b]
    /\ \/ mem[b] = golden[b]
       \/ \E x \in Ways : cache[x].addr = b /\ cache[x].dirty

\* The runs CorrectedIsMasked is about.
EccFlip == /\ setup.prot \in Ecc /\ Cardinality(setup.mask) = 1
           /\ setup.type = "bit_flip" /\ setup.field = "data"
FlipsVanish == EccFlip => Touched = {} /\ ~misread

MemInv ==
    /\ MemType /\ OneCopy /\ FaultBudget /\ AliasIsTagFault
    /\ TouchedBounded /\ CleanBefore /\ FlipsVanish

----------------------------------------------------------------------------
\* What a set of addresses is worth when it does not grow, or grows by one.
LEMMA GrowsByOne ==
    ASSUME NEW S \in SUBSET Addrs, NEW T \in SUBSET Addrs, NEW n \in Nat,
           Cardinality(S) <= n
    PROVE  /\ T \subseteq S => Cardinality(T) <= n
           /\ \A x : T \subseteq S \cup {x} => Cardinality(T) <= n + 1
<1>1. IsFiniteSet(S) /\ IsFiniteSet(T) /\ Cardinality(S) \in Nat /\ Cardinality(T) \in Nat
  BY MemAssumption, FS_Subset, FS_CardinalityType
<1>2. ASSUME T \subseteq S PROVE Cardinality(T) <= n
  <2>1. Cardinality(T) <= Cardinality(S)
    BY <1>1, <1>2, FS_Subset
  <2> QED
    BY <1>1, <2>1
<1>3. ASSUME NEW x, T \subseteq S \cup {x} PROVE Cardinality(T) <= n + 1
  <2>1. /\ IsFiniteSet(S \cup {x})
        /\ Cardinality(S \cup {x}) = IF x \in S THEN Cardinality(S) ELSE Cardinality(S) + 1
    BY <1>1, FS_AddElement
  <2>2. Cardinality(T) <= Cardinality(S \cup {x})
    BY <1>3, <2>1, FS_Subset
  <2> QED
    BY <1>1, <2>1, <2>2
<1> QED
  BY <1>2, <1>3

LEMMA TouchedAddrs == MemType => Touched \in SUBSET Addrs
BY DEF MemType, Touched, Damaged

\* A set with at most no elements is empty.
LEMMA NoneTouched ==
    ASSUME MemType, TouchedBounded, alias = NoAlias, landed = 0
    PROVE  Touched = {}
<1>1. IsFiniteSet(Touched)
  BY TouchedAddrs, MemAssumption, FS_Subset
<1>2. Cardinality(Touched) \in Nat /\ Cardinality(Touched) <= 0
  BY <1>1, FS_CardinalityType DEF TouchedBounded
<1>3. Cardinality(Touched) = 0
  BY <1>2
<1> QED
  BY <1>1, <1>3, FS_EmptySet

\* How a step keeps the bound.
LEMMA TouchedStep ==
    ASSUME MemInv, MemType', alias' = NoAlias => alias = NoAlias,
           alias' = NoAlias => \/ Touched' \subseteq Touched /\ landed' >= landed
                               \/ \E x : /\ Touched' \subseteq Touched \cup {x}
                                         /\ landed' = landed + 1
    PROVE  TouchedBounded'
<1> SUFFICES ASSUME alias' = NoAlias PROVE Cardinality(Touched') <= landed'
  BY DEF TouchedBounded
<1>1. Touched \in SUBSET Addrs /\ Touched' \in SUBSET Addrs
  BY TouchedAddrs DEF MemInv, MemType, Touched, Damaged
<1>2. landed \in Nat /\ landed' \in Nat /\ Cardinality(Touched) <= landed
  BY DEF MemInv, MemType, TouchedBounded
<1>3. CASE Touched' \subseteq Touched /\ landed' >= landed
  <2>1. Cardinality(Touched') <= landed
    BY <1>1, <1>2, <1>3, GrowsByOne
  <2>2. Cardinality(Touched') \in Nat
    BY <1>1, MemAssumption, FS_Subset, FS_CardinalityType
  <2> QED
    BY <1>2, <1>3, <2>1, <2>2
<1>4. CASE \E x : Touched' \subseteq Touched \cup {x} /\ landed' = landed + 1
  BY <1>1, <1>2, <1>4, GrowsByOne
<1> QED
  BY <1>3, <1>4

\* The mask is a set of bits, and so is what it makes of a byte.
LEMMA AppliedType ==
    ASSUME MemType, NEW v \in SUBSET Bits, NEW type
    PROVE  Applied(type, v) \in SUBSET Bits /\ Faulty(v) \in SUBSET Bits
<1>1. setup.mask \in SUBSET Bits
  BY DEF MemType, SetupType
<1>2. \A ty : Applied(ty, v) \in SUBSET Bits
  BY <1>1 DEF Applied
<1> QED
  BY <1>2 DEF Faulty

LEMMA InitMem == Init => MemInv
<1> SUFFICES ASSUME Init PROVE MemInv
  OBVIOUS
<1>1. MemType
  <2>1. Empty \in Line /\ ~Empty.dirty
    BY DEF Empty, Line
  <2> QED
    BY <2>1, MemAssumption DEF Init, MemType
<1>2. Valid = {}
  BY DEF Init, Valid, Empty
<1>3. OneCopy /\ CleanBefore
  BY <1>2 DEF Init, OneCopy, CleanBefore
<1>4. FaultBudget /\ AliasIsTagFault
  <2>1. landed = 0 /\ count = 0 /\ 0 < MaxFaults /\ 0 <= MaxFaults /\ alias = NoAlias
    BY MemAssumption DEF Init
  <2>2. setup.field = "victim" => ~attack
    BY Zenon DEF Init
  <2> QED
    BY <2>1, <2>2 DEF FaultBudget, AliasIsTagFault
<1>5. Touched = {}
  BY <1>2 DEF Init, Touched, Damaged, Found
<1>6. TouchedBounded /\ FlipsVanish
  BY <1>5, FS_EmptySet DEF Init, TouchedBounded, FlipsVanish
<1> QED
  BY <1>1, <1>3, <1>4, <1>6 DEF MemInv

----------------------------------------------------------------------------
\* Hits and misses

\* Without an alias a way answers for itself.
LEMMA ServedIsSelf ==
    ASSUME alias = NoAlias, NEW w \in Ways PROVE Served(w) = w
BY MemAssumption DEF Served, NoAlias

LEMMA ServedIsWay ==
    ASSUME NEW w \in Valid PROVE Served(w) \in Valid
BY DEF Served

\* What a miss on a does: one way w, which does not hold a, is written back if
\* it is dirty and gets the new line; its data is faulty (n = 1) only by the
\* hook of the write-backs, below the cap.
MissEffect(a, block, w, d, n) ==
    /\ cache[w].addr # a
    /\ cache' = [cache EXCEPT ![w] = block]
    /\ mem' = IF cache[w].dirty THEN [mem EXCEPT ![cache[w].addr] = d] ELSE mem
    /\ n = 0 => d = cache[w].data
    /\ n = 1 => /\ setup.field = "victim" /\ count < MaxFaults
                /\ cache[w].dirty
    /\ count' = count + n /\ landed' = landed + n
    /\ UNCHANGED <<alias, perm, check, attack>>

LEMMA MissHasEffect ==
    ASSUME MemType, NEW a \in Addrs, NEW block, Found(a) = {}, Miss(a, block)
    PROVE  \E w \in Ways, d \in SUBSET Bits, n \in {0, 1} :
              MissEffect(a, block, w, d, n)
<1>1. PICK w \in Ways :
        \E p \in IF cache[w].dirty THEN Payloads(cache[w].data)
               ELSE {[data |-> {}, n |-> 0]} :
          /\ mem' = WrittenBack(w, p.data)
          /\ cache' = [cache EXCEPT ![w] = block]
          /\ count' = count + p.n
          /\ landed' = landed + p.n
          /\ UNCHANGED <<alias, perm, check, attack>>
  BY DEF Miss, Valid
<1>2. cache[w].addr # a
  BY MemAssumption DEF Found, Valid
<1>3. cache[w].data \in SUBSET Bits
  BY DEF MemType, Line
<1>4. CASE ~cache[w].dirty
  <2>1. MissEffect(a, block, w, cache[w].data, 0)
    BY <1>1, <1>2, <1>4 DEF MissEffect, WrittenBack
  <2> QED
    BY <1>3, <2>1
<1>5. CASE cache[w].dirty
  <2>1. PICK p \in Payloads(cache[w].data) :
          /\ mem' = WrittenBack(w, p.data)
          /\ cache' = [cache EXCEPT ![w] = block]
          /\ count' = count + p.n
          /\ landed' = landed + p.n
          /\ UNCHANGED <<alias, perm, check, attack>>
    BY <1>1, <1>5
  <2>2. CASE p = [data |-> cache[w].data, n |-> 0]
    <3>1. MissEffect(a, block, w, cache[w].data, 0)
      BY <1>2, <1>5, <2>1, <2>2 DEF MissEffect, WrittenBack
    <3> QED
      BY <1>3, <3>1
  <2>3. CASE /\ p = [data |-> Applied("bit_flip", cache[w].data), n |-> 1]
             /\ setup.field = "victim" /\ count < MaxFaults
    <3>1. MissEffect(a, block, w, Applied("bit_flip", cache[w].data), 1)
      BY <1>2, <1>5, <2>1, <2>3 DEF MissEffect, WrittenBack
    <3> QED
      BY <1>3, <3>1, AppliedType
  <2> QED
    BY <2>1, <2>2, <2>3 DEF Payloads
<1> QED
  BY <1>4, <1>5

\* The types after a miss.
LEMMA MissTypes ==
    ASSUME MemInv, NEW a \in Addrs, NEW block \in Line, block.addr = a,
           Found(a) = {}, NEW w \in Ways, NEW d \in SUBSET Bits, NEW n \in {0, 1},
           MissEffect(a, block, w, d, n)
    PROVE  /\ cache' \in [Ways -> Line]
           /\ \A x \in Ways : cache'[x].addr = None => ~cache'[x].dirty
           /\ mem' \in [Addrs -> SUBSET Bits]
           /\ count' \in Nat /\ landed' \in Nat
           /\ OneCopy'
<1> USE DEF MemInv, MissEffect
<1>1. cache' \in [Ways -> Line] /\ mem' \in [Addrs -> SUBSET Bits]
  BY DEF MemType
<1>2. \A x \in Ways : cache'[x].addr = None => ~cache'[x].dirty
  BY MemAssumption DEF MemType
<1>3. OneCopy'
  <2> SUFFICES ASSUME NEW x \in Ways, NEW y \in Ways, cache'[x].addr # None,
                      cache'[x].addr = cache'[y].addr
               PROVE  x = y
    BY DEF OneCopy, Valid
  <2>1. \A z \in Ways : cache[z].addr # a
    BY MemAssumption DEF Found, Valid
  <2>2. CASE x # w /\ y # w
    BY <2>2 DEF MemType, OneCopy, Valid
  <2>3. CASE x = w \/ y = w
    BY <2>1, <2>3 DEF MemType
  <2> QED
    BY <2>2, <2>3
<1> QED
  BY <1>1, <1>2, <1>3 DEF MemType

\* A miss damages nothing, but what the hook of the write-backs hits.
LEMMA MissSpares ==
    ASSUME MemInv, NEW a \in Addrs, NEW block \in Line, block.addr = a,
           Found(a) = {}, NEW w \in Ways, NEW d \in SUBSET Bits, NEW n \in {0, 1},
           MissEffect(a, block, w, d, n),
           NEW b \in Addrs, Intact(b), b # a, n = 0 \/ b # cache[w].addr,
           golden'[b] = golden[b]
    PROVE  Intact(b)'
<1> USE DEF MemInv, MissEffect
<1>1. \A x \in Ways : cache'[x] = IF x = w THEN block ELSE cache[x]
  BY DEF MemType
<1>2. \A x \in Ways : cache'[x].addr = b => cache'[x].data = golden[b]
  BY <1>1 DEF Intact
<1>3. CASE cache[w].addr = b
  <2>1. n = 0 /\ d = golden[b]
    BY <1>3 DEF Intact
  <2>2. CASE cache[w].dirty
    BY <1>2, <1>3, <2>1, <2>2 DEF Intact, MemType
  <2>3. CASE ~cache[w].dirty
    <3>1. \A x \in Ways : cache[x].addr = b => x = w
      BY <1>3, MemAssumption DEF OneCopy, Valid
    <3>2. mem[b] = golden[b]
      BY <2>3, <3>1 DEF Intact
    <3> QED
      BY <1>2, <2>3, <3>2 DEF Intact
  <2> QED
    BY <2>2, <2>3
<1>4. CASE cache[w].addr # b
  <2>1. mem'[b] = mem[b]
    BY <1>4 DEF MemType
  <2>2. \A x \in Ways : cache[x].addr = b => x # w /\ cache'[x] = cache[x]
    BY <1>1, <1>4
  <2> QED
    BY <1>2, <2>1, <2>2 DEF Intact
<1> QED
  BY <1>3, <1>4

\* Damaged is what is not intact.
LEMMA DamagedNotIntact ==
    /\ Damaged = {b \in Addrs : ~Intact(b)}
    /\ Damaged' = {b \in Addrs : ~Intact(b)'}
<1>1. Damaged = {b \in Addrs : ~Intact(b)}
  BY MemAssumption DEF Damaged, Found, Valid, Intact
<1>2. Damaged' = {b \in Addrs : ~Intact(b)'}
  BY MemAssumption DEF Damaged, Found, Valid, Intact
<1> QED
  BY <1>1, <1>2

\* A load.
LEMMA LoadKeeps ==
    ASSUME MemInv, NEW a \in Addrs, Load(a)
    PROVE  MemInv'
<1> USE DEF MemInv
<1>1. ASSUME NEW f \in Found(a), UNCHANGED <<cache, mem, injector>>,
             panicked' = ~cache[Served(f)].readable,
             misread' = (misread \/ (/\ cache[Served(f)].readable
                                     /\ cache[Served(f)].data # golden[a]))
      PROVE  MemInv'
  <2>1. UNCHANGED <<setup, cache, mem, alias, perm, attack, count, landed, golden>>
    BY <1>1 DEF Load, injector
  <2>2. f \in Valid /\ f \in Ways /\ cache[f].addr = a
    BY DEF Found, Valid
  <2>3. MemType'
    BY <1>1, <2>1 DEF MemType
  <2>4. OneCopy' /\ FaultBudget' /\ AliasIsTagFault' /\ TouchedBounded'
    BY <2>1 DEF OneCopy, Valid, FaultBudget, AliasIsTagFault, TouchedBounded, Touched,
       Damaged, Found
  <2>5. Touched' = Touched
    BY <2>1 DEF Touched, Damaged, Found, Valid
  <2>6. ASSUME alias = NoAlias, Touched = {}
        PROVE  misread' = misread /\ panicked' = ~cache[f].readable
    <3>1. Served(f) = f
      BY <2>2, <2>6, ServedIsSelf
    <3>2. cache[f].data = golden[a]
      BY <2>6 DEF Touched, Damaged
    <3> QED
      BY <1>1, <3>1, <3>2 DEF MemType
  <2>7. CleanBefore'
    <3> SUFFICES ASSUME landed = 0 PROVE CleanBefore'
      BY <2>1 DEF CleanBefore
    <3>1. alias = NoAlias /\ Touched = {}
      BY NoneTouched DEF AliasIsTagFault
    <3> QED
      BY <2>1, <2>2, <2>6, <3>1 DEF CleanBefore, Valid
  <2>8. FlipsVanish'
    BY <2>1, <2>5, <2>6 DEF FlipsVanish, EccFlip, AliasIsTagFault
  <2> QED
    BY <2>3, <2>4, <2>7, <2>8
<1>2. ASSUME Found(a) = {}, Miss(a, Filled(a, mem[a])), panicked' = panicked,
             misread' = (misread \/ mem[a] # golden[a])
      PROVE  MemInv'
  <2> DEFINE block == Filled(a, mem[a])
  <2>b. block \in Line /\ block.addr = a /\ ~block.dirty /\ block.data = mem[a]
        /\ block.readable
    BY DEF Filled, Line, MemType
  <2>1. PICK w \in Ways, d \in SUBSET Bits, n \in {0, 1} : MissEffect(a, block, w, d, n)
    BY <1>2, MissHasEffect
  <2> HIDE DEF block
  <2>2. /\ cache' \in [Ways -> Line] /\ mem' \in [Addrs -> SUBSET Bits]
        /\ \A x \in Ways : cache'[x].addr = None => ~cache'[x].dirty
        /\ count' \in Nat /\ landed' \in Nat /\ OneCopy'
    BY <1>2, <2>b, <2>1, MissTypes
  <2>3. UNCHANGED <<setup, golden, alias, perm, attack>>
        /\ count' = count + n /\ landed' = landed + n
        /\ cache' = [cache EXCEPT ![w] = block] /\ cache[w].addr # a
        /\ (n = 1 => setup.field = "victim" /\ count < MaxFaults /\ cache[w].dirty)
    BY <2>1 DEF MissEffect, Load
  <2>4. MemType'
    BY <1>2, <2>2, <2>3 DEF MemType
  <2>5. FaultBudget' /\ AliasIsTagFault'
    BY <2>3, MemAssumption DEF MemType, FaultBudget, AliasIsTagFault
  <2>6. ASSUME Intact(a) PROVE Intact(a)'
    <3>1. mem[a] = golden[a]
      BY <1>2, <2>6, MemAssumption DEF Intact, Found, Valid
    <3>2. mem'[a] = mem[a]
      BY <2>1 DEF MissEffect, MemType
    <3>3. \A x \in Ways : cache'[x].addr = a => x = w
      BY <1>2, <2>3, MemAssumption DEF Found, Valid, MemType
    <3> QED
      BY <2>b, <2>3, <3>1, <3>2, <3>3 DEF Intact, MemType
  <2>7. Damaged' \subseteq Damaged \cup IF n = 0 THEN {} ELSE {cache[w].addr}
    BY <1>2, <2>b, <2>1, <2>3, <2>6, MissSpares, DamagedNotIntact
  <2>8. TouchedBounded'
    <3>1. CASE n = 0
      BY <2>3, <2>4, <2>7, <3>1, TouchedStep DEF MemType, Touched
    <3>2. CASE n = 1
      BY <2>3, <2>4, <2>7, <3>2, TouchedStep DEF Touched
    <3> QED
      BY <3>1, <3>2
  <2>9. ASSUME Touched = {} PROVE misread' = misread
    <3>1. Intact(a)
      BY <2>9, DamagedNotIntact DEF Touched
    <3>2. mem[a] = golden[a]
      BY <1>2, <3>1, MemAssumption DEF Intact, Found, Valid
    <3> QED
      BY <1>2, <3>2 DEF MemType
  <2>10. CleanBefore'
    <3> SUFFICES ASSUME landed = 0 PROVE CleanBefore'
      BY <2>3 DEF CleanBefore, MemType
    <3>1. alias = NoAlias /\ Touched = {}
      BY NoneTouched DEF AliasIsTagFault
    <3> QED
      BY <1>2, <2>b, <2>3, <2>9, <3>1 DEF CleanBefore, Valid, MemType
  <2>11. FlipsVanish'
    <3> SUFFICES ASSUME EccFlip PROVE Touched' = {} /\ ~misread'
      BY <2>3 DEF FlipsVanish, EccFlip
    <3>1. n = 0
      BY <2>3 DEF EccFlip
    <3> QED
      BY <2>3, <2>7, <2>9, <3>1 DEF FlipsVanish, Touched
  <2> QED
    BY <2>2, <2>4, <2>5, <2>8, <2>10, <2>11
<1> QED
  BY <1>1, <1>2 DEF Load

\* A store.
LEMMA StoreKeeps ==
    ASSUME MemInv, NEW a \in Addrs, NEW v \in Values, Store(a, v)
    PROVE  MemInv'
<1> USE DEF MemInv
<1>v. v \in SUBSET Bits
  BY MemAssumption
<1>g. /\ golden' = [golden EXCEPT ![a] = v] /\ golden'[a] = v
      /\ \A b \in Addrs : b # a => golden'[b] = golden[b]
      /\ golden' \in [Addrs -> SUBSET Bits]
      /\ UNCHANGED <<setup, panicked, misread>>
  BY <1>v DEF Store, MemType
<1>1. ASSUME NEW f \in Found(a),
             cache' = [cache EXCEPT ![Served(f)] =
                          [cache[Served(f)] EXCEPT
                             !.data = v, !.dirty = TRUE, !.writable = TRUE,
                             !.readable = @ \/ ~cache[Served(f)].writable]],
             UNCHANGED <<mem, injector>>
      PROVE  MemInv'
  <2> DEFINE w == Served(f)
  <2>1. f \in Valid /\ f \in Ways /\ cache[f].addr = a /\ w \in Ways /\ w \in Valid
    BY ServedIsWay DEF Found, Valid
  <2>2. /\ cache'[w] \in Line /\ cache'[w].addr = cache[w].addr
        /\ cache'[w].data = v /\ cache'[w].dirty
        /\ cache[w].readable => cache'[w].readable
        /\ \A x \in Ways : x # w => cache'[x] = cache[x]
        /\ cache' \in [Ways -> Line]
    <3> DEFINE new == [cache[w] EXCEPT !.data = v, !.dirty = TRUE, !.writable = TRUE,
                             !.readable = @ \/ ~cache[w].writable]
    <3>1. cache[w] \in Line /\ cache \in [Ways -> Line]
      BY <2>1 DEF MemType
    <3>2. /\ new \in Line /\ new.addr = cache[w].addr /\ new.data = v /\ new.dirty
          /\ cache[w].readable => new.readable
      BY <1>v, <3>1 DEF Line
    <3>3. cache' = [cache EXCEPT ![w] = new]
      BY <1>1
    <3> HIDE DEF new
    <3> QED
      BY <2>1, <3>1, <3>2, <3>3
  <2>3. UNCHANGED <<mem, alias, perm, attack, count, landed>>
    BY <1>1 DEF injector
  <2> HIDE DEF w
  <2>4. Valid' = Valid /\ \A x \in Ways : cache'[x].addr = cache[x].addr
    BY <2>1, <2>2 DEF Valid
  <2>5. MemType'
    BY <1>g, <2>1, <2>2, <2>3 DEF MemType, Valid
  <2>6. OneCopy' /\ FaultBudget' /\ AliasIsTagFault'
    BY <1>g, <2>3, <2>4 DEF OneCopy, Valid, FaultBudget, AliasIsTagFault
  <2>7. ASSUME alias = NoAlias PROVE Touched' \subseteq Touched
    <3>1. w = f
      BY <2>1, <2>7, ServedIsSelf DEF w
    <3>2. Intact(a)'
      <4>1. \A x \in Ways : cache'[x].addr = a => x = f
        BY <2>1, <2>4, MemAssumption DEF OneCopy, Valid
      <4> QED
        BY <1>g, <2>1, <2>2, <3>1, <4>1 DEF Intact
    <3>3. ASSUME NEW b \in Addrs, b # a, Intact(b) PROVE Intact(b)'
      BY <1>g, <2>1, <2>2, <2>3, <3>1, <3>3 DEF Intact
    <3> QED
      BY <2>3, <3>2, <3>3, DamagedNotIntact DEF Touched
  <2>8. TouchedBounded'
    BY <2>3, <2>5, <2>7, TouchedStep DEF MemType
  <2>9. CleanBefore'
    BY <1>g, <2>2, <2>3, <2>4 DEF CleanBefore, Valid
  <2>10. FlipsVanish'
    BY <1>g, <2>3, <2>7 DEF FlipsVanish, EccFlip, AliasIsTagFault
  <2> QED
    BY <2>5, <2>6, <2>8, <2>9, <2>10
<1>2. ASSUME Found(a) = {}, Miss(a, [Filled(a, v) EXCEPT !.dirty = TRUE])
      PROVE  MemInv'
  <2> DEFINE block == [Filled(a, v) EXCEPT !.dirty = TRUE]
  <2>b. block \in Line /\ block.addr = a /\ block.dirty /\ block.data = v
        /\ block.readable
    BY <1>v DEF Filled, Line
  <2>1. PICK w \in Ways, d \in SUBSET Bits, n \in {0, 1} : MissEffect(a, block, w, d, n)
    BY <1>2, MissHasEffect
  <2> HIDE DEF block
  <2>2. /\ cache' \in [Ways -> Line] /\ mem' \in [Addrs -> SUBSET Bits]
        /\ \A x \in Ways : cache'[x].addr = None => ~cache'[x].dirty
        /\ count' \in Nat /\ landed' \in Nat /\ OneCopy'
    BY <1>2, <2>b, <2>1, MissTypes
  <2>3. UNCHANGED <<alias, perm, attack>>
        /\ count' = count + n /\ landed' = landed + n
        /\ cache' = [cache EXCEPT ![w] = block] /\ cache[w].addr # a
        /\ (n = 1 => setup.field = "victim" /\ count < MaxFaults /\ cache[w].dirty)
    BY <2>1 DEF MissEffect
  <2>4. MemType'
    BY <1>g, <2>2, <2>3 DEF MemType
  <2>5. FaultBudget' /\ AliasIsTagFault'
    BY <1>g, <2>3, MemAssumption DEF MemType, FaultBudget, AliasIsTagFault
  <2>6. Intact(a)'
    <3>1. \A x \in Ways : cache'[x].addr = a => x = w
      BY <1>2, <2>3, MemAssumption DEF Found, Valid, MemType
    <3> QED
      BY <1>g, <2>b, <2>3, <3>1 DEF Intact, MemType
  <2>7. Damaged' \subseteq Damaged \cup IF n = 0 THEN {} ELSE {cache[w].addr}
    BY <1>g, <1>2, <2>b, <2>1, <2>6, MissSpares, DamagedNotIntact
  <2>8. TouchedBounded'
    <3>1. CASE n = 0
      BY <2>3, <2>4, <2>7, <3>1, TouchedStep DEF MemType, Touched
    <3>2. CASE n = 1
      BY <2>3, <2>4, <2>7, <3>2, TouchedStep DEF Touched
    <3> QED
      BY <3>1, <3>2
  <2>9. CleanBefore'
    BY <1>g, <2>b, <2>3 DEF CleanBefore, Valid, MemType
  <2>10. FlipsVanish'
    <3> SUFFICES ASSUME EccFlip PROVE Touched' = {} /\ ~misread'
      BY <1>g DEF FlipsVanish, EccFlip
    <3>1. n = 0
      BY <2>3 DEF EccFlip
    <3> QED
      BY <1>g, <2>3, <2>7, <3>1 DEF FlipsVanish, Touched
  <2> QED
    BY <2>2, <2>4, <2>5, <2>8, <2>9, <2>10
<1> QED
  BY <1>1, <1>2 DEF Store

----------------------------------------------------------------------------
\* Injections

\* What every injection comes to: it is counted, and what it hits is one
\* address, none if the flip is corrected.
LEMMA InjectionKeeps ==
    ASSUME MemInv, MemType', OneCopy', attack,
           NEW own \in {0, 1}, NEW hit \in BOOLEAN, Counted(own, hit),
           UNCHANGED <<setup, panicked, golden, misread>>,
           alias' = alias \/ (setup.field = "tag" /\ hit /\ alias' # NoAlias),
           hit => \E x : Touched' \subseteq Touched \cup {x},
           ~hit => Touched' \subseteq Touched /\ cache' = cache,
           EccFlip => Touched' \subseteq Touched
    PROVE  MemInv'
<1> USE DEF MemInv
<1>1. /\ count' = count + own + 1 /\ landed' = landed + (IF hit THEN 1 ELSE 0)
      /\ attack' = (count + own + 1 < MaxFaults)
  BY DEF Counted
<1>2. landed \in Nat /\ count \in Nat /\ MaxFaults \in Nat
  BY MemAssumption DEF MemType
<1>3. landed' > 0 \/ (~hit /\ landed' = landed)
  BY <1>1, <1>2
<1>4. FaultBudget'
  <2>1. landed <= count /\ count < MaxFaults /\ setup.field # "victim"
    BY DEF FaultBudget
  <2>2. landed' <= count' /\ landed' <= MaxFaults
    BY <1>1, <1>2, <2>1
  <2>3. attack' => count' < MaxFaults
    BY <1>1
  <2> QED
    BY <2>1, <2>2, <2>3 DEF FaultBudget
<1>5. AliasIsTagFault'
  BY <1>1, <1>2 DEF AliasIsTagFault
<1>6. TouchedBounded'
  <2>1. CASE hit
    BY <1>1, <2>1, TouchedStep
  <2>2. CASE ~hit
    BY <1>1, <1>2, <2>2, TouchedStep
  <2> QED
    BY <2>1, <2>2
<1>7. CleanBefore'
  BY <1>3 DEF CleanBefore, Valid
<1>8. FlipsVanish'
  BY DEF FlipsVanish, EccFlip
<1> QED
  BY <1>4, <1>5, <1>6, <1>7, <1>8

\* A change of one valid line, which keeps its address or becomes empty.
LEMMA LineFault ==
    ASSUME MemInv, NEW w \in Valid, NEW new \in Line,
           new.addr = cache[w].addr \/ new = Empty,
           cache' = [cache EXCEPT ![w] = new], UNCHANGED <<mem, golden>>
    PROVE  /\ cache' \in [Ways -> Line]
           /\ \A x \in Ways : cache'[x].addr = None => ~cache'[x].dirty
           /\ OneCopy'
           /\ Damaged' \subseteq Damaged \cup {cache[w].addr}
<1> USE DEF MemInv
<1>1. w \in Ways /\ cache[w].addr # None
  BY DEF Valid
<1>2. cache' \in [Ways -> Line] /\ \A x \in Ways : cache'[x] = IF x = w THEN new ELSE cache[x]
  BY <1>1 DEF MemType
<1>3. \A x \in Ways : cache'[x].addr = None => ~cache'[x].dirty
  BY <1>1, <1>2 DEF MemType, Empty
<1>4. \A x \in Ways : cache'[x].addr # None => cache'[x].addr = cache[x].addr
  BY <1>2 DEF Empty
<1>5. OneCopy'
  BY <1>4 DEF OneCopy, Valid
<1>6. ASSUME NEW b \in Addrs, b # cache[w].addr, Intact(b) PROVE Intact(b)'
  <2>1. \A x \in Ways : cache'[x].addr = b => cache'[x] = cache[x]
    BY <1>2, <1>4, <1>6, MemAssumption
  <2>2. \A x \in Ways : cache[x].addr = b => cache'[x] = cache[x]
    BY <1>2, <1>6
  <2> QED
    BY <1>6, <2>1, <2>2 DEF Intact
<1> QED
  BY <1>2, <1>3, <1>5, <1>6, DamagedNotIntact

\* A flip that the protection corrects changes no byte and is not recorded.
LEMMA FlipCorrected ==
    ASSUME EccFlip, NEW v, NEW a
    PROVE  Faulty(v) = v /\ Recorded(a) = perm
BY DEF EccFlip, Ecc, Faulty, Corrected, Recorded

\* CHAOSCache, one step per field.
LEMMA InjectCacheKeeps ==
    ASSUME MemInv, InjectCache
    PROVE  MemInv'
<1> USE DEF MemInv
<1>u. attack /\ UNCHANGED <<setup, mem, check, panicked, golden, misread>>
  BY DEF InjectCache
<1>t. ASSUME cache' \in [Ways -> Line], perm' \in SUBSET Addrs,
             \A x \in Ways : cache'[x].addr = None => ~cache'[x].dirty,
             NEW own \in {0, 1}, NEW hit \in BOOLEAN, Counted(own, hit)
      PROVE  MemType'
  <2>1. count' = count + own + 1 /\ landed' = landed + (IF hit THEN 1 ELSE 0)
    BY <1>t DEF Counted
  <2>2. count' \in Nat /\ landed' \in Nat
    BY <2>1 DEF MemType
  <2>3. attack' \in BOOLEAN
    BY <1>t DEF Counted
  <2> QED
    BY <1>u, <1>t, <2>2, <2>3 DEF MemType
<1>s. ASSUME UNCHANGED <<cache, alias, perm>>, Counted(0, FALSE) PROVE MemInv'
  <2>1. MemType' /\ OneCopy'
    BY <1>s, <1>t DEF MemType, OneCopy, Valid
  <2>2. Touched' = Touched
    BY <1>u, <1>s DEF Touched, Damaged, Found, Valid
  <2> QED
    BY <1>u, <1>s, <2>1, <2>2, InjectionKeeps
<1>l. ASSUME NEW w \in Valid, NEW new \in Line, NEW own \in {0, 1}, Counted(own, TRUE),
             new.addr = cache[w].addr \/ new = Empty,
             cache' = [cache EXCEPT ![w] = new],
             perm' \in {perm, perm \cup {cache[w].addr}}, UNCHANGED alias,
             EccFlip => new = cache[w] /\ perm' = perm
      PROVE  MemInv'
  <2>1. w \in Ways /\ cache[w].addr \in Addrs
    BY DEF Valid, MemType, Line
  <2>2. /\ cache' \in [Ways -> Line] /\ OneCopy'
        /\ \A x \in Ways : cache'[x].addr = None => ~cache'[x].dirty
        /\ Damaged' \subseteq Damaged \cup {cache[w].addr}
    BY <1>u, <1>l, LineFault
  <2>3. MemType'
    BY <1>l, <1>t, <2>1, <2>2 DEF MemType
  <2>4. Touched' \subseteq Touched \cup {cache[w].addr}
    BY <1>l, <2>2 DEF Touched
  <2>5. ASSUME EccFlip PROVE Touched' \subseteq Touched
    <3>1. cache' = cache /\ perm' = perm
      BY <1>l, <2>1, <2>5 DEF MemType
    <3> QED
      BY <1>u, <3>1 DEF Touched, Damaged, Found, Valid
  <2> QED
    BY <1>u, <1>l, <2>2, <2>3, <2>4, <2>5, InjectionKeeps
<1>v. ASSUME NEW w \in Valid PROVE w \in Ways /\ cache[w] \in Line /\ cache[w].addr \in Addrs
  BY <1>v DEF Valid, MemType, Line
<1>1. ASSUME NEW w \in Valid, DataFault(w) PROVE MemInv'
  <2> DEFINE new == [cache[w] EXCEPT !.data = Faulty(cache[w].data)]
  <2>1. cache' = [cache EXCEPT ![w] = new] /\ perm' = Recorded(cache[w].addr)
        /\ Counted(0, TRUE) /\ UNCHANGED alias
    BY <1>1 DEF DataFault
  <2>2. Faulty(cache[w].data) \in SUBSET Bits
    BY <1>v, AppliedType DEF Line
  <2>3. new \in Line /\ new.addr = cache[w].addr
    BY <1>v, <2>2 DEF Line
  <2>4. EccFlip => new = cache[w] /\ perm' = perm
    BY <1>v, <2>1, FlipCorrected DEF Line
  <2>5. perm' \in {perm, perm \cup {cache[w].addr}}
    BY <2>1 DEF Recorded
  <2> QED
    BY <1>l, <2>1, <2>3, <2>4, <2>5
<1>2. ASSUME NEW w \in Valid, OpcodeFault(w) PROVE MemInv'
  <2> DEFINE new == [cache[w] EXCEPT !.data = Applied("bit_flip", cache[w].data)]
  <2>1. cache' = [cache EXCEPT ![w] = new] /\ ~EccFlip
        /\ Counted(1, TRUE) /\ UNCHANGED <<alias, perm>>
    BY <1>2 DEF OpcodeFault, EccFlip
  <2>2. new \in Line /\ new.addr = cache[w].addr
    BY <1>v, AppliedType DEF Line
  <2> QED
    BY <1>l, <2>1, <2>2
<1>3. ASSUME NEW w \in Valid, TagFault(w) PROVE MemInv'
  <2>1. CASE Valid = {w}
    BY <1>3, <1>s, <2>1 DEF TagFault
  <2>2. CASE Valid # {w}
    <3>1. PICK x \in Valid \ {w} :
            /\ alias' = [victim |-> w, way |-> x, tag |-> cache[w].addr]
            /\ Counted(1, TRUE)
      BY <1>3, <2>2 DEF TagFault
    <3>2. alias' # NoAlias
      BY <1>v, <3>1, MemAssumption DEF NoAlias
    <3>3. UNCHANGED <<cache, perm>> /\ setup.field = "tag"
      BY <1>3 DEF TagFault
    <3>4. MemType' /\ OneCopy'
      BY <1>t, <3>1, <3>3 DEF MemType, OneCopy, Valid
    <3>5. Touched' = Touched
      BY <1>u, <3>3 DEF Touched, Damaged, Found, Valid
    <3> QED
      BY <1>u, <3>1, <3>2, <3>3, <3>4, <3>5, InjectionKeeps
  <2> QED
    BY <2>1, <2>2
<1>4. ASSUME NEW w \in Valid, StateFault(w) PROVE MemInv'
  <2>1. Counted(1, TRUE) /\ UNCHANGED <<alias, perm>> /\ ~EccFlip
    BY <1>4 DEF StateFault, EccFlip
  <2>2. CASE setup.field = "valid"
    <3>1. cache' = [cache EXCEPT ![w] = Empty] /\ Empty \in Line
      BY <1>4, <2>2 DEF StateFault, Empty, Line
    <3> QED
      BY <1>l, <2>1, <3>1
  <2>3. CASE setup.field = "dirty"
    <3> DEFINE new == [cache[w] EXCEPT !.dirty = ~cache[w].dirty]
    <3>1. cache' = [cache EXCEPT ![w] = new]
      BY <1>4, <2>3 DEF StateFault
    <3>2. new \in Line /\ new.addr = cache[w].addr
      BY <1>v DEF Line
    <3> QED
      BY <1>l, <2>1, <3>1, <3>2
  <2>4. CASE setup.field = "repl"
    <3>1. cache' = [cache EXCEPT ![w] = cache[w]]
      BY <1>4, <1>v, <2>4 DEF StateFault, MemType
    <3> QED
      BY <1>l, <1>v, <2>1, <3>1
  <2> QED
    BY <1>4, <2>2, <2>3, <2>4 DEF StateFault
<1>5. ASSUME NEW w \in Valid, CohFault(w) PROVE MemInv'
  <2>1. UNCHANGED <<alias, perm>> /\ ~EccFlip
    BY <1>5 DEF CohFault, EccFlip
  <2>2. CASE cache' = [cache EXCEPT ![w].writable = FALSE] /\ Counted(1, TRUE)
    <3> DEFINE new == [cache[w] EXCEPT !.writable = FALSE]
    <3>1. new \in Line /\ new.addr = cache[w].addr /\ cache' = [cache EXCEPT ![w] = new]
      BY <1>v, <2>2 DEF Line
    <3> QED
      BY <1>l, <2>1, <2>2, <3>1
  <2>3. CASE cache' = [cache EXCEPT ![w].readable = FALSE] /\ Counted(1, TRUE)
    <3> DEFINE new == [cache[w] EXCEPT !.readable = FALSE]
    <3>1. new \in Line /\ new.addr = cache[w].addr /\ cache' = [cache EXCEPT ![w] = new]
      BY <1>v, <2>3 DEF Line
    <3> QED
      BY <1>l, <2>1, <2>3, <3>1
  <2>4. CASE UNCHANGED cache /\ Counted(0, FALSE)
    BY <1>s, <2>1, <2>4
  <2> QED
    BY <1>5, <2>2, <2>3, <2>4 DEF CohFault
<1> QED
  BY <1>s, <1>1, <1>2, <1>3, <1>4, <1>5 DEF InjectCache

\* CHAOSMem.
LEMMA AttackKeeps ==
    ASSUME MemInv, NEW a \in Addrs, AttackMemory(a)
    PROVE  MemInv'
<1> USE DEF MemInv
<1>1. /\ attack /\ Counted(0, TRUE) /\ perm' = Recorded(a)
      /\ mem' = [mem EXCEPT ![a] = Faulty(mem[a])]
      /\ UNCHANGED <<setup, cache, alias, check, panicked, golden, misread>>
  BY DEF AttackMemory
<1>2. mem' \in [Addrs -> SUBSET Bits]
  <2>1. Faulty(mem[a]) \in SUBSET Bits
    BY AppliedType DEF MemType
  <2> QED
    BY <1>1, <2>1 DEF MemType
<1>3. perm' \in SUBSET Addrs /\ perm' \subseteq perm \cup {a}
  BY <1>1 DEF Recorded, MemType
<1>4. MemType'
  <2>1. count' = count + 0 + 1 /\ landed' = landed + 1
    BY <1>1 DEF Counted
  <2>2. count' \in Nat /\ landed' \in Nat
    BY <2>1 DEF MemType
  <2>3. attack' \in BOOLEAN
    BY <1>1 DEF Counted
  <2> QED
    BY <1>1, <1>2, <1>3, <2>2, <2>3 DEF MemType
<1>5. OneCopy'
  BY <1>1 DEF OneCopy, Valid
<1>6. Touched' \subseteq Touched \cup {a}
  <2>1. ASSUME NEW b \in Addrs, b # a, Intact(b) PROVE Intact(b)'
    BY <1>1, <2>1 DEF Intact, MemType
  <2> QED
    BY <1>3, <2>1, DamagedNotIntact DEF Touched
<1>7. ASSUME EccFlip PROVE Touched' \subseteq Touched
  <2>1. mem' = mem /\ perm' = perm
    BY <1>1, <1>7, FlipCorrected DEF MemType
  <2> QED
    BY <1>1, <2>1 DEF Touched, Damaged, Found, Valid
<1> QED
  BY <1>1, <1>4, <1>5, <1>6, <1>7, InjectionKeeps

\* The periodic check re-applies what is recorded, so it damages no address
\* that was not counted when it was recorded.
LEMMA CheckKeeps ==
    ASSUME MemInv, CheckPermanent
    PROVE  MemInv'
<1> USE DEF MemInv
<1>1. UNCHANGED <<setup, alias, perm, attack, count, landed, panicked, golden, misread>>
  BY DEF CheckPermanent
<1>2. /\ cache' \in [Ways -> Line]
      /\ \A x \in Ways : /\ cache'[x].addr = cache[x].addr
                         /\ cache'[x].dirty = cache[x].dirty
                         /\ cache'[x].readable = cache[x].readable
                         /\ cache[x].addr \notin perm => cache'[x] = cache[x]
  <2>1. CASE setup.site = "mem"
    BY <2>1 DEF CheckPermanent, MemType
  <2>2. CASE setup.site # "mem"
    <3> DEFINE again(x) == [cache[x] EXCEPT !.data = Applied(setup.type, cache[x].data)]
    <3>1. cache' = [x \in Ways |-> IF cache[x].addr \in perm THEN again(x) ELSE cache[x]]
      BY <2>2 DEF CheckPermanent
    <3>2. ASSUME NEW x \in Ways
          PROVE  /\ again(x) \in Line /\ again(x).addr = cache[x].addr
                 /\ again(x).dirty = cache[x].dirty
                 /\ again(x).readable = cache[x].readable
      <4>1. cache[x] \in Line
        BY <3>2 DEF MemType
      <4>2. Applied(setup.type, cache[x].data) \in SUBSET Bits
        BY <4>1, AppliedType DEF Line
      <4> QED
        BY <4>1, <4>2 DEF Line
    <3> HIDE DEF again
    <3> QED
      BY <3>1, <3>2 DEF MemType
  <2> QED
    BY <2>1, <2>2
<1>3. /\ mem' \in [Addrs -> SUBSET Bits]
      /\ \A b \in Addrs : b \notin perm => mem'[b] = mem[b]
  <2>1. CASE setup.site = "cache"
    BY <2>1 DEF CheckPermanent, MemType
  <2>2. CASE setup.site # "cache"
    <3>1. mem' = [b \in Addrs |-> IF b \in perm THEN Applied(setup.type, mem[b]) ELSE mem[b]]
      BY <2>2 DEF CheckPermanent
    <3>2. \A b \in Addrs : Applied(setup.type, mem[b]) \in SUBSET Bits
      BY AppliedType DEF MemType
    <3> QED
      BY <3>1, <3>2 DEF MemType
  <2> QED
    BY <2>1, <2>2
<1>4. MemType'
  BY <1>1, <1>2, <1>3 DEF MemType
<1>5. OneCopy' /\ FaultBudget' /\ AliasIsTagFault' /\ CleanBefore'
  BY <1>1, <1>2 DEF OneCopy, Valid, FaultBudget, AliasIsTagFault, CleanBefore
<1>6. Touched' \subseteq Touched
  <2>1. ASSUME NEW b \in Addrs, b \notin perm, Intact(b) PROVE Intact(b)'
    BY <1>1, <1>2, <1>3, <2>1 DEF Intact
  <2> QED
    BY <1>1, <2>1, DamagedNotIntact DEF Touched
<1>7. TouchedBounded'
  BY <1>1, <1>4, <1>6, TouchedStep DEF MemType
<1>8. FlipsVanish'
  BY <1>1, <1>6 DEF FlipsVanish, EccFlip
<1> QED
  BY <1>4, <1>5, <1>7, <1>8

LEMMA NextMem == MemInv /\ [Next]_vars => MemInv'
<1> SUFFICES ASSUME MemInv, [Next]_vars PROVE MemInv'
  OBVIOUS
<1>1. CASE UNCHANGED vars
  <2>1. UNCHANGED <<setup, cache, mem, alias, perm, attack, count, landed, panicked,
                    golden, misread>>
    BY <1>1 DEF vars, injector
  <2>2. MemType' /\ OneCopy' /\ FaultBudget' /\ AliasIsTagFault' /\ CleanBefore'
    BY <2>1 DEF MemInv, MemType, OneCopy, Valid, FaultBudget, AliasIsTagFault, CleanBefore
  <2>3. TouchedBounded' /\ FlipsVanish'
    BY <2>1 DEF MemInv, TouchedBounded, FlipsVanish, EccFlip, Touched, Damaged, Found, Valid
  <2> QED
    BY <2>2, <2>3 DEF MemInv
<1>2. CASE Next
  BY <1>2, LoadKeeps, StoreKeeps, InjectCacheKeeps, AttackKeeps, CheckKeeps DEF Next
<1> QED
  BY <1>1, <1>2

----------------------------------------------------------------------------
\* The strengthened invariant of CHAOSCache and CHAOSMem: whatever the program
\* does between the injections, the addresses that are wrong or that the
\* periodic check will make wrong are no more than the faults that landed.
THEOREM MemInvariance == Spec => []MemInv
<1>1. Init => MemInv
  BY InitMem
<1>2. MemInv /\ [Next]_vars => MemInv'
  BY NextMem
<1> QED
  BY <1>1, <1>2, PTL DEF Spec

\* A single-bit flip that applyProtectionModel or attackMemory corrects damages
\* no copy and no load, for any program, any number of faults and any ECC.
THEOREM CorrectedFlips == Spec => []CorrectedIsMasked
<1>1. MemInv => CorrectedIsMasked
  BY DEF MemInv, FlipsVanish, EccFlip, CorrectedIsMasked, Touched
<1> QED
  BY <1>1, MemInvariance, PTL

\* Fault accounting: unless tags alias, injectFault, attackMemory,
\* chaosCorruptWriteback and checkPermanent together damage at most one address
\* per fault that landed, at most maxFaults land, and before the first of them
\* no load is wrong and no assertion of gem5 fails.
THEOREM DamageLimited == Spec => []DamageBounded
<1>1. MemInv => DamageBounded
  <2> SUFFICES ASSUME MemInv PROVE DamageBounded
    OBVIOUS
  <2>1. ASSUME setup.field # "tag" PROVE Cardinality(Damaged) <= landed
    <3>1. Cardinality(Touched) <= landed
      BY <2>1 DEF MemInv, AliasIsTagFault, TouchedBounded
    <3>2. Touched \in SUBSET Addrs /\ Damaged \in SUBSET Addrs /\ landed \in Nat
          /\ Damaged \subseteq Touched
      BY TouchedAddrs DEF MemInv, MemType, Damaged, Touched
    <3> QED
      BY <3>1, <3>2, GrowsByOne
  <2> QED
    BY <2>1 DEF MemInv, FaultBudget, CleanBefore, DamageBounded
<1> QED
  BY <1>1, MemInvariance, PTL
==============================================================================
