---------------------------- MODULE ExMonProofs ----------------------------
(***************************************************************************)
(* Proofs about the exclusive monitors for any number of contexts, words   *)
(* and blocks, any layout, any number of loads, writes and faults, with or *)
(* without a snoop filter:                                                 *)
(*   - the types, and that a locked word is fresh;                         *)
(*   - what it takes to lose an update;                                    *)
(*   - ExMon implements LLSC, its reservations being the cache's locks.    *)
(* The inductive invariant is IInv: LockedIsFresh, what it needs of the    *)
(* pipeline (Shape), and that without a snoop filter the monitor vouches   *)
(* for the program's version until the store-exclusive is sent             *)
(* (MonitorFresh), after which the lock does (SentFresh).                  *)
(***************************************************************************)
EXTENDS ExMon, TLAPS

\* A context has one exclusive access in flight; strays are locks; what a
\* load-exclusive got is a version that was written.
Shape ==
    \A c \in CPUs :
        /\ ll[c] = None \/ sc[c] = None
        /\ stray[c] \subseteq locks[c]
        /\ HasData(c) => ll[c].got \in 1 .. mem[ll[c].addr]

\* Without a snoop filter no write is missed, in the register or on the way.
MonitorFresh ==
    ~filter => \A c \in CPUs :
        /\ lockFlag[c] => seen[c][lockAddr[c]] = mem[lockAddr[c]]
        /\ HasData(c) /\ ll[c].flag => ll[c].got = mem[ll[c].addr]

\* The monitor allowed this store-exclusive, and no late answer came since.
Sent(c) == /\ sc[c] # None /\ sc[c].addr = lockAddr[c]
           /\ ~sc[c].stale /\ ~sc[c].raced

SentFresh ==
    ~filter => \A c \in CPUs :
        Sent(c) => \/ seen[c][lockAddr[c]] = mem[lockAddr[c]]
                   \/ lockAddr[c] \notin locks[c]

IInv == TypeOK /\ LockedIsFresh /\ Shape /\ MonitorFresh /\ SentFresh

----------------------------------------------------------------------------
LEMMA NoneIsNone == None \notin Loads /\ None \notin Stores
  BY DEF None, Loads, Stores

\* What a snoop does to the load-exclusives in flight.
Snooped(d) ==
    /\ (ll'[d] = None) <=> (ll[d] = None)
    /\ ll[d] # None => /\ ll'[d].addr = ll[d].addr /\ ll'[d].got = ll[d].got
                       /\ ll'[d].kept = ll[d].kept
                       /\ ll'[d].flag => ll[d].flag

\* The invalidations of TakeBlock keep the types of what they change, take the
\* block from everybody else, and without a snoop filter reach every monitor.
LEMMA TakeBlockFacts ==
    ASSUME TypeOK, NEW c \in CPUs, NEW b \in Blocks, TakeBlock(c, b)
    PROVE  /\ lockFlag' \in [CPUs -> BOOLEAN]
           /\ ll' \in [CPUs -> Loads \cup {None}]
           /\ held' = [d \in CPUs |-> IF d = c THEN held[d] \cup {b}
                                      ELSE held[d] \ {b}]
           /\ \A d \in CPUs : (lockFlag'[d] => lockFlag[d]) /\ Snooped(d)
           /\ ~filter => \A d \in CPUs \ {c} :
                 /\ lockFlag'[d] => BlockOf[lockAddr[d]] # b
                 /\ ll[d] # None /\ BlockOf[ll[d].addr] = b => ~ll'[d].flag
  <1>1. PICK snooped \in SUBSET (CPUs \ {c}) :
           /\ {d \in CPUs \ {c} : b \in held[d] \/ ~filter} \subseteq snooped
           /\ held' = [d \in CPUs |-> IF d = c THEN held[d] \cup {b}
                                      ELSE held[d] \ {b}]
           /\ lockFlag' = [d \in CPUs |->
                 lockFlag[d] /\ ~(d \in snooped /\ BlockOf[lockAddr[d]] = b)]
           /\ ll' = [d \in CPUs |->
                 IF d \in snooped /\ ll[d] # None /\ BlockOf[ll[d].addr] = b
                   THEN [ll[d] EXCEPT !.flag = FALSE] ELSE ll[d]]
      BY DEF TakeBlock
  <1>2. lockFlag' \in [CPUs -> BOOLEAN]
      BY <1>1, Zenon
  <1>3. \A d \in CPUs : ll[d] \in Loads \cup {None}
      BY DEF TypeOK
  <1>4. \A d \in CPUs : ll[d] # None =>
            /\ [ll[d] EXCEPT !.flag = FALSE] \in Loads
            /\ [ll[d] EXCEPT !.flag = FALSE].addr = ll[d].addr
            /\ [ll[d] EXCEPT !.flag = FALSE].got = ll[d].got
            /\ [ll[d] EXCEPT !.flag = FALSE].kept = ll[d].kept
            /\ [ll[d] EXCEPT !.flag = FALSE].flag = FALSE
      BY <1>3 DEF Loads
  <1>5. ll' \in [CPUs -> Loads \cup {None}]
      BY <1>1, <1>3, <1>4
  <1>6. \A d \in CPUs : lockFlag'[d] => lockFlag[d]
      BY <1>1, Zenon
  <1>7. \A d \in CPUs : Snooped(d)
    <2> SUFFICES ASSUME NEW d \in CPUs PROVE Snooped(d)
        OBVIOUS
    <2>1. CASE ll'[d] = ll[d]
        BY <2>1 DEF Snooped
    <2>2. CASE ll'[d] # ll[d]
      <3>1. ll[d] # None /\ ll'[d] = [ll[d] EXCEPT !.flag = FALSE]
          BY <1>1, <2>2
      <3>2. ll'[d] # None
          BY <1>4, <3>1, NoneIsNone
      <3> QED BY <1>4, <3>1, <3>2 DEF Snooped
    <2> QED BY <2>1, <2>2
  <1>8. ASSUME ~filter, NEW d \in CPUs \ {c}
        PROVE  /\ lockFlag'[d] => BlockOf[lockAddr[d]] # b
               /\ ll[d] # None /\ BlockOf[ll[d].addr] = b => ~ll'[d].flag
    <2>1. d \in snooped
        BY <1>1, <1>8
    <2>2. lockFlag'[d] => BlockOf[lockAddr[d]] # b
        BY <1>1, <2>1, Zenon
    <2>3. ASSUME ll[d] # None, BlockOf[ll[d].addr] = b
          PROVE  ll'[d].flag = FALSE
      <3>1. ll'[d] = [ll[d] EXCEPT !.flag = FALSE]
          BY <1>1, <2>1, <2>3
      <3> QED BY <1>4, <2>3, <3>1
    <2> QED BY <2>2, <2>3
  <1> QED BY <1>1, <1>2, <1>5, <1>6, <1>7, <1>8

\* The version a write makes is a number again.
LEMMA WriteFacts ==
    ASSUME TypeOK, NEW c \in CPUs, NEW a \in Addrs, WriteWord(c, a)
    PROVE  /\ mem' \in [Addrs -> Nat \ {0}]
           /\ seen' \in [CPUs -> [Addrs -> Nat]]
           /\ seen'[c][a] = mem'[a]
           /\ \A d \in CPUs : \A w \in Addrs :
                 (d # c \/ w # a) => seen'[d][w] = seen[d][w]
           /\ \A w \in Addrs : w # a => mem'[w] = mem[w]
           /\ mem'[a] = mem[a] + 1 /\ mem[a] \in Nat \ {0}
  <1>1. mem[a] \in Nat \ {0} /\ mem[a] + 1 \in Nat \ {0}
      BY DEF TypeOK
  <1> QED BY <1>1 DEF WriteWord, TypeOK

LEMMA InitIInv == Init => IInv
  <1> SUFFICES ASSUME Init PROVE IInv
      OBVIOUS
  <1>1. lockAddr \in [CPUs -> Addrs]
      BY ExMonAssumption DEF Init
  <1>2. TypeOK
      BY <1>1 DEF Init, TypeOK
  <1>3. LockedIsFresh /\ Shape /\ MonitorFresh /\ SentFresh
      BY DEF Init, LockedIsFresh, Shape, MonitorFresh, SentFresh, Sent, HasData
  <1> QED BY <1>2, <1>3 DEF IInv

\* A step in which c takes the block of a and writes a, or does not: the parts
\* of the invariant that are not types.  own is what its cache keeps locked.
LEMMA TakeStep ==
    ASSUME IInv, NEW c \in CPUs, NEW a \in Addrs, NEW own \in SUBSET locks[c],
           TakeBlock(c, BlockOf[a]), ~Reading(c, a),
           WriteWord(c, a) \/ UNCHANGED <<mem, seen>>,
           locks' = [d \in CPUs |-> IF d = c THEN own
                                    ELSE locks[d] \ WordsOf(BlockOf[a])],
           stray' = [d \in CPUs |-> stray[d] \cap locks'[d]],
           sc'[c] = None, \A d \in CPUs \ {c} : sc'[d] = sc[d],
           UNCHANGED <<filter, lockAddr>>
    PROVE  LockedIsFresh' /\ Shape' /\ MonitorFresh' /\ SentFresh'
  <1> DEFINE b == BlockOf[a]
  <1>1. TypeOK /\ b \in Blocks
      BY DEF IInv, Blocks
  <1>2. /\ held' = [d \in CPUs |-> IF d = c THEN held[d] \cup {b}
                                   ELSE held[d] \ {b}]
        /\ \A d \in CPUs : (lockFlag'[d] => lockFlag[d]) /\ Snooped(d)
        /\ ~filter => \A d \in CPUs \ {c} :
              /\ lockFlag'[d] => BlockOf[lockAddr[d]] # b
              /\ ll[d] # None /\ BlockOf[ll[d].addr] = b => ~ll'[d].flag
      BY <1>1, TakeBlockFacts
  <1>3. /\ \A d \in CPUs : \A w \in Addrs :
              (d # c \/ w # a) => seen'[d][w] = seen[d][w]
        /\ \A w \in Addrs : w # a => mem'[w] = mem[w]
        /\ seen[c][a] = mem[a] => seen'[c][a] = mem'[a]
        /\ \A w \in Addrs : mem[w] \in Nat /\ mem'[w] \in Nat
                            /\ mem[w] <= mem'[w]
    <2>1. \A w \in Addrs : mem[w] \in Nat
        BY <1>1 DEF TypeOK
    <2>2. CASE WriteWord(c, a)
        BY <1>1, <2>1, <2>2, WriteFacts
    <2>3. CASE UNCHANGED <<mem, seen>>
        BY <2>1, <2>3
    <2> QED BY <2>2, <2>3
  <1>4. ASSUME NEW d \in CPUs
        PROVE  /\ HasData(d)' <=> HasData(d)
               /\ \A w \in Addrs : Reading(d, w)' <=> Reading(d, w)
               /\ HasData(d) => /\ ll[d] # None /\ ll[d].addr \in Addrs
                                /\ ll[d].got \in Nat
                                /\ ll'[d].addr = ll[d].addr
                                /\ ll'[d].got = ll[d].got
                                /\ ll'[d].kept = ll[d].kept
                                /\ ll'[d].flag => ll[d].flag
    <2>1. Snooped(d)
        BY <1>2
    <2>2. ll[d] # None => ll[d] \in Loads
        BY <1>1 DEF TypeOK
    <2> QED BY <2>1, <2>2 DEF Snooped, HasData, Reading, Loads
  <1>5. ASSUME NEW d \in CPUs, NEW w \in locks'[d]
        PROVE  w \in locks[d] /\ w \in Addrs /\ (d = c \/ BlockOf[w] # b)
      BY <1>1, <1>5 DEF TypeOK, WordsOf
  <1>6. LockedIsFresh'
    <2> SUFFICES ASSUME NEW d \in CPUs, NEW w \in locks'[d]
                 PROVE  /\ BlockOf[w] \in held'[d]
                        /\ Reading(d, w)' /\ w \notin stray'[d]
                              => ll'[d].got = mem'[w]
                        /\ Backed(d, w)' => seen'[d][w] = mem'[w]
        BY DEF LockedIsFresh
    <2>1. w \in locks[d] /\ w \in Addrs /\ (d = c \/ BlockOf[w] # b)
        BY <1>5
    <2>2. /\ BlockOf[w] \in held[d]
          /\ Reading(d, w) /\ w \notin stray[d] => ll[d].got = mem[w]
          /\ Backed(d, w) => seen[d][w] = mem[w]
        BY <2>1 DEF IInv, LockedIsFresh
    <2>3. w \notin stray'[d] => w \notin stray[d]
        OBVIOUS
    <2>4. BlockOf[w] \in held'[d]
        BY <1>2, <2>1, <2>2
    <2>5. ASSUME Reading(d, w)', w \notin stray'[d]
          PROVE  ll'[d].got = mem'[w]
      <3>1. Reading(d, w) /\ HasData(d)
          BY <1>4, <2>1, <2>5 DEF Reading
      <3>2. w # a
          BY <2>1, <3>1
      <3> QED BY <1>3, <1>4, <2>1, <2>2, <2>3, <2>5, <3>1, <3>2
    <2>6. ASSUME Backed(d, w)' PROVE seen'[d][w] = mem'[w]
      <3>1. w \notin stray[d]
          BY <2>3, <2>6 DEF Backed
      <3>2. Reading(d, w) => ll[d].kept
          BY <1>4, <2>1, <2>6 DEF Backed, Reading
      <3>3. seen[d][w] = mem[w]
          BY <2>1, <2>2, <3>1, <3>2 DEF Backed
      <3>4. CASE w # a
          BY <1>3, <2>1, <3>3, <3>4
      <3>5. CASE w = a
          BY <1>3, <2>1, <3>3, <3>5
      <3> QED BY <3>4, <3>5
    <2> QED BY <2>4, <2>5, <2>6
  <1>7. Shape'
    <2> SUFFICES ASSUME NEW d \in CPUs
                 PROVE  /\ ll'[d] = None \/ sc'[d] = None
                        /\ stray'[d] \subseteq locks'[d]
                        /\ HasData(d)' => ll'[d].got \in 1 .. mem'[ll'[d].addr]
        BY DEF Shape
    <2>1. ll[d] = None \/ sc[d] = None
        BY DEF IInv, Shape
    <2>2. ll'[d] = None \/ sc'[d] = None
        BY <1>2, <2>1 DEF Snooped
    <2>3. ASSUME HasData(d)' PROVE ll'[d].got \in 1 .. mem'[ll'[d].addr]
      <3>1. HasData(d) /\ ll[d].got \in 1 .. mem[ll[d].addr]
          BY <1>4, <2>3 DEF IInv, Shape
      <3>2. ll[d].addr \in Addrs /\ ll'[d].addr = ll[d].addr
            /\ ll'[d].got = ll[d].got
          BY <1>4, <3>1
      <3>3. mem[ll[d].addr] \in Nat /\ mem'[ll[d].addr] \in Nat
            /\ mem[ll[d].addr] <= mem'[ll[d].addr]
          BY <1>3, <3>2
      <3> QED BY <3>1, <3>2, <3>3
    <2> QED BY <2>2, <2>3
  <1>8. MonitorFresh'
    <2> SUFFICES ASSUME ~filter, NEW d \in CPUs
                 PROVE  /\ lockFlag'[d] => seen'[d][lockAddr[d]]
                                             = mem'[lockAddr[d]]
                        /\ HasData(d)' /\ ll'[d].flag
                             => ll'[d].got = mem'[ll'[d].addr]
        BY DEF MonitorFresh
    <2>1. lockAddr[d] \in Addrs
        BY <1>1 DEF TypeOK
    <2>2. ASSUME lockFlag'[d] PROVE seen'[d][lockAddr[d]] = mem'[lockAddr[d]]
      <3>1. seen[d][lockAddr[d]] = mem[lockAddr[d]]
          BY <1>2, <2>2 DEF IInv, MonitorFresh
      <3>2. d = c \/ lockAddr[d] # a
          BY <1>2, <2>2
      <3>3. CASE lockAddr[d] # a
          BY <1>3, <2>1, <3>1, <3>3
      <3>4. CASE lockAddr[d] = a
          BY <1>3, <3>1, <3>2, <3>4
      <3> QED BY <3>3, <3>4
    <2>3. ASSUME HasData(d)', ll'[d].flag
          PROVE  ll'[d].got = mem'[ll'[d].addr]
      <3>1. HasData(d)
          BY <1>4, <2>3
      <3>2. /\ ll[d] # None /\ ll[d].addr \in Addrs /\ ll'[d].addr = ll[d].addr
            /\ ll'[d].got = ll[d].got
            /\ ll'[d].flag => ll[d].flag
          BY <1>4, <3>1
      <3>3. ll[d].got = mem[ll[d].addr]
          BY <2>3, <3>1, <3>2 DEF IInv, MonitorFresh
      <3>4. ll[d].addr # a
        <4>1. CASE d = c
            BY <3>1, <4>1 DEF Reading
        <4>2. CASE d # c
            BY <1>2, <2>3, <3>2, <4>2
        <4> QED BY <4>1, <4>2
      <3> QED BY <1>3, <3>2, <3>3, <3>4
    <2> QED BY <2>2, <2>3
  <1>9. SentFresh'
    <2> SUFFICES ASSUME ~filter, NEW d \in CPUs, Sent(d)'
                 PROVE  \/ seen'[d][lockAddr[d]] = mem'[lockAddr[d]]
                        \/ lockAddr[d] \notin locks'[d]
        BY DEF SentFresh
    <2>1. d # c /\ Sent(d) /\ lockAddr[d] \in Addrs
        BY <1>1 DEF Sent, TypeOK
    <2>2. \/ seen[d][lockAddr[d]] = mem[lockAddr[d]]
          \/ lockAddr[d] \notin locks[d]
        BY <2>1 DEF IInv, SentFresh
    <2>3. CASE lockAddr[d] \notin locks[d]
        BY <1>5, <2>3
    <2>4. CASE lockAddr[d] = a
        BY <1>5, <2>1, <2>4
    <2>5. CASE seen[d][lockAddr[d]] = mem[lockAddr[d]] /\ lockAddr[d] # a
        BY <1>3, <2>1, <2>5
    <2> QED BY <2>2, <2>3, <2>4, <2>5
  <1> QED BY <1>6, <1>7, <1>8, <1>9

\* A load-exclusive gets its data.
LEMMA DataStep == ASSUME IInv, NEW c \in CPUs, LLData(c) PROVE IInv'
  <1> DEFINE a == ll[c].addr
  <1>1. TypeOK /\ ll[c] # None /\ ll[c].got = 0 /\ ll[c] \in Loads
        /\ a \in Addrs /\ BlockOf[a] \in Blocks
      BY DEF IInv, LLData, HasData, TypeOK, Loads, Blocks
  <1>2. mem[a] \in Nat /\ mem[a] # 0
      BY <1>1 DEF TypeOK
  <1>3. /\ held' = [held EXCEPT ![c] = @ \cup {BlockOf[a]}]
        /\ locks' = [locks EXCEPT ![c] = @ \cup {a}]
        /\ stray' = [stray EXCEPT ![c] = @ \ {a}]
        /\ UNCHANGED <<mode, filter, faults, lockFlag, lockAddr, mem, seen,
                       kind, loads, sc, late>>
    <2>1. (locks[c] \ {a}) \cup {a} = locks[c] \cup {a}
        OBVIOUS
    <2> QED BY <2>1 DEF LLData, Answer
  <1>4. Backed(c, a) \in BOOLEAN
      BY DEF Backed
  <1>5. ll'[c] \in Loads /\ ll'[c].addr = a /\ ll'[c].got = mem[a]
        /\ ll'[c].kept = Backed(c, a) /\ ll'[c].flag = ll[c].flag
        /\ \A d \in CPUs \ {c} : ll'[d] = ll[d]
      BY <1>1, <1>2, <1>4 DEF LLData, TypeOK, Loads
  <1>6. ll'[c] # None
      BY <1>5, NoneIsNone
  <1>7. TypeOK'
    <2>1. ll' \in [CPUs -> Loads \cup {None}]
        BY <1>1, <1>5 DEF LLData, TypeOK
    <2> QED BY <1>1, <1>3, <2>1 DEF TypeOK
  <1>8. ~HasData(c) /\ HasData(c)'
      BY <1>1, <1>2, <1>5, <1>6 DEF HasData
  <1>9. \A d \in CPUs \ {c} : /\ HasData(d)' <=> HasData(d)
                              /\ \A w \in Addrs : /\ Reading(d, w)' <=> Reading(d, w)
                                                  /\ Backed(d, w)' <=> Backed(d, w)
      BY <1>3, <1>5, <1>1 DEF HasData, Reading, Backed, TypeOK
  <1>10. LockedIsFresh'
    <2> SUFFICES ASSUME NEW d \in CPUs, NEW w \in locks'[d]
                 PROVE  /\ BlockOf[w] \in held'[d]
                        /\ Reading(d, w)' /\ w \notin stray'[d]
                              => ll'[d].got = mem[w]
                        /\ Backed(d, w)' => seen[d][w] = mem[w]
        BY <1>3 DEF LockedIsFresh
    <2>1. w \in Addrs /\ (w \in locks[d] \/ (d = c /\ w = a))
        BY <1>1, <1>3 DEF TypeOK
    <2>2. w \in locks[d] => /\ BlockOf[w] \in held[d]
                            /\ Reading(d, w) /\ w \notin stray[d]
                                  => ll[d].got = mem[w]
                            /\ Backed(d, w) => seen[d][w] = mem[w]
        BY DEF IInv, LockedIsFresh
    <2>3. CASE d # c
        BY <1>1, <1>3, <1>5, <1>9, <2>1, <2>2, <2>3 DEF TypeOK
    <2>4. CASE d = c /\ w # a
      <3>1. ~Reading(c, w) /\ ~Reading(c, w)'
          BY <1>5, <1>8, <2>4 DEF Reading
      <3>2. Backed(c, w)' => Backed(c, w)
          BY <1>1, <1>3, <2>4, <3>1 DEF Backed, TypeOK
      <3> QED BY <1>1, <1>3, <2>1, <2>2, <2>4, <3>1, <3>2 DEF TypeOK
    <2>5. CASE d = c /\ w = a
      <3>1. BlockOf[a] \in held'[c]
          BY <1>1, <1>3 DEF TypeOK
      <3>2. Backed(c, a)' => Backed(c, a)
          BY <1>5, <1>8 DEF Backed, Reading
      <3>3. Backed(c, a) => a \in locks[c]
          BY DEF Backed
      <3> QED BY <1>5, <2>2, <2>5, <3>1, <3>2, <3>3
    <2> QED BY <2>3, <2>4, <2>5
  <1>11. Shape'
    <2> SUFFICES ASSUME NEW d \in CPUs
                 PROVE  /\ ll'[d] = None \/ sc[d] = None
                        /\ stray'[d] \subseteq locks'[d]
                        /\ HasData(d)' => ll'[d].got \in 1 .. mem[ll'[d].addr]
        BY <1>3 DEF Shape
    <2>1. /\ ll[d] = None \/ sc[d] = None
          /\ stray[d] \subseteq locks[d]
          /\ HasData(d) => ll[d].got \in 1 .. mem[ll[d].addr]
        BY DEF IInv, Shape
    <2>2. stray'[d] \subseteq locks'[d]
        BY <1>1, <1>3, <2>1 DEF TypeOK
    <2>3. CASE d = c
        BY <1>1, <1>2, <1>5, <2>1, <2>2, <2>3
    <2>4. CASE d # c
        BY <1>5, <1>9, <2>1, <2>2, <2>4
    <2> QED BY <2>3, <2>4
  <1>12. MonitorFresh'
    <2> SUFFICES ASSUME ~filter, NEW d \in CPUs
                 PROVE  /\ lockFlag[d] => seen[d][lockAddr[d]] = mem[lockAddr[d]]
                        /\ HasData(d)' /\ ll'[d].flag
                             => ll'[d].got = mem[ll'[d].addr]
        BY <1>3 DEF MonitorFresh
    <2>1. CASE d = c
        BY <1>5, <2>1 DEF IInv, MonitorFresh
    <2>2. CASE d # c
        BY <1>5, <1>9, <2>2 DEF IInv, MonitorFresh
    <2> QED BY <2>1, <2>2
  <1>13. SentFresh'
    <2> SUFFICES ASSUME ~filter, NEW d \in CPUs, Sent(d)'
                 PROVE  \/ seen[d][lockAddr[d]] = mem[lockAddr[d]]
                        \/ lockAddr[d] \notin locks'[d]
        BY <1>3 DEF SentFresh
    <2>1. Sent(d)
        BY <1>3 DEF Sent
    <2>2. d # c
        BY <1>1, <2>1 DEF IInv, Shape, Sent
    <2>3. locks'[d] = locks[d]
        BY <1>1, <1>3, <2>2 DEF TypeOK
    <2> QED BY <2>1, <2>3 DEF IInv, SentFresh
  <1> QED BY <1>7, <1>10, <1>11, <1>12, <1>13 DEF IInv

\* A late answer.
LEMMA LateStep ==
    ASSUME IInv, NEW c \in CPUs, NEW a \in Addrs, LateData(c, a) PROVE IInv'
  <1>1. TypeOK /\ BlockOf[a] \in Blocks
      BY DEF IInv, Blocks
  <1>2. /\ held' = [held EXCEPT ![c] = @ \cup {BlockOf[a]}]
        /\ locks' = [locks EXCEPT ![c] = @ \cup {a}]
        /\ late' = [late EXCEPT ![c] = @ \ {a}]
        /\ stray' = [stray EXCEPT ![c] = @ \cup ({a} \ locks[c])]
        /\ sc' = IF sc[c] # None /\ sc[c].addr = a
                   THEN [sc EXCEPT ![c].raced = TRUE] ELSE sc
        /\ UNCHANGED <<mode, filter, faults, lockFlag, lockAddr, mem, seen,
                       kind, loads, ll>>
    <2>1. (locks[c] \ {a}) \cup {a} = locks[c] \cup {a}
        OBVIOUS
    <2> QED BY <2>1 DEF LateData, Answer
  <1>3. \A d \in CPUs : sc[d] # None => sc[d] \in Stores
      BY <1>1 DEF TypeOK
  <1>4. \A d \in CPUs :
            \/ sc'[d] = sc[d] /\ ~(d = c /\ sc[c] # None /\ sc[c].addr = a)
            \/ /\ d = c /\ sc[c] # None /\ sc'[c] \in Stores
               /\ sc'[c].raced = TRUE
    <2>1. CASE sc[c] # None /\ sc[c].addr = a
      <3>1. sc' = [sc EXCEPT ![c].raced = TRUE]
          BY <1>2, <2>1
      <3>2. sc'[c] = [sc[c] EXCEPT !.raced = TRUE]
          BY <1>1, <3>1 DEF TypeOK
      <3>3. sc'[c] \in Stores /\ sc'[c].raced = TRUE
          BY <1>3, <2>1, <3>2 DEF Stores
      <3>4. \A d \in CPUs \ {c} : sc'[d] = sc[d]
          BY <1>1, <3>1 DEF TypeOK
      <3> QED BY <2>1, <3>3, <3>4
    <2>2. CASE ~(sc[c] # None /\ sc[c].addr = a)
        BY <1>2, <2>2
    <2> QED BY <2>1, <2>2
  <1>5. TypeOK'
    <2>1. sc' \in [CPUs -> Stores \cup {None}]
      <3>1. DOMAIN sc' = CPUs /\ sc' = [d \in CPUs |-> sc'[d]]
          BY <1>1, <1>2 DEF TypeOK
      <3>2. \A d \in CPUs : sc'[d] \in Stores \cup {None}
          BY <1>3, <1>4
      <3> QED BY <3>1, <3>2
    <2> QED BY <1>1, <1>2, <2>1 DEF TypeOK
  <1>6. \A d \in CPUs : /\ HasData(d)' <=> HasData(d)
                        /\ \A w \in Addrs : Reading(d, w)' <=> Reading(d, w)
      BY <1>2 DEF HasData, Reading
  <1>7. \A d \in CPUs : stray[d] \subseteq locks[d]
      BY DEF IInv, Shape
  <1>8. LockedIsFresh'
    <2> SUFFICES ASSUME NEW d \in CPUs, NEW w \in locks'[d]
                 PROVE  /\ BlockOf[w] \in held'[d]
                        /\ Reading(d, w) /\ w \notin stray'[d]
                              => ll[d].got = mem[w]
                        /\ Backed(d, w)' => seen[d][w] = mem[w]
      <3>1. \A d \in CPUs : locks'[d] \subseteq Addrs
          BY <1>5 DEF TypeOK
      <3> QED BY <1>2, <1>6, <3>1 DEF LockedIsFresh
    <2>1. w \in Addrs /\ (w \in locks[d] \/ (d = c /\ w = a))
        BY <1>1, <1>2 DEF TypeOK
    <2>2. CASE w \in locks[d]
      <3>1. /\ BlockOf[w] \in held[d]
            /\ Reading(d, w) /\ w \notin stray[d] => ll[d].got = mem[w]
            /\ Backed(d, w) => seen[d][w] = mem[w]
          BY <2>2 DEF IInv, LockedIsFresh
      <3>2. w \in stray'[d] <=> w \in stray[d]
          BY <1>1, <1>2, <2>2 DEF TypeOK
      <3>3. BlockOf[w] \in held'[d]
          BY <1>1, <1>2, <3>1 DEF TypeOK
      <3>4. Backed(d, w)' => Backed(d, w)
          BY <1>2, <1>6, <2>1, <2>2, <3>2 DEF Backed
      <3> QED BY <3>1, <3>2, <3>3, <3>4
    <2>3. CASE w \notin locks[d]
      <3>1. d = c /\ w = a /\ a \in stray'[c] /\ BlockOf[a] \in held'[c]
          BY <1>1, <1>2, <2>1, <2>3 DEF TypeOK
      <3> QED BY <3>1 DEF Backed
    <2> QED BY <2>2, <2>3
  <1>9. Shape'
    <2> SUFFICES ASSUME NEW d \in CPUs
                 PROVE  /\ ll[d] = None \/ sc'[d] = None
                        /\ stray'[d] \subseteq locks'[d]
                        /\ HasData(d) => ll[d].got \in 1 .. mem[ll[d].addr]
        BY <1>2, <1>6 DEF Shape
    <2>1. ll[d] = None \/ sc'[d] = None
        BY <1>4 DEF IInv, Shape
    <2>2. stray'[d] \subseteq locks'[d]
        BY <1>1, <1>2, <1>7 DEF TypeOK
    <2> QED BY <2>1, <2>2 DEF IInv, Shape
  <1>10. MonitorFresh'
      BY <1>2, <1>6 DEF IInv, MonitorFresh
  <1>11. SentFresh'
    <2> SUFFICES ASSUME ~filter, NEW d \in CPUs, Sent(d)'
                 PROVE  \/ seen[d][lockAddr[d]] = mem[lockAddr[d]]
                        \/ lockAddr[d] \notin locks'[d]
        BY <1>2 DEF SentFresh
    <2>1. sc'[d] = sc[d] /\ ~(d = c /\ sc[c] # None /\ sc[c].addr = a)
        BY <1>4 DEF Sent
    <2>2. Sent(d) /\ (d = c => lockAddr[d] # a)
        BY <1>2, <2>1 DEF Sent
    <2>3. lockAddr[d] \in locks'[d] => lockAddr[d] \in locks[d]
        BY <1>1, <1>2, <2>2 DEF TypeOK
    <2> QED BY <2>2, <2>3 DEF IInv, SentFresh
  <1> QED BY <1>5, <1>8, <1>9, <1>10, <1>11 DEF IInv

\* A load-exclusive commits.
LEMMA CommitStep == ASSUME IInv, NEW c \in CPUs, LLCommit(c) PROVE IInv'
  <1> DEFINE a == ll[c].addr
             v == ll[c].got
  <1>1. TypeOK /\ HasData(c) /\ ll[c] # None /\ ll[c].flag \in BOOLEAN
        /\ a \in Addrs /\ v \in Nat
      BY DEF IInv, LLCommit, HasData, TypeOK, Loads
  <1>2. /\ lockFlag' = [lockFlag EXCEPT ![c] = ll[c].flag]
        /\ lockAddr' = [lockAddr EXCEPT ![c] = a]
        /\ seen' = [seen EXCEPT ![c][a] = v]
        /\ ll' = [ll EXCEPT ![c] = None]
        /\ UNCHANGED <<mode, filter, faults, sc, late, held, locks, stray, mem,
                       kind, loads>>
      BY DEF LLCommit
  <1>3. seen'[c][a] = v /\ \A d \in CPUs : \A w \in Addrs :
            (d # c \/ w # a) => seen'[d][w] = seen[d][w]
      BY <1>1, <1>2 DEF TypeOK
  <1>4. ll'[c] = None /\ \A d \in CPUs \ {c} : ll'[d] = ll[d]
      BY <1>1, <1>2 DEF TypeOK
  <1>5. TypeOK'
      BY <1>1, <1>2 DEF TypeOK
  <1>6. ~HasData(c)' /\ \A d \in CPUs \ {c} :
            /\ HasData(d)' <=> HasData(d)
            /\ \A w \in Addrs : /\ Reading(d, w)' <=> Reading(d, w)
                                /\ Backed(d, w)' <=> Backed(d, w)
      BY <1>2, <1>4 DEF HasData, Reading, Backed
  <1>7. LockedIsFresh'
    <2> SUFFICES ASSUME NEW d \in CPUs, NEW w \in locks[d]
                 PROVE  /\ BlockOf[w] \in held[d]
                        /\ Reading(d, w)' /\ w \notin stray[d]
                              => ll'[d].got = mem[w]
                        /\ Backed(d, w)' => seen'[d][w] = mem[w]
        BY <1>2 DEF LockedIsFresh
    <2>1. /\ w \in Addrs /\ BlockOf[w] \in held[d]
          /\ Reading(d, w) /\ w \notin stray[d] => ll[d].got = mem[w]
          /\ Backed(d, w) => seen[d][w] = mem[w]
        BY <1>1 DEF IInv, LockedIsFresh, TypeOK
    <2>2. CASE d # c
        BY <1>3, <1>4, <1>6, <2>1, <2>2
    <2>3. CASE d = c /\ w # a
      <3>1. ~Reading(c, w) /\ ~Reading(c, w)'
          BY <1>6, <2>3 DEF Reading
      <3>2. Backed(c, w)' => Backed(c, w)
          BY <1>2, <3>1 DEF Backed
      <3> QED BY <1>3, <2>1, <2>3, <3>1, <3>2
    <2>4. CASE d = c /\ w = a
      <3>1. Reading(c, w) /\ ~Reading(c, w)'
          BY <1>1, <1>6, <2>4 DEF Reading
      <3>2. Backed(c, w)' => w \notin stray[c]
          BY <1>2 DEF Backed
      <3> QED BY <1>3, <2>1, <2>4, <3>1, <3>2
    <2> QED BY <2>2, <2>3, <2>4
  <1>8. Shape'
      BY <1>2, <1>4, <1>6 DEF IInv, Shape
  <1>9. MonitorFresh'
    <2> SUFFICES ASSUME ~filter, NEW d \in CPUs
                 PROVE  /\ lockFlag'[d] => seen'[d][lockAddr'[d]]
                                             = mem[lockAddr'[d]]
                        /\ HasData(d)' /\ ll'[d].flag
                             => ll'[d].got = mem[ll'[d].addr]
        BY <1>2 DEF MonitorFresh
    <2>1. /\ lockFlag[d] => seen[d][lockAddr[d]] = mem[lockAddr[d]]
          /\ HasData(d) /\ ll[d].flag => ll[d].got = mem[ll[d].addr]
        BY DEF IInv, MonitorFresh
    <2>2. CASE d = c
      <3>1. lockAddr'[c] = a /\ lockFlag'[c] = ll[c].flag
          BY <1>1, <1>2 DEF TypeOK
      <3> QED BY <1>1, <1>3, <1>6, <2>1, <2>2, <3>1
    <2>3. CASE d # c
      <3>1. /\ lockAddr'[d] = lockAddr[d] /\ lockFlag'[d] = lockFlag[d]
            /\ lockAddr[d] \in Addrs
          BY <1>1, <1>2, <2>3 DEF TypeOK
      <3> QED BY <1>3, <1>4, <1>6, <2>1, <2>3, <3>1
    <2> QED BY <2>2, <2>3
  <1>10. SentFresh'
    <2> SUFFICES ASSUME ~filter, NEW d \in CPUs, Sent(d)'
                 PROVE  \/ seen'[d][lockAddr'[d]] = mem[lockAddr'[d]]
                        \/ lockAddr'[d] \notin locks[d]
        BY <1>2 DEF SentFresh
    <2>1. d # c
        BY <1>1, <1>2 DEF IInv, Shape, Sent
    <2>2. lockAddr'[d] = lockAddr[d] /\ lockAddr[d] \in Addrs
        BY <1>1, <1>2, <2>1 DEF TypeOK
    <2>3. Sent(d)
        BY <1>2, <2>2 DEF Sent
    <2> QED BY <1>3, <2>1, <2>2, <2>3 DEF IInv, SentFresh
  <1> QED BY <1>5, <1>7, <1>8, <1>9, <1>10 DEF IInv

\* A load-exclusive is squashed.
LEMMA SquashStep == ASSUME IInv, NEW c \in CPUs, LLSquash(c) PROVE IInv'
  <1> DEFINE a == ll[c].addr
  <1>1. TypeOK /\ ll[c] # None /\ a \in Addrs
      BY DEF IInv, LLSquash, TypeOK, Loads
  <1>2. /\ ll' = [ll EXCEPT ![c] = None]
        /\ UNCHANGED <<mode, filter, faults, lockFlag, lockAddr, sc, held,
                       locks, mem, seen, kind, loads>>
      BY DEF LLSquash
  <1>3. /\ late' \in [CPUs -> SUBSET Addrs]
        /\ stray' \in [CPUs -> SUBSET Addrs]
        /\ \A d \in CPUs : /\ stray[d] \subseteq stray'[d]
                           /\ stray'[d] \subseteq stray[d] \cup locks[d]
        /\ HasData(c) /\ ~ll[c].kept /\ a \in locks[c] => a \in stray'[c]
    <2>1. CASE HasData(c)
      <3>1. /\ stray' = [stray EXCEPT ![c] =
                   IF ll[c].kept THEN @ ELSE @ \cup ({a} \cap locks[c])]
            /\ UNCHANGED late
          BY <2>1 DEF LLSquash
      <3>2. stray \in [CPUs -> SUBSET Addrs] /\ late \in [CPUs -> SUBSET Addrs]
          BY <1>1 DEF TypeOK
      <3>3. CASE ll[c].kept
          BY <3>1, <3>2, <3>3
      <3>4. CASE ~ll[c].kept
          BY <1>1, <3>1, <3>2, <3>4
      <3> QED BY <3>3, <3>4
    <2>2. CASE ~HasData(c)
      <3>1. late' \in {late, [late EXCEPT ![c] = @ \cup {a}]} /\ UNCHANGED stray
          BY <2>2 DEF LLSquash
      <3>2. stray \in [CPUs -> SUBSET Addrs] /\ late \in [CPUs -> SUBSET Addrs]
          BY <1>1 DEF TypeOK
      <3>3. late' \in [CPUs -> SUBSET Addrs]
          BY <1>1, <3>1, <3>2
      <3> QED BY <2>2, <3>1, <3>2, <3>3
    <2> QED BY <2>1, <2>2
  <1>4. ll'[c] = None /\ \A d \in CPUs \ {c} : ll'[d] = ll[d]
      BY <1>1, <1>2 DEF TypeOK
  <1>5. TypeOK'
      BY <1>1, <1>2, <1>3 DEF TypeOK
  <1>6. ~HasData(c)' /\ \A d \in CPUs \ {c} :
            /\ HasData(d)' <=> HasData(d)
            /\ \A w \in Addrs : Reading(d, w)' <=> Reading(d, w)
      BY <1>4 DEF HasData, Reading
  <1>7. \A d \in CPUs : \A w \in Addrs : Backed(d, w)' => Backed(d, w)
    <2> SUFFICES ASSUME NEW d \in CPUs, NEW w \in Addrs, Backed(d, w)'
                 PROVE  Backed(d, w)
        OBVIOUS
    <2>1. w \in locks[d] \ stray[d] /\ w \notin stray'[d]
        BY <1>2, <1>3 DEF Backed
    <2>2. CASE d # c
        BY <1>4, <1>6, <2>1, <2>2 DEF Backed
    <2>3. CASE d = c
      <3>1. Reading(c, w) => ll[c].kept
          BY <1>3, <2>1, <2>3 DEF Reading
      <3> QED BY <2>1, <2>3, <3>1 DEF Backed
    <2> QED BY <2>2, <2>3
  <1>8. LockedIsFresh'
    <2> SUFFICES ASSUME NEW d \in CPUs, NEW w \in locks[d]
                 PROVE  /\ BlockOf[w] \in held[d]
                        /\ Reading(d, w)' /\ w \notin stray'[d]
                              => ll'[d].got = mem[w]
                        /\ Backed(d, w)' => seen[d][w] = mem[w]
        BY <1>2 DEF LockedIsFresh
    <2>1. /\ w \in Addrs /\ BlockOf[w] \in held[d]
          /\ Reading(d, w) /\ w \notin stray[d] => ll[d].got = mem[w]
          /\ Backed(d, w) => seen[d][w] = mem[w]
        BY <1>1 DEF IInv, LockedIsFresh, TypeOK
    <2>2. ASSUME Reading(d, w)', w \notin stray'[d] PROVE ll'[d].got = mem[w]
      <3>1. d # c
          BY <1>6, <2>2 DEF Reading
      <3> QED BY <1>3, <1>4, <1>6, <2>1, <2>2, <3>1
    <2> QED BY <1>7, <2>1, <2>2
  <1>9. Shape'
    <2>1. \A d \in CPUs : stray'[d] \subseteq locks[d]
        BY <1>3 DEF IInv, Shape
    <2> QED BY <1>2, <1>4, <1>6, <2>1 DEF IInv, Shape
  <1>10. MonitorFresh'
      BY <1>2, <1>4, <1>6 DEF IInv, MonitorFresh
  <1>11. SentFresh'
      BY <1>2 DEF IInv, SentFresh, Sent
  <1> QED BY <1>5, <1>8, <1>9, <1>10, <1>11 DEF IInv

\* A step that leaves the caches and versions alone keeps the locks fresh.
LEMMA LocalStep ==
    ASSUME IInv, UNCHANGED <<held, locks, stray, mem, seen, ll>>
    PROVE  /\ LockedIsFresh'
           /\ \A c \in CPUs : HasData(c)' <=> HasData(c)
  <1>1. \A c \in CPUs : /\ HasData(c)' <=> HasData(c)
                        /\ \A a : /\ Reading(c, a)' <=> Reading(c, a)
                                  /\ Backed(c, a)' <=> Backed(c, a)
      BY DEF HasData, Reading, Backed
  <1> QED BY <1>1 DEF IInv, LockedIsFresh

LEMMA NextIInv == IInv /\ [Next]_vars => IInv'
  <1> SUFFICES ASSUME IInv, [Next]_vars PROVE IInv'
      OBVIOUS
  <1>0. TypeOK /\ LockedIsFresh /\ Shape /\ MonitorFresh /\ SentFresh
      BY DEF IInv
  <1>1. CASE UNCHANGED vars
      BY <1>0, <1>1, LocalStep
      DEF vars, IInv, TypeOK, Shape, MonitorFresh, SentFresh, Sent
  <1>2. ASSUME NEW c \in CPUs, NEW a \in Addrs, LLExec(c, a) PROVE IInv'
    <2> DEFINE r == [addr |-> a, flag |-> TRUE, got |-> 0, kept |-> FALSE]
    <2>1. r \in Loads /\ r.got = 0
        BY DEF Loads
    <2>2. /\ ll[c] = None /\ sc[c] = None /\ ll' = [ll EXCEPT ![c] = r]
          /\ loads' \in Nat
          /\ UNCHANGED <<mode, filter, faults, lockFlag, lockAddr, sc, late,
                         held, locks, stray, mem, seen, kind>>
        BY <1>0, <1>2 DEF LLExec, Idle, TypeOK
    <2>3. TypeOK'
        BY <1>0, <2>1, <2>2 DEF TypeOK
    <2>4. ll'[c] = r /\ \A d \in CPUs \ {c} : ll'[d] = ll[d]
        BY <1>0, <2>2 DEF TypeOK
    <2>5. \A d \in CPUs : /\ HasData(d)' <=> HasData(d)
                          /\ \A w : Reading(d, w)' <=> Reading(d, w)
                          /\ HasData(d) => ll'[d] = ll[d]
        BY <2>1, <2>2, <2>4 DEF HasData, Reading
    <2>6. \A d \in CPUs : \A w : Backed(d, w)' <=> Backed(d, w)
        BY <2>2, <2>5 DEF Backed, Reading
    <2>7. LockedIsFresh'
        BY <1>0, <2>2, <2>5, <2>6 DEF LockedIsFresh, Reading
    <2>8. Shape'
        BY <1>0, <2>2, <2>4, <2>5 DEF Shape
    <2>9. MonitorFresh' /\ SentFresh'
        BY <1>0, <2>2, <2>5 DEF MonitorFresh, SentFresh, Sent
    <2> QED BY <2>3, <2>7, <2>8, <2>9 DEF IInv
  <1>3. ASSUME NEW c \in CPUs, NEW a \in Addrs, SCSend(c, a) PROVE IInv'
    <2> DEFINE r == [addr |-> a, stale |-> ~MonitorAllows(c, a),
                     raced |-> FALSE]
    <2>1. r \in Stores /\ r.addr = a /\ r.stale = ~MonitorAllows(c, a)
        BY DEF Stores
    <2>2. /\ ll[c] = None /\ sc[c] = None /\ sc' = [sc EXCEPT ![c] = r]
          /\ faults' \in Nat
          /\ UNCHANGED <<mode, filter, lockFlag, lockAddr, ll, late, held,
                         locks, stray, mem, seen, kind, loads>>
        BY <1>0, <1>3 DEF SCSend, Idle, TypeOK
    <2>3. TypeOK'
        BY <1>0, <2>1, <2>2 DEF TypeOK
    <2>4. sc'[c] = r /\ \A d \in CPUs \ {c} : sc'[d] = sc[d]
        BY <1>0, <2>2 DEF TypeOK
    <2>5. LockedIsFresh' /\ \A d \in CPUs : HasData(d)' <=> HasData(d)
        BY <2>2, LocalStep
    <2>6. Shape'
        BY <1>0, <2>2, <2>4, <2>5 DEF Shape
    <2>7. MonitorFresh'
        BY <1>0, <2>2, <2>5 DEF MonitorFresh
    <2>8. SentFresh'
      <3> SUFFICES ASSUME ~filter, NEW d \in CPUs, Sent(d)'
                   PROVE  \/ seen[d][lockAddr[d]] = mem[lockAddr[d]]
                          \/ lockAddr[d] \notin locks[d]
          BY <2>2 DEF SentFresh
      <3>1. CASE d = c
          BY <1>0, <2>1, <2>2, <2>4, <3>1 DEF Sent, MonitorAllows, MonitorFresh
      <3>2. CASE d # c
          BY <1>0, <2>2, <2>4, <3>2 DEF Sent, SentFresh
      <3> QED BY <3>1, <3>2
    <2> QED BY <2>3, <2>5, <2>6, <2>7, <2>8 DEF IInv
  <1>4. ASSUME NEW c \in CPUs,
               Clrex(c) \/ \E a \in Addrs : SCRefused(c, a)
        PROVE  IInv'
    <2>1. /\ lockFlag' = [lockFlag EXCEPT ![c] = FALSE]
          /\ UNCHANGED <<mode, filter, faults, lockAddr, ll, sc, late, held,
                         locks, stray, mem, seen, kind, loads>>
        BY <1>4 DEF Clrex, SCRefused
    <2>2. TypeOK'
        BY <1>0, <2>1 DEF TypeOK
    <2>3. LockedIsFresh' /\ \A d \in CPUs : HasData(d)' <=> HasData(d)
        BY <2>1, LocalStep
    <2>4. Shape'
        BY <1>0, <2>1, <2>3 DEF Shape
    <2>5. \A d \in CPUs : lockFlag'[d] => lockFlag[d]
        BY <1>0, <2>1 DEF TypeOK
    <2>6. MonitorFresh' /\ SentFresh'
        BY <1>0, <2>1, <2>3, <2>5 DEF MonitorFresh, SentFresh, Sent
    <2> QED BY <2>2, <2>3, <2>4, <2>6 DEF IInv
  <1>5. ASSUME NEW c \in CPUs, SCDone(c) PROVE IInv'
    <2>1. PICK a \in Addrs : a = sc[c].addr /\ BlockOf[a] \in Blocks
        BY <1>0, <1>5 DEF SCDone, TypeOK, Stores, Blocks
    <2>2. /\ sc[c] # None /\ TakeBlock(c, BlockOf[a])
          /\ \/ WriteWord(c, a) /\ kind' = "exclusive"
             \/ UNCHANGED <<mem, seen, kind>>
          /\ locks' = [d \in CPUs |-> IF d = c THEN locks[c] \ {a}
                                      ELSE locks[d] \ WordsOf(BlockOf[a])]
          /\ stray' = [d \in CPUs |-> stray[d] \cap locks'[d]]
          /\ sc' = [sc EXCEPT ![c] = None]
          /\ UNCHANGED <<mode, filter, faults, lockAddr, late, loads>>
        BY <1>5, <2>1 DEF SCDone, LocksAfter
    <2>3. /\ lockFlag' \in [CPUs -> BOOLEAN]
          /\ ll' \in [CPUs -> Loads \cup {None}]
          /\ held' = [d \in CPUs |-> IF d = c THEN held[d] \cup {BlockOf[a]}
                                     ELSE held[d] \ {BlockOf[a]}]
        BY <1>0, <2>1, <2>2, TakeBlockFacts
    <2>4. TypeOK'
      <3>1. /\ mem' \in [Addrs -> Nat \ {0}]
            /\ seen' \in [CPUs -> [Addrs -> Nat]]
            /\ kind' \in {"none", "exclusive", "plain"}
          BY <1>0, <2>2, WriteFacts DEF TypeOK
      <3>2. held' \in [CPUs -> SUBSET Blocks]
          BY <1>0, <2>1, <2>3 DEF TypeOK
      <3>3. locks' \in [CPUs -> SUBSET Addrs]
          BY <1>0, <2>2 DEF TypeOK
      <3>4. stray' \in [CPUs -> SUBSET Addrs]
          BY <1>0, <2>2 DEF TypeOK
      <3>5. sc' \in [CPUs -> Stores \cup {None}]
          BY <1>0, <2>2 DEF TypeOK
      <3> QED BY <1>0, <2>2, <2>3, <3>1, <3>2, <3>3, <3>4, <3>5 DEF TypeOK
    <2>5. ~Reading(c, a)
        BY <1>0, <2>2 DEF Shape, Reading, HasData
    <2>6. sc'[c] = None /\ \A d \in CPUs \ {c} : sc'[d] = sc[d]
        BY <1>0, <2>2 DEF TypeOK
    <2>7. LockedIsFresh' /\ Shape' /\ MonitorFresh' /\ SentFresh'
      <3> DEFINE own == locks[c] \ {a}
      <3>1. own \in SUBSET locks[c]
          OBVIOUS
      <3> HIDE DEF own
      <3>2. locks' = [d \in CPUs |-> IF d = c THEN own
                                     ELSE locks[d] \ WordsOf(BlockOf[a])]
          BY <2>2 DEF own
      <3> QED BY <2>2, <2>5, <2>6, <3>1, <3>2, TakeStep
    <2> QED BY <2>4, <2>7 DEF IInv
  <1>6. ASSUME NEW c \in CPUs, NEW a \in Addrs, StoreDone(c, a) PROVE IInv'
    <2>1. BlockOf[a] \in Blocks
        BY DEF Blocks
    <2>2. /\ sc[c] = None /\ ~Reading(c, a)
          /\ TakeBlock(c, BlockOf[a]) /\ WriteWord(c, a) /\ kind' = "plain"
          /\ locks' = [d \in CPUs |-> IF d = c THEN locks[c]
                                      ELSE locks[d] \ WordsOf(BlockOf[a])]
          /\ stray' = [d \in CPUs |-> stray[d] \cap locks'[d]]
          /\ UNCHANGED <<mode, filter, faults, lockAddr, sc, late, loads>>
        BY <1>6 DEF StoreDone, LocksAfter
    <2>3. /\ lockFlag' \in [CPUs -> BOOLEAN]
          /\ ll' \in [CPUs -> Loads \cup {None}]
          /\ held' = [d \in CPUs |-> IF d = c THEN held[d] \cup {BlockOf[a]}
                                     ELSE held[d] \ {BlockOf[a]}]
        BY <1>0, <2>1, <2>2, TakeBlockFacts
    <2>4. TypeOK'
      <3>1. mem' \in [Addrs -> Nat \ {0}] /\ seen' \in [CPUs -> [Addrs -> Nat]]
          BY <1>0, <2>2, WriteFacts
      <3>2. held' \in [CPUs -> SUBSET Blocks]
          BY <1>0, <2>1, <2>3 DEF TypeOK
      <3>3. locks' \in [CPUs -> SUBSET Addrs]
          BY <1>0, <2>2 DEF TypeOK
      <3>4. stray' \in [CPUs -> SUBSET Addrs]
          BY <1>0, <2>2 DEF TypeOK
      <3> QED BY <1>0, <2>2, <2>3, <3>1, <3>2, <3>3, <3>4 DEF TypeOK
    <2>5. LockedIsFresh' /\ Shape' /\ MonitorFresh' /\ SentFresh'
      <3>1. locks[c] \in SUBSET locks[c]
          OBVIOUS
      <3> QED BY <2>2, <3>1, TakeStep
    <2> QED BY <2>4, <2>5 DEF IInv
  <1>7. ASSUME NEW c \in CPUs, NEW b \in Blocks, Evict(c, b) PROVE IInv'
    <2>1. /\ held' = [held EXCEPT ![c] = @ \ {b}]
          /\ locks' = [locks EXCEPT ![c] = locks[c] \ WordsOf(b)]
          /\ stray' = [stray EXCEPT ![c] = @ \cap (locks[c] \ WordsOf(b))]
          /\ UNCHANGED <<mode, filter, faults, lockFlag, lockAddr, ll, sc,
                         late, mem, seen, kind, loads>>
        BY <1>7 DEF Evict, LocksAfter
    <2>2. TypeOK'
        BY <1>0, <2>1 DEF TypeOK
    <2>3. \A d \in CPUs : /\ locks'[d] \subseteq locks[d]
                          /\ stray'[d] = stray[d] \cap locks'[d]
                          /\ d # c => held'[d] = held[d]
          /\ locks'[c] = locks[c] \ WordsOf(b) /\ held'[c] = held[c] \ {b}
      <3>1. \A d \in CPUs : stray[d] \subseteq locks[d]
          BY <1>0 DEF Shape
      <3> QED BY <1>0, <2>1, <3>1 DEF TypeOK
    <2>4. \A d \in CPUs : /\ HasData(d)' <=> HasData(d)
                          /\ \A w \in Addrs : Reading(d, w)' <=> Reading(d, w)
        BY <2>1 DEF HasData, Reading
    <2>5. LockedIsFresh'
      <3> SUFFICES ASSUME NEW d \in CPUs, NEW w \in locks'[d]
                   PROVE  /\ BlockOf[w] \in held'[d]
                          /\ Reading(d, w)' /\ w \notin stray'[d]
                                => ll'[d].got = mem'[w]
                          /\ Backed(d, w)' => seen'[d][w] = mem'[w]
          BY DEF LockedIsFresh
      <3>1. w \in locks[d] /\ w \in Addrs
          BY <1>0, <2>3 DEF TypeOK
      <3>2. /\ BlockOf[w] \in held[d]
            /\ Reading(d, w) /\ w \notin stray[d] => ll[d].got = mem[w]
            /\ Backed(d, w) => seen[d][w] = mem[w]
          BY <1>0, <3>1 DEF LockedIsFresh
      <3>3. BlockOf[w] \in held'[d]
          BY <2>3, <3>1, <3>2 DEF WordsOf
      <3>4. Backed(d, w)' => Backed(d, w)
          BY <2>1, <2>3, <2>4, <3>1 DEF Backed
      <3> QED BY <2>1, <2>3, <2>4, <3>1, <3>2, <3>3, <3>4
    <2>6. Shape'
        BY <1>0, <2>1, <2>3, <2>4 DEF Shape
    <2>7. MonitorFresh'
        BY <1>0, <2>1, <2>4 DEF MonitorFresh
    <2>8. SentFresh'
        BY <1>0, <2>1, <2>3 DEF SentFresh, Sent
    <2> QED BY <2>2, <2>5, <2>6, <2>7, <2>8 DEF IInv
  <1> QED
      BY <1>1, <1>2, <1>3, <1>4, <1>5, <1>6, <1>7, DataStep, LateStep,
         CommitStep, SquashStep
      DEF Next

\* The variables keep their types, and a word in a cache's lock list is in a
\* valid block and unchanged since the load-exclusive behind the lock got it.
THEOREM LocksFresh == Spec => [](TypeOK /\ LockedIsFresh)
  <1>1. Spec => []IInv
      BY InitIInv, NextIInv, PTL DEF Spec
  <1> QED BY <1>1, PTL DEF IInv

\* What it takes for a store-exclusive to overwrite a version its program has
\* not got, in one step.
LEMMA StepNoLostUpdate ==
    ASSUME IInv, [Next]_vars, NEW c \in CPUs, NEW a \in Addrs, Overwrites(c, a)
    PROVE  /\ a \in stray[c]
           /\ sc[c].stale \/ filter \/ sc[c].raced \/ lockAddr[c] # a
  <1>0. sc[c] # None /\ sc[c].addr = a /\ sc'[c] = None /\ mem'[a] # mem[a]
        /\ seen[c][a] # mem[a]
      BY DEF Overwrites
  <1>1. SCDone(c)
    <2>1. ~UNCHANGED vars
        BY <1>0 DEF vars
    <2>2. ASSUME NEW d \in CPUs, NEW w \in Addrs, StoreDone(d, w) PROVE FALSE
        BY <1>0, <2>2 DEF StoreDone
    <2>3. ASSUME NEW d \in CPUs, SCDone(d) PROVE SCDone(c)
        BY <1>0, <2>3 DEF SCDone, IInv, TypeOK
    <2>4. ASSUME NEW d \in CPUs, NEW w \in Addrs, LateData(d, w) PROVE FALSE
        BY <1>0, <2>4 DEF LateData, Answer
    <2>5. ASSUME NEW d \in CPUs, LLData(d) PROVE FALSE
        BY <1>0, <2>5 DEF LLData
    <2> QED BY <1>0, <2>1, <2>2, <2>3, <2>4, <2>5
        DEF Next, LLExec, LLCommit, LLSquash, Clrex, SCSend, SCRefused, Evict
  <1>2. a \in locks[c]
      BY <1>0, <1>1 DEF SCDone, CheckWrite
  <1>3. ~Reading(c, a)
      BY <1>0 DEF IInv, Shape, Reading, HasData
  <1>4. a \in stray[c]
      BY <1>0, <1>2, <1>3 DEF IInv, LockedIsFresh, Backed
  <1>5. sc[c].stale \/ filter \/ sc[c].raced \/ lockAddr[c] # a
      BY <1>0, <1>2 DEF IInv, SentFresh, Sent
  <1> QED BY <1>4, <1>5

\* An update is lost only when both protections fail, in any mode of
\* CHAOSExMon, for any number of contexts.
THEOREM UpdatesKept == Spec => NoLostUpdate
  <1>1. IInv /\ [Next]_vars =>
           [\A c \in CPUs : \A a \in Addrs :
              Overwrites(c, a) =>
                 /\ a \in stray[c]
                 /\ sc[c].stale \/ filter \/ sc[c].raced \/ lockAddr[c] # a]_vars
      BY StepNoLostUpdate
  <1>2. Spec => []IInv
      BY InitIInv, NextIInv, PTL DEF Spec
  <1> QED BY <1>1, <1>2, PTL DEF Spec, NoLostUpdate

----------------------------------------------------------------------------
\* No new lock stands for the program of d, and no new one is left there.
Fewer(d) == /\ \A w \in Addrs : Backed(d, w)' => Backed(d, w)
            /\ stray'[d] \subseteq stray[d]

\* d has no reservation of a, in either form, after the step.
Gone(d, a) == ~Backed(d, a)' /\ a \notin stray'[d]

LEMMA FewerShrinks == ASSUME NEW d \in CPUs, Fewer(d) PROVE Abs!Shrinks(d)
  BY DEF Fewer, Abs!Shrinks

\* Taking a block makes no reservation, and ends those of the other contexts.
LEMMA TakeShrinks ==
    ASSUME TypeOK, NEW c \in CPUs, NEW a \in Addrs, NEW own \in SUBSET locks[c],
           TakeBlock(c, BlockOf[a]),
           locks' = [d \in CPUs |-> IF d = c THEN own
                                    ELSE locks[d] \ WordsOf(BlockOf[a])],
           stray' = [d \in CPUs |-> stray[d] \cap locks'[d]]
    PROVE  /\ \A d \in CPUs : Fewer(d)
           /\ \A d \in CPUs \ {c} : Gone(d, a)
  <1>1. BlockOf[a] \in Blocks
      BY DEF Blocks
  <1>2. \A d \in CPUs : Snooped(d)
      BY <1>1, TakeBlockFacts
  <1>3. ASSUME NEW d \in CPUs, NEW w \in Addrs, Backed(d, w)'
        PROVE  Backed(d, w)
    <2>1. w \in locks[d] /\ w \notin stray[d]
        BY <1>3 DEF Backed
    <2>2. Reading(d, w) => Reading(d, w)' /\ ll'[d].kept = ll[d].kept
        BY <1>2 DEF Snooped, Reading, HasData
    <2> QED BY <1>3, <2>1, <2>2 DEF Backed
  <1>4. \A d \in CPUs \ {c} : a \notin locks'[d]
      BY DEF WordsOf
  <1> QED BY <1>3, <1>4 DEF Fewer, Gone, Backed

\* Every step of the monitors and caches is a step of LLSC or a stutter.
LEMMA StepRefines == IInv /\ [Next]_vars => [Abs!AbsNext]_(Abs!absVars)
  <1> SUFFICES ASSUME IInv, [Next]_vars
               PROVE  Abs!AbsNext \/ UNCHANGED Abs!absVars
      OBVIOUS
  <1>0. TypeOK
      BY DEF IInv
  <1>L. ASSUME \A d \in CPUs : Fewer(d), UNCHANGED <<mem, seen, kind>>
        PROVE  Abs!AbsNext
      BY <1>L, FewerShrinks DEF Abs!Lose, Abs!AbsNext
  <1>1. CASE UNCHANGED <<mem, seen, kind, locks, stray, ll>>
      BY <1>1, <1>L DEF Fewer, Backed, Reading, HasData
  <1>2. ASSUME NEW c \in CPUs, NEW a \in Addrs, LLExec(c, a) PROVE Abs!AbsNext
    <2>1. \A d \in CPUs : \A w \in Addrs : Backed(d, w)' => Backed(d, w)
      <3> SUFFICES ASSUME NEW d \in CPUs, NEW w \in Addrs, Backed(d, w)'
                   PROVE  Backed(d, w)
          OBVIOUS
      <3>1. ll[c] = None
          BY <1>2 DEF LLExec, Idle
      <3>2. CASE d = c
          BY <1>2, <3>1, <3>2 DEF LLExec, Backed, Reading, HasData
      <3>3. CASE d # c
        <4>1. ll'[d] = ll[d]
            BY <1>0, <1>2, <3>3 DEF LLExec, TypeOK
        <4> QED BY <1>2, <4>1 DEF LLExec, Backed, Reading, HasData
      <3> QED BY <3>2, <3>3
    <2> QED BY <1>2, <1>L, <2>1 DEF LLExec, Fewer
  <1>3. ASSUME NEW c \in CPUs, LLData(c) PROVE Abs!AbsNext
    <2>1. PICK a \in Addrs : a = ll[c].addr /\ ll[c] # None /\ ll[c] \in Loads
        BY <1>0, <1>3 DEF LLData, TypeOK, Loads
    <2>2. /\ \A d \in CPUs \ {c} : /\ ll'[d] = ll[d] /\ locks'[d] = locks[d]
                                   /\ stray'[d] = stray[d]
          /\ ll'[c].addr = a /\ ll'[c].kept = Backed(c, a)
          /\ locks'[c] = locks[c] \cup {a} /\ stray'[c] = stray[c] \ {a}
          /\ UNCHANGED <<mem, seen, kind>>
        BY <1>0, <1>3, <2>1 DEF LLData, Answer, TypeOK, Loads
    <2>3. ~HasData(c) /\ mem[a] # 0 /\ ll'[c].got = mem[a] /\ ll'[c] \in Loads
        BY <1>0, <1>3, <2>1 DEF LLData, TypeOK, Loads, Backed
    <2>4. HasData(c)'
        BY <2>3, NoneIsNone DEF HasData
    <2>5. ASSUME NEW d \in CPUs, NEW w \in Addrs, Backed(d, w)'
          PROVE  Backed(d, w)
      <3>1. CASE d # c
          BY <2>2, <2>5, <3>1 DEF Backed, Reading, HasData
      <3>2. CASE d = c /\ w # a
          BY <2>2, <2>3, <2>5, <3>2 DEF Backed, Reading
      <3>3. CASE d = c /\ w = a
          BY <2>2, <2>4, <2>5, <3>3 DEF Backed, Reading
      <3> QED BY <3>1, <3>2, <3>3
    <2>6. \A d \in CPUs : stray'[d] \subseteq stray[d]
        BY <2>2
    <2> QED BY <1>L, <2>2, <2>5, <2>6 DEF Fewer
  <1>4. ASSUME NEW c \in CPUs, NEW a \in Addrs, LateData(c, a)
        PROVE  Abs!AbsNext
    <2>1. /\ UNCHANGED <<mem, seen, kind, ll>>
          /\ locks'[c] = locks[c] \cup {a}
          /\ stray'[c] = stray[c] \cup ({a} \ locks[c])
          /\ \A d \in CPUs \ {c} : locks'[d] = locks[d] /\ stray'[d] = stray[d]
        BY <1>0, <1>4 DEF LateData, Answer, TypeOK
    <2>2. \A d \in CPUs : \A w \in Addrs : Backed(d, w)' => Backed(d, w)
        BY <2>1 DEF Backed, Reading, HasData
    <2>3. \A d \in CPUs \ {c} : Abs!Shrinks(d)
        BY <2>1, <2>2, FewerShrinks DEF Fewer
    <2>4. Abs!Leave(c, a)
        BY <2>1, <2>2, <2>3 DEF Abs!Leave
    <2> QED BY <2>4 DEF Abs!AbsNext
  <1>5. ASSUME NEW c \in CPUs, LLCommit(c) PROVE Abs!AbsNext
    <2>1. PICK a \in Addrs : a = ll[c].addr
        BY <1>0, <1>5 DEF LLCommit, HasData, TypeOK, Loads
    <2>2. PICK v \in 1 .. mem[a] : v = ll[c].got
        BY <1>5, <2>1 DEF LLCommit, IInv, Shape
    <2>3. /\ seen' = [seen EXCEPT ![c][a] = v] /\ UNCHANGED <<mem, kind>>
          /\ ll'[c] = None /\ \A d \in CPUs \ {c} : ll'[d] = ll[d]
          /\ UNCHANGED <<locks, stray>>
        BY <1>0, <1>5, <2>1, <2>2 DEF LLCommit, TypeOK
    <2>4. \A d \in CPUs \ {c} : Abs!Shrinks(d)
      <3>1. \A d \in CPUs \ {c} : Fewer(d)
          BY <2>3 DEF Fewer, Backed, Reading, HasData
      <3> QED BY <3>1, FewerShrinks
    <2>5. ASSUME NEW w \in Addrs, Backed(c, w)', w # a PROVE Backed(c, w)
        BY <2>1, <2>3, <2>5 DEF Backed, Reading
    <2>6. ASSUME Backed(c, a)' PROVE v = mem[a]
      <3>1. a \in locks[c] /\ a \notin stray[c]
          BY <2>3, <2>6 DEF Backed
      <3>2. Reading(c, a)
          BY <1>5, <2>1 DEF LLCommit, Reading
      <3> QED BY <2>2, <3>1, <3>2 DEF IInv, LockedIsFresh
    <2>7. {w \in Addrs : Backed(c, w)'} \subseteq
              IF v = mem[a] THEN {w \in Addrs : Backed(c, w)} \cup {a}
              ELSE {w \in Addrs : Backed(c, w)} \ {a}
        BY <2>5, <2>6
    <2>8. Abs!LL(c, a)
        BY <2>2, <2>3, <2>4, <2>7 DEF Abs!LL
    <2> QED BY <2>8 DEF Abs!AbsNext
  <1>6. ASSUME NEW c \in CPUs, LLSquash(c) PROVE Abs!AbsNext
    <2>1. PICK a \in Addrs : a = ll[c].addr
        BY <1>0, <1>6 DEF LLSquash, TypeOK, Loads
    <2>2. /\ UNCHANGED <<mem, seen, kind, locks>>
          /\ ll'[c] = None /\ \A d \in CPUs \ {c} : ll'[d] = ll[d]
        BY <1>0, <1>6 DEF LLSquash, TypeOK
    <2>3. /\ \A d \in CPUs \ {c} : stray'[d] = stray[d]
          /\ stray[c] \subseteq stray'[c]
          /\ stray'[c] \subseteq stray[c] \cup {a}
          /\ HasData(c) /\ ~ll[c].kept /\ a \in locks[c] => a \in stray'[c]
      <3>1. stray \in [CPUs -> SUBSET Addrs]
          BY <1>0 DEF TypeOK
      <3>2. CASE HasData(c)
        <4>1. stray' = [stray EXCEPT ![c] =
                   IF ll[c].kept THEN @ ELSE @ \cup ({a} \cap locks[c])]
            BY <1>6, <2>1, <3>2 DEF LLSquash
        <4>2. CASE ll[c].kept
            BY <3>1, <4>1, <4>2
        <4>3. CASE ~ll[c].kept
            BY <3>1, <4>1, <4>3
        <4> QED BY <4>2, <4>3
      <3>3. CASE ~HasData(c)
          BY <1>6, <3>3 DEF LLSquash
      <3> QED BY <3>2, <3>3
    <2>4. ASSUME NEW d \in CPUs, NEW w \in Addrs, Backed(d, w)'
          PROVE  Backed(d, w)
      <3>1. CASE d # c
          BY <2>2, <2>3, <2>4, <3>1 DEF Backed, Reading, HasData
      <3>2. CASE d = c
        <4>1. w \in locks[c] /\ w \notin stray[c] /\ w \notin stray'[c]
            BY <2>2, <2>3, <2>4, <3>2 DEF Backed
        <4>2. Reading(c, w) => ll[c].kept
            BY <2>1, <2>3, <4>1 DEF Reading
        <4> QED BY <3>2, <4>1, <4>2 DEF Backed
      <3> QED BY <3>1, <3>2
    <2>5. \A d \in CPUs \ {c} : Abs!Shrinks(d)
        BY <2>3, <2>4, FewerShrinks DEF Fewer
    <2>6. Abs!Leave(c, a)
        BY <2>2, <2>3, <2>4, <2>5 DEF Abs!Leave
    <2> QED BY <2>6 DEF Abs!AbsNext
  <1>7. ASSUME NEW c \in CPUs, SCDone(c) PROVE Abs!AbsNext
    <2>1. PICK a \in Addrs : a = sc[c].addr
        BY <1>0, <1>7 DEF SCDone, TypeOK, Stores
    <2>2. /\ sc[c] # None /\ TakeBlock(c, BlockOf[a])
          /\ locks' = [d \in CPUs |-> IF d = c THEN locks[c] \ {a}
                                      ELSE locks[d] \ WordsOf(BlockOf[a])]
          /\ stray' = [d \in CPUs |-> stray[d] \cap locks'[d]]
        BY <1>7, <2>1 DEF SCDone, LocksAfter
    <2>3. /\ \A d \in CPUs : Fewer(d)
          /\ \A d \in CPUs \ {c} : Gone(d, a)
      <3> DEFINE own == locks[c] \ {a}
      <3>1. own \in SUBSET locks[c]
          OBVIOUS
      <3> HIDE DEF own
      <3>2. locks' = [d \in CPUs |-> IF d = c THEN own
                                     ELSE locks[d] \ WordsOf(BlockOf[a])]
          BY <2>2 DEF own
      <3> QED BY <1>0, <2>2, <3>1, <3>2, TakeShrinks
    <2>4. CASE CheckWrite(c, a)
      <3>1. a \in locks[c] /\ WriteWord(c, a) /\ kind' = "exclusive"
          BY <1>7, <2>1, <2>4 DEF SCDone, CheckWrite
      <3>2. ~Backed(c, a)' /\ a \notin stray'[c]
          BY <2>2 DEF Backed
      <3>3. Abs!Write(c, a)
          BY <2>3, <3>1, FewerShrinks DEF WriteWord, Gone, Abs!Write
      <3>4. ~Reading(c, a)
          BY <2>2 DEF IInv, Shape, Reading, HasData
      <3>5. \/ Backed(c, a) /\ seen[c][a] = mem[a]
            \/ a \in stray[c]
          BY <3>1, <3>4 DEF IInv, LockedIsFresh, Backed
      <3>6. Abs!SC(c, a)
          BY <3>1, <3>2, <3>3, <3>5 DEF Abs!SC
      <3> QED BY <3>6 DEF Abs!AbsNext
    <2>5. CASE ~CheckWrite(c, a)
      <3>1. UNCHANGED <<mem, seen, kind>>
          BY <1>7, <2>1, <2>5 DEF SCDone
      <3> QED BY <1>L, <2>3, <3>1
    <2> QED BY <2>4, <2>5
  <1>8. ASSUME NEW c \in CPUs, NEW a \in Addrs, StoreDone(c, a)
        PROVE Abs!AbsNext
    <2>1. /\ TakeBlock(c, BlockOf[a]) /\ WriteWord(c, a) /\ kind' = "plain"
          /\ locks' = [d \in CPUs |-> IF d = c THEN locks[c]
                                      ELSE locks[d] \ WordsOf(BlockOf[a])]
          /\ stray' = [d \in CPUs |-> stray[d] \cap locks'[d]]
        BY <1>8 DEF StoreDone, LocksAfter
    <2>2. /\ \A d \in CPUs : Fewer(d)
          /\ \A d \in CPUs \ {c} : Gone(d, a)
      <3>1. locks[c] \in SUBSET locks[c]
          OBVIOUS
      <3> QED BY <1>0, <2>1, <3>1, TakeShrinks
    <2>3. Abs!Write(c, a)
        BY <2>1, <2>2, FewerShrinks DEF WriteWord, Gone, Abs!Write
    <2> QED BY <2>1, <2>3 DEF Abs!Store, Abs!AbsNext
  <1>9. ASSUME NEW c \in CPUs, NEW b \in Blocks, Evict(c, b) PROVE Abs!AbsNext
    <2>1. \A d \in CPUs : \A w : w \in locks'[d] /\ w \notin stray'[d]
                                   => w \in locks[d] /\ w \notin stray[d]
        BY <1>0, <1>9 DEF Evict, LocksAfter, TypeOK
    <2>2. \A d \in CPUs : Fewer(d)
        BY <1>0, <1>9, <2>1
        DEF Evict, TypeOK, Fewer, Backed, Reading, HasData
    <2> QED BY <1>9, <1>L, <2>2 DEF Evict
  <1>10. CASE UNCHANGED vars
      BY <1>10, <1>1 DEF vars
  <1> QED
      BY <1>1, <1>2, <1>3, <1>4, <1>5, <1>6, <1>7, <1>8, <1>9, <1>10
      DEF Next, Clrex, SCSend, SCRefused

\* The monitors and caches of gem5 implement load- and store-exclusive as LLSC
\* specifies them, with or without CHAOSExMon.
THEOREM Refinement == Spec => ImplementsLLSC
  <1>1. Init => Abs!AbsInit
      BY DEF Init, Abs!AbsInit, Backed
  <1>2. Spec => []IInv
      BY InitIInv, NextIInv, PTL DEF Spec
  <1> QED
      BY <1>1, <1>2, StepRefines, PTL DEF Spec, ImplementsLLSC, Abs!AbsSpec
=============================================================================
