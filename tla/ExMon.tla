------------------------------- MODULE ExMon -------------------------------
(***************************************************************************)
(* The two places where gem5 keeps an exclusive reservation of an Arm      *)
(* context - the local monitor of the ISA (MISCREG_LOCKFLAG and LOCKADDR)  *)
(* and the lock list of the block in its private data cache - the steps of *)
(* load- and store-exclusive that use them, and CHAOSExMon, which forges   *)
(* the answer of the first.                                                *)
(*                                                                         *)
(* The caches are coherent: a write invalidates the block in every other   *)
(* cache in the same step, and a cache passes that snoop to its CPU first. *)
(* Without a snoop filter every CPU is snooped; with one, a CPU whose      *)
(* cache does not hold the block may be left out.  A load-exclusive is     *)
(* executed speculatively: one that is squashed leaves its lock behind,    *)
(* and its request is answered even when it is gone.  A store-exclusive is *)
(* not speculative, and nothing after it executes before it is done.       *)
(* Words of one size; time, the injector's window and its probability are  *)
(* left open.                                                              *)
(*                                                                         *)
(* A definition named ...Bug is the neighbouring definition with one       *)
(* plausible mistake; no behaviour of Spec uses it.                        *)
(***************************************************************************)
EXTENDS Naturals

CONSTANTS
    CPUs,       \* hardware contexts, one per private cache
    Addrs,      \* words used exclusively
    BlockOf,    \* the cache block of each word
    Modes,      \* CHAOSExMon mode; "off" when it is not mounted
    MaxFaults,  \* CHAOSExMon max_faults; 0 means no limit
    SnoopFilters, \* whether the interconnect has a snoop filter
    MaxVer,     \* bound: the versions of each word
    MaxLoads    \* bound: the load-exclusives that are executed

ASSUME ExMonAssumption ==
    /\ MaxFaults \in Nat /\ MaxVer \in [Addrs -> Nat] /\ MaxLoads \in Nat
    /\ Addrs # {} /\ DOMAIN BlockOf = Addrs
    /\ Modes \subseteq {"off", "clear_reservation", "stale_reservation"}
    /\ SnoopFilters \subseteq BOOLEAN

Blocks == {BlockOf[a] : a \in Addrs}
WordsOf(b) == {a \in Addrs : BlockOf[a] = b}

\* A load-exclusive in the pipeline: its address, the value of LOCKFLAG it
\* will write when it commits, the version it got (0: no data yet) and, for
\* the properties only, whether its word was locked for the program before.
\* A store-exclusive that was sent to the cache: its address, whether a forged
\* answer sent it and, for the properties only, whether a late answer has
\* locked its word since.
Loads == [addr : Addrs, flag : BOOLEAN, got : Nat, kept : BOOLEAN]
Stores == [addr : Addrs, stale : BOOLEAN, raced : BOOLEAN]
None == [addr |-> "none"]

VARIABLES
    mode,       \* of this simulation
    filter,     \* this simulation has a snoop filter
    faults,     \* CHAOSExMon faults_injected_count
    lockFlag,   \* MISCREG_LOCKFLAG of each context
    lockAddr,   \* MISCREG_LOCKADDR of each context
    ll,         \* the load-exclusive each context executes, or None
    sc,         \* the store-exclusive each context has at its cache, or None
    late,       \* words asked for by load-exclusives that are squashed by now
    held,       \* the valid blocks of each data cache
    locks,      \* the words in the lock lists of each data cache
    stray,      \* history: the locks that only squashed load-exclusives made
    mem,        \* the version of each word
    seen,       \* history: the version of each word that the program of each
                \* context last loaded exclusively or wrote; 0 is none
    kind,       \* what made the latest version: "exclusive" or "plain"
    loads       \* the load-exclusives executed so far, counted for the bound

vars == <<mode, filter, faults, lockFlag, lockAddr, ll, sc, late, held, locks,
          stray, mem, seen, kind, loads>>

\* The type of every variable.
TypeOK ==
    /\ mode \in Modes /\ filter \in SnoopFilters /\ faults \in Nat
    /\ lockFlag \in [CPUs -> BOOLEAN]
    /\ lockAddr \in [CPUs -> Addrs]
    /\ ll \in [CPUs -> Loads \cup {None}]
    /\ sc \in [CPUs -> Stores \cup {None}]
    /\ late \in [CPUs -> SUBSET Addrs]
    /\ held \in [CPUs -> SUBSET Blocks]
    /\ locks \in [CPUs -> SUBSET Addrs]
    /\ stray \in [CPUs -> SUBSET Addrs]
    /\ mem \in [Addrs -> Nat \ {0}]
    /\ seen \in [CPUs -> [Addrs -> Nat]]
    /\ kind \in {"none", "exclusive", "plain"}
    /\ loads \in Nat

Init ==
    /\ mode \in Modes /\ filter \in SnoopFilters /\ faults = 0
    /\ lockFlag = [c \in CPUs |-> FALSE]
    /\ lockAddr = [c \in CPUs |-> CHOOSE a \in Addrs : TRUE]
    /\ ll = [c \in CPUs |-> None]
    /\ sc = [c \in CPUs |-> None]
    /\ late = [c \in CPUs |-> {}]
    /\ held = [c \in CPUs |-> {}]
    /\ locks = [c \in CPUs |-> {}]
    /\ stray = [c \in CPUs |-> {}]
    /\ mem = [a \in Addrs |-> 1]
    /\ seen = [c \in CPUs |-> [a \in Addrs |-> 0]]
    /\ kind = "none"
    /\ loads = 0

Idle(c) == ll[c] = None /\ sc[c] = None
HasData(c) == ll[c] # None /\ ll[c].got # 0
Reading(c, a) == HasData(c) /\ ll[c].addr = a

\* A lock that stands for a load-exclusive the program of c has retired.
Backed(c, a) == a \in locks[c] \ stray[c] /\ (Reading(c, a) => ll[c].kept)

----------------------------------------------------------------------------
\* LSQUnit::read of an exclusive load calls handleLockedRead, whose register
\* writes wait in the instruction until it commits.
LLExec(c, a) ==
    /\ Idle(c)
    /\ loads < MaxLoads /\ loads' = loads + 1
    /\ ll' = [ll EXCEPT ![c] = [addr |-> a, flag |-> TRUE, got |-> 0,
                                kept |-> FALSE]]
    /\ UNCHANGED <<mode, filter, faults, lockFlag, lockAddr, sc, late, held,
                   locks, stray, mem, seen, kind>>

\* The cache answers a load-exclusive (satisfyRequest): the block is valid
\* now, and trackLoadLocked replaces the locks of this word.
Answer(c, a) ==
    /\ held' = [held EXCEPT ![c] = @ \cup {BlockOf[a]}]
    /\ locks' = [locks EXCEPT ![c] = @ \cup {a}]
    /\ UNCHANGED <<mode, filter, faults, lockFlag, lockAddr, mem, seen, kind,
                   loads>>

LLData(c) ==
    /\ ll[c] # None /\ ~HasData(c)
    /\ LET a == ll[c].addr
       IN  /\ Answer(c, a)
           /\ ll' = [ll EXCEPT ![c].got = mem[a], ![c].kept = Backed(c, a)]
           /\ stray' = [stray EXCEPT ![c] = @ \ {a}]
    /\ UNCHANGED <<sc, late>>

\* The answer to one that was squashed; completeDataAccess drops it.
LateData(c, a) ==
    /\ a \in late[c]
    /\ Answer(c, a)
    /\ late' = [late EXCEPT ![c] = @ \ {a}]
    /\ stray' = [stray EXCEPT ![c] = @ \cup ({a} \ locks[c])]
    /\ sc' = IF sc[c] # None /\ sc[c].addr = a
               THEN [sc EXCEPT ![c].raced = TRUE] ELSE sc
    /\ UNCHANGED ll

\* It commits, and its register writes with it: the program has the version.
LLCommitBug(c) ==
    /\ HasData(c)
    /\ lockFlag' = [lockFlag EXCEPT ![c] = TRUE]
    /\ lockAddr' = [lockAddr EXCEPT ![c] = ll[c].addr]
    /\ seen' = [seen EXCEPT ![c][ll[c].addr] = ll[c].got]
    /\ ll' = [ll EXCEPT ![c] = None]
    /\ UNCHANGED <<mode, filter, faults, sc, late, held, locks, stray, mem,
                   kind, loads>>
LLCommit(c) ==
    /\ HasData(c)
    /\ lockFlag' = [lockFlag EXCEPT ![c] = ll[c].flag]
    /\ lockAddr' = [lockAddr EXCEPT ![c] = ll[c].addr]
    /\ seen' = [seen EXCEPT ![c][ll[c].addr] = ll[c].got]
    /\ ll' = [ll EXCEPT ![c] = None]
    /\ UNCHANGED <<mode, filter, faults, sc, late, held, locks, stray, mem,
                   kind, loads>>

\* It is squashed: the buffered register writes are dropped; its lock in the
\* cache, or its request when that was sent and has no answer yet, is not.
LLSquash(c) ==
    /\ ll[c] # None
    /\ ll' = [ll EXCEPT ![c] = None]
    /\ LET a == ll[c].addr
       IN  IF HasData(c)
             THEN /\ stray' = [stray EXCEPT ![c] =
                         IF ll[c].kept THEN @ ELSE @ \cup ({a} \cap locks[c])]
                  /\ UNCHANGED late
             ELSE /\ late' \in {late, [late EXCEPT ![c] = @ \cup {a}]}
                  /\ UNCHANGED stray
    /\ UNCHANGED <<mode, filter, faults, lockFlag, lockAddr, sc, held, locks,
                   mem, seen, kind, loads>>

\* CLREX writes LOCKFLAG and nothing else.
Clrex(c) ==
    /\ Idle(c)
    /\ lockFlag' = [lockFlag EXCEPT ![c] = FALSE]
    /\ UNCHANGED <<mode, filter, faults, lockAddr, ll, sc, late, held, locks,
                   stray, mem, seen, kind, loads>>

----------------------------------------------------------------------------
\* lockedWriteHandler: the monitor compares blocks, not words.
MonitorAllows(c, a) == lockFlag[c] /\ BlockOf[lockAddr[c]] = BlockOf[a]

\* CHAOSExMon::maybeStaleReservation is capped by max_faults;
\* maybeClearReservationSC is not.
MayGrant == mode = "stale_reservation" /\ (MaxFaults = 0 \/ faults < MaxFaults)
MayClear == mode = "clear_reservation"

\* The store-exclusive goes to the cache ...
SCSend(c, a) ==
    /\ Idle(c)
    /\ \/ MonitorAllows(c, a) /\ faults' = faults
       \/ /\ ~MonitorAllows(c, a) /\ MayGrant
          /\ faults' = IF MaxFaults = 0 THEN faults ELSE faults + 1
    /\ sc' = [sc EXCEPT ![c] = [addr |-> a, stale |-> ~MonitorAllows(c, a),
                                raced |-> FALSE]]
    /\ UNCHANGED <<mode, filter, lockFlag, lockAddr, ll, late, held, locks,
                   stray, mem, seen, kind, loads>>

\* ... or fails at the monitor, without reaching the memory system.
SCRefused(c, a) ==
    /\ Idle(c)
    /\ MonitorAllows(c, a) => MayClear
    /\ lockFlag' = [lockFlag EXCEPT ![c] = FALSE]
    /\ UNCHANGED <<mode, filter, faults, lockAddr, ll, sc, late, held, locks,
                   stray, mem, seen, kind, loads>>

\* A block leaves a data cache: CacheBlk::invalidate clears its lock list.
LocksAfterBug(c, b) == locks[c]
LocksAfter(c, b) == locks[c] \ WordsOf(b)

\* c takes block b for writing: every other cache loses it, and lockedSnoop-
\* Handler and checkSnoop clear the flag of the CPUs that are snooped, in the
\* register and in a load-exclusive on its way to commit.
TakeBlock(c, b) ==
    \E snooped \in SUBSET (CPUs \ {c}) :
        /\ {d \in CPUs \ {c} : b \in held[d] \/ ~filter} \subseteq snooped
        /\ held' = [d \in CPUs |-> IF d = c THEN held[d] \cup {b}
                                   ELSE held[d] \ {b}]
        /\ lockFlag' = [d \in CPUs |->
               lockFlag[d] /\ ~(d \in snooped /\ BlockOf[lockAddr[d]] = b)]
        /\ ll' = [d \in CPUs |->
               IF d \in snooped /\ ll[d] # None /\ BlockOf[ll[d].addr] = b
                 THEN [ll[d] EXCEPT !.flag = FALSE] ELSE ll[d]]

\* c writes the word a, in a block it has taken.
WriteWord(c, a) ==
    /\ mem[a] < MaxVer[a]
    /\ mem' = [mem EXCEPT ![a] = @ + 1]
    /\ seen' = [seen EXCEPT ![c][a] = mem[a] + 1]

\* CacheBlk::checkWrite of a store-exclusive: a matching lock.
CheckWriteBug(c, a) == TRUE
CheckWrite(c, a) == a \in locks[c]

\* The cache performs the store-exclusive: it takes the block in any case,
\* and writes when checkWrite finds the lock, which is used up.
SCDone(c) ==
    LET a == sc[c].addr
        b == BlockOf[a]
    IN  /\ sc[c] # None
        /\ TakeBlock(c, b)
        /\ IF CheckWrite(c, a)
             THEN WriteWord(c, a) /\ kind' = "exclusive"
             ELSE UNCHANGED <<mem, seen, kind>>
        /\ locks' = [d \in CPUs |-> IF d = c THEN locks[d] \ {a}
                                    ELSE LocksAfter(d, b)]
        /\ stray' = [d \in CPUs |-> stray[d] \cap locks'[d]]
        /\ sc' = [sc EXCEPT ![c] = None]
        /\ UNCHANGED <<mode, filter, faults, lockAddr, late, loads>>

\* The cache performs a plain store; the locks of its own CPU stay.  An
\* exclusive load of the word is not given data before an older store of its
\* CPU to that word is done (LSQUnit::read), and younger stores wait for it.
StoreDone(c, a) ==
    /\ sc[c] = None /\ ~Reading(c, a)
    /\ TakeBlock(c, BlockOf[a])
    /\ WriteWord(c, a) /\ kind' = "plain"
    /\ locks' = [d \in CPUs |-> IF d = c THEN locks[d]
                                ELSE LocksAfter(d, BlockOf[a])]
    /\ stray' = [d \in CPUs |-> stray[d] \cap locks'[d]]
    /\ UNCHANGED <<mode, filter, faults, lockAddr, sc, late, loads>>

\* A data cache replaces a block; its CPU is not told.
Evict(c, b) ==
    /\ b \in held[c]
    /\ held' = [held EXCEPT ![c] = @ \ {b}]
    /\ locks' = [locks EXCEPT ![c] = LocksAfter(c, b)]
    /\ stray' = [stray EXCEPT ![c] = @ \cap LocksAfter(c, b)]
    /\ UNCHANGED <<mode, filter, faults, lockFlag, lockAddr, ll, sc, late, mem,
                   seen, kind, loads>>

Next ==
    \E c \in CPUs :
        \/ \E a \in Addrs : \/ LLExec(c, a)
                            \/ SCSend(c, a)
                            \/ SCRefused(c, a)
                            \/ StoreDone(c, a)
                            \/ LateData(c, a)
        \/ LLData(c) \/ LLCommit(c) \/ LLSquash(c)
        \/ Clrex(c)
        \/ SCDone(c)
        \/ \E b \in Blocks : Evict(c, b)

Spec == Init /\ [][Next]_vars

----------------------------------------------------------------------------
\* The detailed specification implements LLSC, whatever CHAOSExMon does: what
\* a program reserves are the locks its retired load-exclusives made in its
\* cache, not its monitor, and only locks that squashed load-exclusives left
\* can stand in for them.
Abs == INSTANCE LLSC WITH
           res <- [c \in CPUs |-> {a \in Addrs : Backed(c, a)}],
           left <- stray
ImplementsLLSC == Abs!AbsSpec

\* The store-exclusive of c writes the word a although its program has not got
\* the latest version of it.
Overwrites(c, a) ==
    /\ sc[c] # None /\ sc[c].addr = a /\ sc'[c] = None
    /\ mem'[a] # mem[a] /\ seen[c][a] # mem[a]

\* An update is lost only when both protections fail at once.  The lock in the
\* cache is one that a squashed load-exclusive left; and the monitor was
\* forged, or missed a snoop (which takes a snoop filter and an eviction), or
\* was consulted before a late answer set that lock, or guards another word of
\* the block.  So without CHAOSExMon, snoop filter and late answers a program
\* that stores to the word it has loaded loses no update, although the monitor
\* is consulted before the store waits for its block, is not told of evictions
\* and is not cleared by a store-exclusive that succeeds.
NoLostUpdate ==
    [][\A c \in CPUs : \A a \in Addrs :
          Overwrites(c, a) =>
              /\ a \in stray[c]
              /\ sc[c].stale \/ filter \/ sc[c].raced \/ lockAddr[c] # a]_vars

\* What the architecture asks for: a store-exclusive to the word the program
\* last loaded exclusively never overwrites a version the program has not got.
EveryUpdateKept ==
    [][\A c \in CPUs : \A a \in Addrs :
          Overwrites(c, a) => lockAddr[c] # a]_vars

\* CHAOSExMon.hh: stale_reservation lets "a STXR succeed without a valid
\* reservation (SC false-success)".
StaleGrantSucceeds ==
    [][\A c \in CPUs :
          (sc[c] # None /\ sc[c].stale /\ sc'[c] = None) => mem' # mem]_vars

\* A locked word is in a valid block; it is unchanged since the load-exclusive
\* that made the lock got it, while that waits to commit, and since the program
\* loaded or wrote it, when the lock stands for a retired one.
LockedIsFresh ==
    \A c \in CPUs : \A a \in locks[c] :
        /\ BlockOf[a] \in held[c]
        /\ Reading(c, a) /\ a \notin stray[c] => ll[c].got = mem[a]
        /\ Backed(c, a) => seen[c][a] = mem[a]
=============================================================================
