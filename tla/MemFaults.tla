----------------------------- MODULE MemFaults -----------------------------
(***************************************************************************)
(* CHAOSCache and CHAOSMem: faults in the lines of a cache and in the DRAM *)
(* below it, with their protection models, while a program loads, stores   *)
(* and evicts.                                                             *)
(*                                                                         *)
(* One set of a write-back cache (mem/cache/base.cc) is enough for what    *)
(* the injectors do; a line is one byte, a byte the set of its 1 bits.  A  *)
(* simulation mounts one injector with a fixed fault type and mask and     *)
(* corruptionSize 1; an injection may fall between any two accesses.       *)
(* Misses are served at once; other caches, the paired sector of           *)
(* CHAOSCache and the address mode of CHAOSMem are left out.               *)
(*                                                                         *)
(* A definition named ...Bug is the neighbouring definition with one       *)
(* plausible mistake; no behaviour of Spec uses it.                        *)
(***************************************************************************)
EXTENDS Naturals, FiniteSets

CONSTANTS
    Addrs,      \* line addresses, all of one set
    Ways,
    Bits,       \* the bits of a byte
    Values,     \* what the program stores, a subset of SUBSET Bits
    Setups,     \* the simulations considered, see SetupType
    MaxFaults   \* maxFaults, not 0 here

CacheFields == {"data", "opcode", "tag", "valid", "dirty", "repl", "coh", "victim"}

\* Target and parameters of the mounted injector; "opcode" stands for the four
\* instruction fields and "tag" for tag_to_legal too.
SetupType ==
    [site : {"cache"}, field : CacheFields,
     type : {"bit_flip", "stuck_at_zero", "stuck_at_one"},
     prot : {"none", "sed", "secded", "secded_poison", "parity_interleaved"},
     mask : SUBSET Bits \ {{}}]
    \cup
    [site : {"mem"}, field : {"data"},
     type : {"bit_flip", "stuck_at_zero", "stuck_at_one"},
     prot : {"none", "secded", "ecc_logic_fault"},
     mask : SUBSET Bits \ {{}}]

None == "none"      \* the address of an empty way

ASSUME MemAssumption ==
    /\ IsFiniteSet(Addrs) /\ IsFiniteSet(Bits)
    /\ None \notin Addrs \cup Ways
    /\ Values \subseteq SUBSET Bits /\ Setups \subseteq SetupType
    /\ MaxFaults \in Nat \ {0}

VARIABLES
    setup,      \* what is mounted
    cache,      \* per way: address or None, data, dirty, writable, readable
    mem,        \* the DRAM
    alias,      \* tag_alias_*: lookups of way victim are served by way alias
    perm,       \* keys of permanent_faults
    check,      \* periodicCheck is scheduled
    attack,     \* attackEvent is scheduled
    count,      \* faults_injected_count
    panicked,   \* an assertion of gem5 has ended the simulation
    golden,     \* ghost: what the program stored last
    landed,     \* ghost: injections that changed something
    misread     \* ghost: a load has returned something else than golden

injector == <<alias, perm, check, attack, count, landed>>
vars == <<setup, cache, mem, injector, panicked, golden, misread>>

Empty == [addr |-> None, data |-> {}, dirty |-> FALSE, writable |-> FALSE,
          readable |-> FALSE]
Filled(a, v) == [addr |-> a, data |-> v, dirty |-> FALSE, writable |-> TRUE,
                 readable |-> TRUE]
NoAlias == [victim |-> None, way |-> None, tag |-> None]

Valid == {w \in Ways : cache[w].addr # None}

Init ==
    /\ setup \in Setups
    /\ cache = [w \in Ways |-> Empty]
    /\ mem = [a \in Addrs |-> {}] /\ golden = mem
    /\ alias = NoAlias /\ perm = {} /\ check = TRUE
    /\ attack = (setup.field # "victim")
    /\ count = 0 /\ landed = 0
    /\ panicked = FALSE /\ misread = FALSE

----------------------------------------------------------------------------
\* The mask applied to a byte.
Applied(type, v) ==
    CASE type = "stuck_at_zero" -> v \ setup.mask
      [] type = "stuck_at_one" -> v \cup setup.mask
      [] OTHER -> (v \ setup.mask) \cup (setup.mask \ v)

\* applyProtectionModel, and what attackMemory does for secded: the weight of
\* the mask decides; a corrected byte is put back.
CorrectedBug == /\ setup.prot \in {"secded", "secded_poison"}
                /\ Cardinality(setup.mask) \in 1 .. 2
Corrected == /\ setup.prot \notin {"none", "ecc_logic_fault"}
             /\ Cardinality(setup.mask) = 1
Faulty(v) == IF Corrected THEN v ELSE Applied(setup.type, v)

\* A stuck-at fault is recorded before the protection model is asked.
Recorded(a) == IF setup.type = "bit_flip" THEN perm ELSE perm \cup {a}

----------------------------------------------------------------------------
\* BaseTags::findBlock and chaosDivertFindBlock: the way that answers for the
\* block found in way w.
Served(w) == IF alias.victim = w /\ alias.way \in Valid THEN alias.way ELSE w
Found(a) == {w \in Valid : cache[w].addr = a}

\* chaosCorruptWriteback on the data that leaves the cache.  Clean lines are
\* dropped: a cache with writeback_clean, which passes them through the hook
\* as well, is not modelled.
PayloadsBug(v) ==
    {[data |-> v, n |-> 0]} \cup
    IF setup.field = "victim"
      THEN {[data |-> Applied("bit_flip", v), n |-> 1]} ELSE {}
Payloads(v) ==
    {[data |-> v, n |-> 0]} \cup
    IF setup.field = "victim" /\ count < MaxFaults
      THEN {[data |-> Applied("bit_flip", v), n |-> 1]} ELSE {}

\* evictBlock and writebackBlk: a dirty line goes to memory under its own
\* address.
WrittenBack(w, v) ==
    IF cache[w].dirty THEN [mem EXCEPT ![cache[w].addr] = v] ELSE mem

\* handleFill and allocateBlock: a miss on a replaces an empty way if there is
\* one; block is what the access leaves of the line read from memory.
Miss(a, block) ==
    \E w \in IF Valid = Ways THEN Ways ELSE Ways \ Valid :
      \E p \in IF cache[w].dirty THEN Payloads(cache[w].data)
               ELSE {[data |-> {}, n |-> 0]} :
        /\ mem' = WrittenBack(w, p.data)
        /\ cache' = [cache EXCEPT ![w] = block]
        /\ count' = count + p.n
        /\ landed' = landed + p.n
        /\ UNCHANGED <<alias, perm, check, attack>>

\* A load.  A read that finds a valid line it may not read fails the assertion
\* of handleTimingReqMiss, which knows write misses on valid lines only.
Load(a) ==
    /\ ~panicked
    /\ \/ \E f \in Found(a) :
            LET w == Served(f)
            IN  /\ panicked' = ~cache[w].readable
                /\ misread' = (misread \/ (cache[w].readable
                                           /\ cache[w].data # golden[a]))
                /\ UNCHANGED <<cache, mem, injector>>
       \/ /\ Found(a) = {}
          /\ Miss(a, Filled(a, mem[a]))
          /\ misread' = (misread \/ mem[a] # golden[a])
          /\ UNCHANGED panicked
    /\ UNCHANGED <<setup, golden>>

\* A store; without the writable bit it is an upgrade, which also makes the
\* line readable again.
Store(a, v) ==
    /\ ~panicked
    /\ \/ \E f \in Found(a) :
            LET w == Served(f)
            IN  /\ cache' = [cache EXCEPT ![w] =
                              [cache[w] EXCEPT !.data = v, !.dirty = TRUE, !.writable = TRUE,
                                               !.readable = @ \/ ~cache[w].writable]]
                /\ UNCHANGED <<mem, injector>>
       \/ /\ Found(a) = {}
          /\ Miss(a, [Filled(a, v) EXCEPT !.dirty = TRUE])
    /\ golden' = [golden EXCEPT ![a] = v]
    /\ UNCHANGED <<setup, panicked, misread>>

----------------------------------------------------------------------------
\* CHAOSCache::injectFault after the injection: own is what the injection has
\* counted itself, hit whether there was one.
Counted(own, hit) ==
    /\ count' = count + own + 1
    /\ landed' = landed + (IF hit THEN 1 ELSE 0)
    /\ attack' = (count + own + 1 < MaxFaults)

\* injectMetadataFault, and the data bytes, on a valid line.
DataFault(w) ==
    /\ setup.field = "data"
    /\ cache' = [cache EXCEPT ![w].data = Faulty(@)]
    /\ perm' = Recorded(cache[w].addr)
    /\ Counted(0, TRUE)
    /\ UNCHANGED alias

\* The instruction fields: always a flip, without protection or record.
OpcodeFault(w) ==
    /\ setup.field = "opcode"
    /\ cache' = [cache EXCEPT ![w].data = Applied("bit_flip", @)]
    /\ Counted(1, TRUE)
    /\ UNCHANGED <<alias, perm>>

TagFault(w) ==
    /\ setup.field = "tag"
    /\ IF Valid = {w} THEN Counted(0, FALSE) /\ UNCHANGED alias
       ELSE \E x \in Valid \ {w} :
              /\ alias' = [victim |-> w, way |-> x, tag |-> cache[w].addr]
              /\ Counted(1, TRUE)
    /\ UNCHANGED <<cache, perm>>

\* valid: CacheBlk::invalidate; dirty: the bit is flipped; repl: the line is the
\* next victim, which any line may be here anyway.
StateFault(w) ==
    /\ setup.field \in {"valid", "dirty", "repl"}
    /\ cache' = CASE setup.field = "valid" -> [cache EXCEPT ![w] = Empty]
                  [] setup.field = "dirty" -> [cache EXCEPT ![w].dirty = ~@]
                  [] OTHER -> cache
    /\ Counted(1, TRUE)
    /\ UNCHANGED <<alias, perm>>

\* coh: clears one of the permission bits that are set.
CohFault(w) ==
    /\ setup.field = "coh"
    /\ \/ cache[w].writable /\ cache' = [cache EXCEPT ![w].writable = FALSE]
          /\ Counted(1, TRUE)
       \/ cache[w].readable /\ cache' = [cache EXCEPT ![w].readable = FALSE]
          /\ Counted(1, TRUE)
       \/ ~cache[w].writable /\ ~cache[w].readable /\ UNCHANGED cache
          /\ Counted(0, FALSE)
    /\ UNCHANGED <<alias, perm>>

\* CHAOSCache::injectFault; an empty cache uses up a fault as well.
InjectCache ==
    /\ ~panicked /\ setup.site = "cache" /\ attack
    /\ \/ \E w \in Valid : \/ DataFault(w) \/ OpcodeFault(w) \/ TagFault(w)
                           \/ StateFault(w) \/ CohFault(w)
       \/ Valid = {} /\ Counted(0, FALSE) /\ UNCHANGED <<cache, alias, perm>>
    /\ UNCHANGED <<setup, mem, check, panicked, golden, misread>>

\* CHAOSMem::attackMemory on the byte at a.
AttackMemory(a) ==
    /\ ~panicked /\ setup.site = "mem" /\ attack
    /\ mem' = [mem EXCEPT ![a] = Faulty(@)]
    /\ perm' = Recorded(a)
    /\ Counted(0, TRUE)
    /\ UNCHANGED <<setup, cache, alias, check, panicked, golden, misread>>

\* checkPermanent re-applies the recorded faults: CHAOSCache to the lines that
\* are present, once; CHAOSMem to memory, and again after each period.
RecheckBug == FALSE
Recheck == setup.site = "mem"
CheckPermanent ==
    /\ ~panicked /\ check
    /\ cache' = IF setup.site = "mem" THEN cache
                ELSE [w \in Ways |->
                        IF cache[w].addr \in perm
                          THEN [cache[w] EXCEPT !.data = Applied(setup.type, @)]
                          ELSE cache[w]]
    /\ mem' = IF setup.site = "cache" THEN mem
              ELSE [a \in Addrs |-> IF a \in perm THEN Applied(setup.type, mem[a])
                                    ELSE mem[a]]
    /\ check' = Recheck
    /\ UNCHANGED <<setup, alias, perm, attack, count, landed, panicked, golden,
                   misread>>

Next ==
    \/ \E a \in Addrs : Load(a) \/ AttackMemory(a) \/ \E v \in Values : Store(a, v)
    \/ InjectCache
    \/ CheckPermanent

\* The event queue serves the periodic check.
Spec == Init /\ [][Next]_vars /\ WF_vars(CheckPermanent)

----------------------------------------------------------------------------
\* The copies that count: the line in the cache, and memory unless the line is
\* going to be written back.
Damaged ==
    {a \in Addrs :
        \/ \E w \in Found(a) : cache[w].data # golden[a]
        \/ mem[a] # golden[a] /\ \A w \in Found(a) : ~cache[w].dirty}

\* A single-bit flip under any working ECC, which is logged as corrected, has
\* no effect at all: however the line is read, stored to, evicted and fetched
\* again, no copy is wrong and no load is.  (Flips only: a stuck-at fault that
\* was corrected is still recorded and re-applied later.)
Ecc == {"sed", "secded", "secded_poison", "parity_interleaved"}
CorrectedIsMasked ==
    (/\ setup.prot \in Ecc /\ Cardinality(setup.mask) = 1
     /\ setup.type = "bit_flip" /\ setup.field = "data")
      => Damaged = {} /\ ~misread

\* Apart from tag aliases, which misdirect stores, each fault damages one
\* address at most, and no more faults land than maxFaults allows, also when
\* faulty lines are evicted, written back, re-fetched and faulted again; and
\* without a fault no load is ever wrong.
DamageBounded ==
    /\ setup.field # "tag" => Cardinality(Damaged) <= landed
    /\ landed <= MaxFaults
    /\ landed = 0 => ~misread /\ ~panicked

\* A stuck-at fault in DRAM outlives every store: the periodic check brings its
\* bits back after whatever was written over them.
Stuck(a) == mem[a] = Applied(setup.type, mem[a])
StuckReturns ==
    \A a \in Addrs : setup.site = "mem" /\ a \in perm ~> Stuck(a)

\* chaosDivertFindBlock: "if the victim was replaced meanwhile, the alias no
\* longer models the same fault (skip; the replacement line is innocent)".
AliasSparesReplacement ==
    \A w \in Valid : Served(w) # w => cache[w].addr = alias.tag
=============================================================================
