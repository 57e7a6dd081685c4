# CHAOS fault injection: TLA+ models, checks and proofs

This directory is a TLA+ development about the CHAOS fault-injection platform of
this repository: gem5's out-of-order CPU with injectors built into it
(`src/CHAOS/gem5/src`), and the Python tools that run campaigns of injections and
classify what they do (`src/tools`). The models are translated from that code; each
definition's source lines are in `PROJECT.json` under `map`.

Contents: [1 inventory](#1-the-system), [2 modules](#2-modules),
[3 runs](#3-what-tlc-checks), [4 bounds and fairness](#4-bounds-and-fairness),
[5 proofs](#5-what-is-proved), [6 disagreements](#6-disagreements-between-code-and-text),
[7 not modelled](#7-what-is-not-modelled), [8 plan](#8-plan).

## 1. The system

An experiment is a *manifest* (component, fault model, time window, seed). The
campaign driver generates one manifest per repetition, a runner turns it into a gem5
command line, gem5 simulates a workload with one injector mounted, the injector
corrupts some structure and logs it, and the runner classifies the run from exit
code, output and logs.

### Components

**Register renaming (O3 CPU).** State: speculative rename map, commit rename map,
FIFO free list per class, history buffer, `freeingInProgress`, the in-flight
instructions. Operations: rename (`renameSrcRegs`, `renameDestRegs`), commit
(`commitHead`), retirement of history (`removeFromHistory`), squash (`doSquash`),
delayed freeing (`checkSignalsAndUpdate`). Hard: commit, retirement and squash run
in different stages and learn of each other only through messages of later cycles,
squashes nest, and registers travel through two lists. Correct when: no register is
lost, shared or reclaimed while readable, and a squash restores the committed state.

**CHAOSRenameMap, CHAOSFreeList, CHAOSROB (renaming faults).** State: the cap and
count, `stuck_mappings`, the mode. Operations: `map_bitflip`, `f5_substitute`,
`f4_field_stuck` with its `checkPermanent`; `mark_free`, `pop_wrong`; the `spec_leak`
hook that `doSquash` calls. Interaction: they write the renaming structures between
any two CPU operations. Correct when: a fault has the effect the mode names and the
platform itself does not multiply it.

**The event-driven engine of nine injectors** (CHAOSReg, CHAOSRenameMap, CHAOSFPU,
CHAOSRAS, CHAOSFreeList, CHAOSROB, CHAOSIQ, CHAOSExec, CHAOSL1DForward). State:
`attackEvent`, `periodicCheck`, `faults_injected_count`, the window. Operations:
`attackCheck` with its loop over the threads and its rescheduling, `checkPermanent`,
`unscheduleAttackEvent`, CHAOSFPU's hooks in the operand paths. Hard: events share
the queue with the CPU's own tick and can be rescheduled into the cycle being served;
several callers share one counter; an event that is being processed is no longer
"scheduled". Correct when: the cap and the window hold, an injector with work left
stays armed, the clock keeps moving, permanent faults are permanent.

**CHAOSPhysReg and the hooks of PhysRegFile.** State: one trace target with its read
count and overwritten flag, one stuck target with its masks, `permanent_faults`,
three events. Operations: injection, data-dependent trigger, re-application, trace
polling; `getReg`, `setReg`, `getWritableReg` on the program's side. Hard: the
injector uses the same accessors it observes. Correct when: the counts mean what the
evaluation reads into them, and a stuck cell stays stuck.

**Runner and campaign driver.** State: the tasks of a pool, two process groups per
task, two timeouts, the result. Operations: submit, spawn, time out (twice), score,
fail. Hard: nested timeouts derived from each other, kills that reach one group only,
failures between any two steps. Correct when: every task gets a class and no process
outlives its task.

**Classifier.** Pure functions from evidence to six classes, nine classes with a
protection model, and the `fail_count` oracle; each is an ordered list of tests of its
own. Correct when: an SDC is a wrong answer after a fault and no wrong answer is lost in
another class without a reason, and the nine classes only split the six.

**Instruction queue (O3 CPU) and CHAOSIQ.** State: the dependency chains, the ready
lists, two scoreboards (rename's and the queue's own), the injector's
`pending_wakeups`. Operations: insertion, issue, write-back with the loop of
`wakeDependents` and its hook, squash, commit; the polled faults `src_ready_bitflip`
and `tag_sub`. Hard: the two scoreboards change at different times, and an instruction
put into a chain just after its producer has left it would wait for ever. Correct when:
nothing issues before its producers, no wakeup is lost, the loop ends.

**Store-to-load forwarding (O3 CPU) and CHAOSLSQFwd.** State: load and store queue, the
one record of who is stalled on which store, the injector's history of forwarded data.
Operations: execute load, execute store with its order check, commit, write-back with
its replay. Hard: loads run before older stores whose addresses are unknown, overlap
them in part, and wait for a store that another load has recorded. Correct when: every
committed load has the bytes of the latest older stores and every stalled load runs
again; a fault counted once makes one load wrong.

**Exclusive access on Arm and CHAOSExMon.** State: the local monitor in two registers of
each context, the lock list of each cache block. Operations: load- and store-exclusive
in steps (execute, cache, commit or squash), `CLREX`, snoops, evictions. Hard: the
monitor is consulted before the store waits for its block and learns of snoops only;
load-exclusives are speculative, and a squashed one leaves its lock, or a request whose
answer will set it. Correct when: no store-exclusive overwrites a version its program has
not got. The code does not quite keep that (`NoLostUpdate` states what it keeps, section 6
what it does not).

**Cache and DRAM with CHAOSCache and CHAOSMem.** State: tags, data and state bits of the
lines, the tag alias, `permanent_faults`, the protection model. Operations: load, store,
miss, replacement, write-back; injection into eight fields; the periodic check. Hard: a
fault meets a line that is evicted, refetched or replaced later. Correct when: a
corrected fault is invisible, one fault damages one line, a stuck-at cell stays stuck.

**Others** (section 7): CHAOSAddrPath, CHAOSBPU, CHAOSArmTLB, CHAOSPTW, CHAOSArmSysReg,
CHAOSGateFU, CHAOSFUPerm, CHAOSCov, the analysis scripts, configurations and workloads.

The hazards, each at its line and with the properties that watch it, are in
`PROJECT.json`.

## 2. Modules

| Module | Models | Composition |
|---|---|---|
| `RegRename` | renaming of one thread and one register class | base |
| `ChaosRename` | six fault modes acting on the renaming state | extends `RegRename`, reuses its state and most of its actions |
| `RegRenameProofs` | theorems about both | extends `ChaosRename` |
| `InjectorEvents` | when injectors fire, for nine of them | stands alone: a fault lands in a thread or is rejected |
| `InjectorEventsProofs` | theorems about it | extends `InjectorEvents` |
| `PhysRegTrace` | CHAOSPhysReg with the register file's hooks | stands alone |
| `MCPhysRegTrace` | the sizes of the register files for TLC | extends `PhysRegTrace` |
| `PhysRegTraceProofs` | theorems about it | extends `PhysRegTrace` |
| `Classify` | the classifier as operators over an evidence record | no state |
| `Campaign` | pool, runner, gem5 processes, timeouts, results | extends `Classify` |
| `CampaignProofs` | theorems about it and `Classify` | extends `Campaign` |
| `InstQueue` | wakeup logic of the instruction queue with the four modes of CHAOSIQ | stands alone |
| `MCInstQueue` | the program shapes for TLC | extends `InstQueue` |
| `InstQueueProofs` | theorems about it | extends `InstQueue` |
| `LLSC` | load-exclusive/store-exclusive as a program may rely on it | abstract specification |
| `ExMon` | local monitors, lock lists and CHAOSExMon | instantiates `LLSC`, which it implements |
| `MCExMon` | the layout of words in blocks for TLC | extends `ExMon` |
| `ExMonProofs` | theorems about it, the refinement included | extends `ExMon` |
| `LsqFwd` | load/store queue with CHAOSLSQFwd | stands alone |
| `MCLsqFwd` | the programs for TLC | extends `LsqFwd` |
| `LsqFwdProofs` | theorems about it | extends `LsqFwd` |
| `MemFaults` | one cache set over DRAM with CHAOSCache and CHAOSMem | stands alone |
| `MCMemFaults` | the simulations TLC considers | extends `MemFaults` |
| `MemFaultsProofs` | theorems about it | extends `MemFaults` |

**RegRename.** Registers are numbers, `renameMap`, `commitRenameMap`, `freeList`,
`freeingInProgress` and `historyBuffer` are the C++ members of those names; `window`
is the set of renamed, uncommitted instructions with the physical source each will
read. `RenameDest` is `renameSrcRegs` followed by `renameDestRegs` for an instruction
with one source and one destination, `RenameNoDest` the instructions without one.
`removeFromHistory(sn)` may run for any `sn` up to the last committed instruction,
because rename learns of commits a few cycles late; `doSquash(sn)` for any point from
the last committed instruction on. Stalls are cycles in which rename does nothing.
`FreeSquashed` is the drain in `checkSignalsAndUpdate` once the ROB has finished
squashing. The loops over the history are defined by what they leave behind:
`UndoneMap(k)` is the map after the entries beyond `k` are undone newest first.

**ChaosRename.** A run mounts one injector in one mode; an injection may fall between
any two CPU operations, which is what an event in front of the CPU's tick can do.
Because a fault can make the popped register equal to the replaced one, the two loops
of rename.cc appear here with their `newPhysReg != prevPhysReg` test (`Renamed`);
`RegRenameProofs` shows that without faults the test never matters. What the two loops
leave behind is defined on sets of positions in the history: `InOrder` lists such a set
in program order, `Restored` is the map after undoing it newest first. `map_bitflip` works on
the index as bits and is rejected when the result is outside the file.

**InjectorEvents.** Time is the CPU's cycle; a pending event is a countdown, due
events precede the CPU's steps of that cycle. `kind` is the injector; the four ways in
which the nine differ are operators (`CapInside`, `BacksOff`, `WindowInside`,
`HasPermanent`). `maxFaults` is a parameter of the simulation, 0 for no cap. `eligible`
are the threads whose ROB head, register or stack offers a target; it changes only when
the CPU ticks. An eligible attempt may still be rejected
by a random draw. `holds` says whether a permanent fault is in place at the moment.

**PhysRegTrace.** Slots are pairs of class and number, since the three files are
numbered independently and the code loses the class in one place. A slot's value is
abstracted to *altered by the injector* and *shows the stuck bits*. Ghost variables
(`progReads`, `ownReads`, `progWrote`, `targets`, `defects`) record what really
happened.

**Classify, Campaign.** Evidence is a record: exit code, failure marker and the stream
it is on, timed out, silent, the answer the program printed, whether a fault has landed,
faults in the log, ECC mark. A fault may land without being counted (`UncountedFault`: the
runner's list of logs is not complete), and a gem5 that is killed by the runner's timeout
may have printed a marker, or a verdict on stderr with an empty stdout, before. Time is in minutes of wall clock, the unit of the margins in the code. gem5 is a
process in a session of its own.

**InstQueue.** `insts` are the DynInsts with their physical sources, the number of
ready sources and where they stand; `chain` is `dependGraph`, a sequence of dependents
per register with the latest first; `scoreboard` and `regScoreboard` are rename's and the
queue's. The loops of `wakeDependents` and `doSquash` are taken in steps: `WakeStep` (first
the deferred wakeups, then one dependent at a time, because the hook decides per dependent
and re-queues what it skips) and `SquashStep` (the victims from the youngest, each one
source at a time, then its destination). `wk` and `sq` hold the loops' variables, and
nothing else can run while either loop is under way. An assertion of the code that fails
sets `panic`, which ends the behaviour. Instructions have at most one destination, are
neither memory references nor barriers, and do not end in an exception: an instruction
with a fault, or one that commit must execute, writes back without waking its dependents
(iew.cc:1405-1406). `SquashInst` merges the squashes of queue, rename and reorder buffer,
which the code spreads over cycles, and frees the register at once; `RegRename` has the
delay.

**LLSC, ExMon.** `LLSC` is what a program gets: versions of words, the version its program
has of each (`seen`), its reservations (`res`), and the reservations that load-exclusives
it never retired left behind (`left`). In `ExMon` a load-exclusive executes
(`handleLockedRead` buffers its register writes), gets its data (`Answer`, with
`trackLoadLocked`) and commits or is squashed in separate steps. Only `LLCommit` gives the
program a version; `LLSquash` leaves a lock in the cache or, when the request is still on
its way, an answer that `LateData` delivers later. A store-exclusive asks the monitor, goes
to the cache, takes the block and is judged there by `checkWrite`. `filter` says whether
the interconnect has a snoop filter, as gem5's crossbars have by default: without one every
CPU sees every snoop, with one only those whose cache holds the block are sure to.
`stray` is a history variable: the locks that only squashed load-exclusives made. The
refinement maps the lock lists, not the monitors, to the reservations: the other locks to
`res` (`Backed`), the stray ones to `left`. The monitor is a filter in front of
`checkWrite`; forging its answer makes a store succeed wrongly only on a stray lock.

**LsqFwd.** A byte is named by the instruction that stored it, so "the right data" is a
comparison of origins. `Coverage` is the comparison of address ranges in `LSQUnit::read`;
`Stall` keeps one record, `stall`, as the code does; `ExecuteStore` squashes the oldest
violating load and everything younger. `Forward` contains both hooks of the injector in
the order of the code: record, perhaps substitute, perhaps corrupt.

**MemFaults.** A line is one byte and a byte the set of its 1 bits, which is what masks,
stuck bits and the weight of an error need. `golden` is what the program stored last;
`misread` remembers that a load differed from it. `alias` is the pair of ways the tag
fault connects; `findBlock` consults it as `chaosDivertFindBlock` does. Only dirty lines
are written back: a cache with `writeback_clean` also passes clean lines through
`chaosCorruptWriteback` (base.cc:1804-1846) and spends faults on them, which is not
modelled.

## 3. What TLC checks

| Run | Module | What it shows |
|---|---|---|
| `reg_rename` | `RegRename` | every interleaving of rename, commit, late retirement, nested squashes and draining: `NoDoubleOwner`, `NoLeak`, `CommittedStateKept`, `SourcesKept`, `RollbackExact`, `RenameChanges`; `IInv`, the inductive invariant of the proofs |
| `chaos_rename` | `ChaosRename` | two faults of any mode anywhere: `SpecLeakContained` (a leak costs capacity only), `FaultNotAmplified` (one fault, at most one doubly owned and one lost register), `RATFaultsConserve` |
| `injectors` | `InjectorEvents` | `CapRespected` (CHAOSReg's exact overshoot included), `OnlyFirstIsLate`, `AttackPending`; liveness `PollingYields`, `StuckReapplied` |
| `physreg` | `MCPhysRegTrace` | `TransientTraceExact`, `ZeroReadsMeansUnread`, `StuckCellHolds`, `SingleFaultClean` (what the single-fault discipline buys) |
| `campaign_one` | `Campaign` | one task with all evidence: `PromptRunnerReaps`, `SDCExact` (what is in the SDC count and what outranks a wrong answer), `NoFaultNoVerdict`, `PARefinesSix` (the two lists of tests against each other) |
| `campaign_pool` | `Campaign` | three tasks for two workers: liveness `AllClassified` |
| `inst_queue` | `MCInstQueue` | every order of dispatch, issue, write-back, squash and commit under each mode of CHAOSIQ: `IssueReady`, `NoLostWakeup`, `OmitKeepsOne` (a skipped wakeup leaves at most one dependent behind), `DepGraphSound` (the assertions of the dependency graph); liveness `WakeEnds`, `Drains` |
| `ex_mon` | `MCExMon` | `ImplementsLLSC` (refinement), `NoLostUpdate` (an update is lost only where a stray lock and a failing monitor meet), also with a forged monitor; `LockedIsFresh`, the heart of the inductive invariant |
| `lsq_fwd` | `MCLsqFwd` | all small programs in every order of execution: `LoadsExact` without faults, `FaultsContained` with them; liveness `AllCommit` |
| `mem_faults` | `MCMemFaults` | two faults in any field: `CorrectedIsMasked`, `DamageBounded`; liveness `StuckReturns` |
| `campaign_orphan`, `cache_alias` | `Campaign`, `MCMemFaults` | each refutes a sentence of a comment, see section 6 |

Twelve more configurations show disagreements of section 6. They are run by hand, as
`tlc -config <configuration> <module>`, and each ends in a counterexample:

| Configuration | Module | Property refuted |
|---|---|---|
| `ChaosPopWrong.cfg` | `ChaosRename` | `PopReturnsMarked` |
| `RobSameTick.cfg` | `InjectorEvents` | `PollsEveryCycle` |
| `FpuUnlimited.cfg` | `InjectorEvents` | `NeverFreezes` |
| `RegStuck.cfg` | `InjectorEvents` | `TrulyPermanent` |
| `PhysRegClass.cfg` | `MCPhysRegTrace` | `TypeAware` |
| `CampaignTrap.cfg` | `Campaign` | `TrapIsCrash` |
| `CampaignSDC.cfg` | `Campaign` | `VerdictExitsNormally` |
| `IQRemove.cfg` | `MCInstQueue` | `RemoveFindsEntry` |
| `IQPhase.cfg` | `MCInstQueue` | `DeferOnlyDelays` |
| `ExMonStale.cfg` | `MCExMon` | `StaleGrantSucceeds` |
| `ExMonPhantom.cfg` | `MCExMon` | `EveryUpdateKept` |
| `LsqSub.cfg` | `MCLsqFwd` | `SubstitutionIsStale` |

Every property of a passing run is also broken by a mutated definition (the `...Bug`
operators in the modules, listed in `PROJECT.json`): a history walk one entry too far,
an undo in the wrong order, a missing reset, a dropped cap test, a missing backoff, a
timeout that is not shortened, and so on.

## 4. Bounds and fairness

- `RegRename`: 2 architectural and 5 physical registers, 4 instructions. Three spare
  registers let the free list run empty, refill from both sources and reorder; two
  architectural registers suffice for chains of renames of one register with another
  in between. The theorems remove these bounds.
- `ChaosRename`: 2 and 4 registers, 3 instructions, 2 faults, 3 bits (one of which
  leads outside the file): enough for a fault, its consequence and a second fault. The
  theorems remove these bounds.
- `InjectorEvents`: 2 threads, a cap of 2 faults or none, gaps of 0 to 2 cycles, window
  1..2 or open.
  `Horizon` and `CountCap` saturate counters beyond the last value a guard
  distinguishes. Gap 0 is what the geometric distribution gives at probability 1.0,
  and it contains the interesting cases; `RecheckDelay` stands for 100000 cycles.
- `PhysRegTrace`: two integer slots, one float and one vector slot (numbers overlap
  across classes), up to three faults, up to `ReadCap` = 3 reads of each kind. The theorems
  remove these bounds for the invariants.
- `Campaign`: one task with four exit markers, up to two faults, both oracles, with and
  without protection; for the pool three tasks on two workers, so that one waits for
  a worker, without faults and markers (3,606,226 states). Timeouts keep the code's proportions
  (60 s head start, 120 s margin) in minutes. The theorems remove these bounds for the
  invariants.
- `InstQueue`: 2 architectural and 4 physical registers, 4 instructions, a budget of one
  fault. The shapes in `MCInstQueue` put two dependents into one chain, one instruction
  into it twice, and free and reallocate a register whose old dependents were squashed.
  908,108 distinct states. The theorems remove these bounds for the invariants.
- `ExMon`: 2 contexts (symmetric), the words x and y in one block and z in another, one
  fault, with and without a snoop filter. x has up to three versions and y two; z is loaded
  and never written, which is enough for the monitor to compare blocks that differ.
  `MaxLoads` = 2 load-exclusives in all: one that commits and one that is squashed, or
  one of each context, with a store of each side in between. 1,357,275 states. The theorems
  remove these bounds.
- `LsqFwd`: every program of four loads and stores over two bytes, of one or two bytes
  each, that begins with a store and ends with a load (others only lose instructions that
  cannot interact), one fault, a history of 3. Four instructions are needed for two stalled loads of
  which the older takes over the record. 365,404 states. The theorems about
  `LoadsExact` and `FaultsContained` remove the bounds.
- `MemFaults`: three lines for two ways, so that each can be replaced by either of the
  others; 2 bits (one and two wrong bits differ for the ECC), 2 faults. 480,488 states. The
  theorems remove these bounds for `CorrectedIsMasked` and `DamageBounded`.

Runs without a deadlock check are those whose system may stop: a bounded number of
instructions, a workload that ends, a finished campaign.

Fairness. `InjectorEvents` assumes weak fairness of `EventQueue`: the simulation loop
services its queue and ticks the CPU as long as it runs; nothing is assumed of which
thread lands, what the program writes, the operand hooks or when a thread ends.
`Campaign` assumes weak fairness of the clock, of the pool taking a task while a worker
is idle, and of the two timeouts, which `communicate(timeout=...)` guarantees; nothing
is assumed of gem5 or of a runner's progress. `InstQueue` assumes weak fairness of
insertion, issue, write-back, commit and the steps of a started `wakeDependents` or
`doSquash` loop, each of which the CPU's tick attempts every cycle; renaming, the start of a
squash and faults are not owed. `LsqFwd` assumes weak fairness of `Next` as a whole: the CPU does something while it
can. `MemFaults` assumes it of `CheckPermanent`, which is an event in the simulator's
queue. `ExMon` and `LLSC` have safety properties only.

## 5. What is proved

With TLAPS, for all values of the constants.

**`RegRenameProofs`**, from `SizesAssumption` (sizes are naturals, more
physical than architectural registers): `TypeCorrect`, `Invariance`, `OwnershipSafe`,
`LeakFree`, `LiveRegistersKept`, `SourcesSafe`, `RollbackCorrect`, `NoEntrySkipped`. Ownership and
conservation are not inductive: that a squash returns exactly the right registers
depends on what the history entries say. `IInv` adds that entries are in program order
and match the in-flight instructions (`HistoryOrdered`, `WindowMatchesHistory`), that
each entry's new register is what the next entry for the same architectural register
replaced, or the current mapping (`HistoryChained`), that the commit map is what the
oldest uncommitted entry replaced (`CommitMapTracks`) and that sources stay mapped or
replaceable by younger instructions only (`SourcesTracked`). One lemma per action shows
that it is preserved; the lemmas on `UndoneMap`, on concatenated lists and on the
first and last entry of a register carry the squash and retirement cases. The safety
theorems then follow state by state.

The lemmas are stated for a CPU that has lost a set `L` of registers: `Lossy(L)` is `IInv`
with conservation replaced by `Accounted(L)` (the registers of `L` have no owner, all
others have one), and `IInv` is `Lossy({})`. One set of lemmas thus serves the CPU without
faults and, from `ChaosAssumption` in addition, the CPU with the `spec_leak` hook, where
`L` is `leaked` and a squash with the claims `C` leads from `Lossy(L)` to
`Lossy(L \cup C)`: `LeakContained` (`SpecLeakContained`). Its step needs that the history
loop with the `newPhysReg != prevPhysReg` test undoes exactly what `UndoneMap` says, and
that `InOrder` lists every position once (`InOrderEnumerates`, by a least counterexample).
`ChaosInvariance` gives the types under all six modes and `Conserved`, a count of owner
slots that no CPU step increases; `RATConserves` (`RATFaultsConserve`) follows.

`FaultsBounded` (`FaultNotAmplified`) covers the five modes other than `f4_field_stuck`, in
any order with the CPU's steps. It is not inductive: a fault in the rename map may leave every
register owned, and a squash or a retirement that meets the history entries of the old mapping
doubles or loses one much later. The entries for one architectural register should be *linked*:
the new register of each is what the next one replaced, or the current mapping. Without faults
that is `HistoryChained`; here a link may be broken, and `Ledger` counts each broken link
(`Broken`) as a fault that has yet to show:

- `Balanced`: `OwnerSlots + |Broken| <= faultCount + |Base|`, where `Base` is what the lists
  would hold and the map would name if the whole history were squashed now;
- `Spared`: `|PhysRegs \ Known| + |Broken| <= faultCount`, where `Known` is every register
  that the lists, the map or the history names.

A fault in the map breaks at most one link, or replaces a register of `Base`; a marked
register adds a slot; a claimed one takes a register from `Base` and `Known`; a rename adds
an intact link; a squash cuts links off at the young end and a retirement at the old end, and
each broken link cut off pays for the register that leaves with it. The lemmas on links are
about histories and maps as plain functions (`LinksAdded`, `LinksRetired`, `LinksUndone`,
`LinksRemapped`, and `Held...` for `Known`), without reference to the state.
`LedgerInvariance` is one balance lemma per action; `FaultsBounded` follows in each state
(`LedgerBounds`). TLC checked `Ledger` first, on the instance of the run and with three faults
and four instructions.

**`InjectorEventsProofs`**, from `InjectorAssumption`: `InjectorInvariance`, `CapHolds`,
`InjectorStaysArmed`, `WindowHolds` (the action property `OnlyFirstIsLate`). `InjInv` is
the conjunction of the invariants the run checks and `RegPollsBelowCap`: CHAOSReg does
not test the cap where it injects, and its overshoot is bounded only because its attack
event is never pending at the cap.

**`ExMonProofs`**, from `ExMonAssumption` (natural bounds, every word in a block):
`LocksFresh` (`LockedIsFresh`), `UpdatesKept` (the action property `NoLostUpdate`) and
`Refinement` (`ExMon` implements `LLSC`), for any contexts, words, layout of blocks, fault
budget and mode. `NoLostUpdate` speaks of a step, and what makes that step safe are
properties of states. `LockedIsFresh`: a locked word is in a valid block of that cache and,
unless the lock is stray, has the version that the program, or the load-exclusive about to
commit, has. `MonitorFresh`, without a snoop filter: a monitor whose flag is set names a
word of which its program has the latest version, and a load-exclusive that will set the
flag has that version; this is what stands behind a stray lock. `SentFresh` carries it from
the moment the monitor is consulted to the moment the cache decides: for a store-exclusive
that the monitor allowed, with no late answer since, the program's version is still the
latest or the word is no longer locked. `Shape` ties the pieces together (a stray lock is a
lock; a context has one exclusive access in flight). Whoever writes a word first takes its
block away from every other cache, and a block that leaves a cache takes its lock list
along. The refinement then needs one case per action; snoops, evictions and squashes are
steps that drop reservations or leave some behind.

**`LsqFwdProofs`**, from `LsqAssumption` (programs are sequences of accesses within
`Bytes`): `ForwardingExact` (`LoadsExact`), for programs of any length, any sizes and
overlaps, and every order of execution, stall, squash and write-back, and
`ForwardFaultsContained` (`FaultsContained`) with the injector mounted. Both speak of
committed loads only; `LsqInv` says where the bytes of an *executed* load come from: an
older store, with every writer in between it missed not executed yet. The loads for which
that fails are `Astray`, and there are at most as many as the faults that were applied
(`Provenance`), because a load goes astray only where a fault is counted and a squashed
load is no longer counted in. `MemTracks` says the same of the bytes in the cache, and
`CommitOrder` and `WriteOrder` that commits and write-backs happen in order. The order
check of `ExecuteStore` keeps `Provenance`: a store that executes late removes every load
that should have seen it. At commit all older stores have executed, so nothing can have
been missed, and a wrong load is an astray one.

**`PhysRegTraceProofs`**, from `PhysRegAssumption`: `TraceInvariance`, `TraceExact`
(`TransientTraceExact`), `ZeroIsReliable` (`ZeroReadsMeansUnread`), `MaskHolds`
(`StuckCellHolds`) and `SingleFault` (`SingleFaultClean`), for any slots of the three
classes and any number of faults. Besides the properties `TraceInv` says that flips leave
no record to re-apply (`FlipsLeaveNothing`), that the mask is only ever armed on a scalar
slot that an injection chose (`MaskIsTarget`), and what holds of a run that is allowed only
one fault, before and after it (`OneFaultOnly`).

**`CampaignProofs`**, from `CampaignAssumption` and `MarginAssumption` (`Head + Floor <=
OuterMargin`; run_one's 60 s and 60 s against 120 s, so that the floor of the runner's timeout
never eats up its head start): `CampaignInvariance`, `RunnerReaps` (`PromptRunnerReaps`),
`SDCSound` (`SDCExact`), `VerdictNeedsFault` (`NoFaultNoVerdict`) and `NineRefineSix`
(`PARefinesSix`), for any workers, tasks and timeouts. `CampaignInv` adds that gem5 is not
there before its runner starts it and no longer running when the logs are scored
(`RunnerOwnsGem5`), that neither timeout is overrun (`Deadlines`), and that a wrong answer
comes after a fault that landed, counted or not (`WrongAfterFault`); the three classifier
properties then follow from the evidence record by cases on the classifiers' tests, in their
order (`SixMeaning`, `NineMeaning`, and `NineSplitsSix` for the two lists together).

**`MemFaultsProofs`**, from `MemAssumption`: `MemInvariance`, `CorrectedFlips`
(`CorrectedIsMasked`) and `DamageLimited` (`DamageBounded`), for any addresses, ways, bits
and faults. The damaged addresses alone cannot be counted: the periodic check damages
a repaired one again without a new fault. `MemInv` therefore counts `Touched`, the
addresses damaged or recorded as permanent, as long as no tag was corrupted
(`TouchedBounded`), and adds that the faults that landed are among those counted and within
the cap (`FaultBudget`), that an address is in at most one way (`OneCopy`), that only a
landed tag fault makes one way answer for another (`AliasIsTagFault`), that nothing is wrong
before the first fault (`CleanBefore`), and that single flips under a protection that
corrects them touch nothing (`FlipsVanish`).

**`InstQueueProofs`**, from `IQAssumption` (more physical than architectural registers,
shapes over them, the five modes): `IQInvariance`, `IssueReadyAlways` (`IssueReady`),
`NoLostWakeupAlways` (`NoLostWakeup`), `OmitKeepsOneAlways` (`OmitKeepsOne`) and
`DepGraphSoundAlways` (`DepGraphSound`), for any registers, any programs and any budget.
The argument has four layers, each inductive with the ones before it:

1. `IQType`: types; nothing is queued, counted or woken before it was renamed, and the two
   loops exclude each other.
2. Owners (`DestType`, `NoDoubleOwner`, `WritersChained`, `SourcesOwned`,
   `InOrderDispatch`): a register is mapped, free or replaced by one live instruction; a
   destination is what the next writer of the same architectural register replaced; nothing
   from a reader on writes the reader's source. This is why a chain is empty when its
   register is dispatched as a destination, and when the producer is squashed.
3. Chains (`ShortChains`, `DrainedUnlessRequeued`): `wakeDependents` pops a chain to its end
   or to the last entry it put back.
4. `ReadySound`, outside `wake_phase` and until an assertion fails: the scoreboards tell
   which writes are pending (`WritesPending`), every source is written or has an older
   producer (`SourcesProduced`), and `Waiting`: for each live instruction there is a set `W`
   of unmarked sources such that it is in the chain of each register (or just popped from it)
   exactly as often as that register is a source in `W`, and `W` and the ready count make up
   all sources. `canIssue` is false while `W` is not empty. The existential is needed because
   the dependency graph does not record which source an entry stands for.

`CHAOSIQ`'s polled modes act on the oldest instruction, whose sources are all written, so
that `W` is empty there: what they toggle or swap decides nothing any more. Under `wake_omit`
an entry may stay in the chain of a ready register; the one assertion that this can break is
the search of `remove`, in `SoundSquashSource`. `MaxSeq` bounds the length of a behaviour
in the model and is arbitrary in the proof.

Only model-checked: the liveness properties (`PollingYields`, `StuckReapplied`, `StuckReturns`,
`AllClassified`, `AllCommit`, `WakeEnds`, `Drains`), as fairness and ENABLED are outside the
prover's reach, and the counterexamples of the runs and configurations that show a
disagreement. Every invariant and action property of a passing run is a theorem. No module
uses RECURSIVE operators; where a loop of the code is summarised by its result (`UndoneMap`,
`Youngest`), the summary is part of the model.

## 6. Disagreements between code and text

Two have a run of their own, whose counterexample TLC prints:

1. `campaign_orphan`: the campaign's kill does not reach gem5, which has its own session.
2. `cache_alias`: `chaosDivertFindBlock` compares set and way and never the tag the victim
   had, so a line that replaces the victim is diverted as well, although the comment there
   calls it innocent.

These have a configuration to run by hand (section 3):

- `ChaosPopWrong`: `pop_wrong` appends the marked register to a FIFO and pops the front,
  so it takes an innocent register, not "the one we just (wrongly) marked free".
- `RobSameTick`: with probability 1.0 the gap is 0; CHAOSROB reschedules a rejected
  attempt into the cycle being served, and the clock stops. CHAOSReg with `PCTarget` has
  the same loop. Three other injectors have a one-cycle backoff.
- `FpuUnlimited`: that backoff, introduced because a gap of 0 "hung the sim"
  (CHAOSFPU.cc:218-224; CHAOSRenameMap.cc:111-123), follows failed attempts only. With
  `max_faults` = 0, the default, and probability 1.0 every attempt that lands is followed by
  another one in the same cycle, and the clock stops as well; `PollingYields` makes this
  exception.
- `RegStuck`: when CHAOSReg reaches its cap it squashes the periodic check its stuck
  faults need, so they are not "truly permanent".
- `PhysRegClass`: stuck faults are recorded by slot number and re-applied to the integer
  slot of that number, whatever the class.
- `CampaignTrap`: "abort" is a simulator-error marker, so a data abort on stderr is
  discarded instead of being a Crash.
- `IQRemove`: dep_graph.hh:214-217 says an instruction that is removed from a chain "must
  have been placed there at an earlier time", and asserts it at line 230. An
  ordinary wakeup does not mark the source it was for, so a woken instruction that is
  squashed looks for itself in a chain it has left; that is harmless while the chain is
  empty, but a dependent that `wake_omit` left behind keeps it from being so, and the
  assertion fails.
- `IQPhase`: inst_queue.cc:1239-1242 calls `wake_phase` a delay. The deferred dependent is
  also re-queued and woken, so that it counts two ready sources for one and may issue
  before its other producer; and the deferred wakeup is delivered by the next call of
  `wakeDependents`, whenever that is.
- `CampaignSDC`: classify.py:30-33 defines Masked and SDC by "program completed normally
  (exit 0)". Both classifiers look at the exit code, a trap and the timeout only when there
  is no checksum, so a run that printed one and then crashed, trapped or was killed
  is an SDC or Masked by that checksum. `SDCExact` says what the SDC count holds instead.
- `ExMonStale`: CHAOSExMon.hh:28-29 and isa.cc:1930-1933 expect a false success and a lost
  update from each `stale_reservation`. Mostly `CacheBlk::checkWrite` still rejects the
  store, because the lock list is used on Arm too (CHAOSExMon.hh:22-24 says it is not), and
  the store-exclusive reports failure. The comments are right where a squashed
  load-exclusive has left a lock: then the store succeeds and may overwrite a version its
  program never loaded, one of the exceptions of `NoLostUpdate`.
- `ExMonPhantom`: the architecture, and any lock built on it, relies on `EveryUpdateKept`:
  a store-exclusive to the word its program loaded last never overwrites another version.
  Without any injector gem5 can break it. A load-exclusive of x commits; a second one, on
  the wrong path, is squashed before its data arrives; the store-exclusive passes the
  monitor and goes to the cache; another context's store takes the block; the answer to the
  squashed load fetches the block again and locks x; and `checkWrite` finds that lock. With
  a snoop filter the same follows from an eviction: the snoop that should clear the monitor
  is filtered out, and a squashed load-exclusive sets the lock again. A campaign that counts
  lost updates as SDCs of CHAOSExMon should know that.
- `LsqSub`: a substitution "returns a STALE historical buffer" (CHAOSLSQFwd.cc:132-158),
  but the search starts at depth 0, which is the entry recorded a moment before: the load
  gets what it would have got, and the fault is counted.

Further disagreements met while modelling; the models follow the code:

- A directed `mark_free` takes any register that is not on the free list for live,
  also one in `freeingInProgress` (CHAOSFreeList.cc:167-169); it is then freed twice.
  `FaultNotAmplified` bounds the effect.
- CHAOSReg tests `maxFaults` after its loop over the threads (CHAOSReg.cc:344) and
  overshoots with several; `CapRespected` gives the exact bound.
- The comment at CHAOSReg.cc:380 expects a first attempt past `lastClock` to inject
  nothing; it injects. `OnlyFirstIsLate` states precisely this exception.
- With more than one fault the injector's own re-application ends the read trace
  (regfile.hh:388), and a second stuck-at fault disarms the first (regfile.hh:240).
  `SingleFaultClean` shows that neither happens with `maxFaults` = 1.
- Vector results written through `getWritableReg` do not end the trace
  (regfile.hh:366): counts of vector slots are upper bounds. `ZeroReadsMeansUnread`
  shows that a count of 0 is still reliable.
- The data-dependent trigger of CHAOSPhysReg reads the slot through the traced accessor
  (CHAOSPhysReg.cc:360), and those reads are in the count: `TransientTraceExact` counts
  them with the program's.
- CHAOSRenameMap passes an absolute cycle to `clockEdge`, which takes a delay
  (CHAOSRenameMap.cc:413): the distance between two checks of a stuck mapping grows with the
  age of the simulation. `NextCheck` has that delay, but the model's clock saturates at
  `Horizon` and the growth with it; `StuckReapplied` only says that each check is followed
  by another.
- The runner waits `hang_timeout` + 60 s where runner.py:331 says minus 60 s.
- A contained error may come with a wrong checksum (classify.py:252), although its comment
  says that it did not escape; under `fail_count` a timeout with any output on stdout is
  Masked (runner.py:477), and one with a count on stderr only is a Hang; more than one
  injection is announced as "run invalid" and then classified (runner.py:430). A fault in a
  log that the runner does not read makes the run Inactive, also when its answer is wrong.
- CHAOSIQ.cc:196-198 calls a single omitted wakeup architecturally observable; with two
  or more dependents in the chain the skipped one is popped again by the same loop and
  woken after all (`OmitKeepsOne`). With `max_faults` 0 and probability 1 that loop never
  ends. `src_ready_bitflip` never wakes an instruction falsely (`IssueReady`): the queue
  does not look at the flag.
- CHAOSLSQFwd: `corrupt()` runs after a source fault too and can spend a second fault on
  the same load.
- CHAOSCache: clearing the Readable bit makes the next read fail the assertion at
  base.cc:453, where the comment expects a miss and a refetch; stores diverted by
  an alias change the alias line, although CHAOSCache.hh:40-43 says only the data supply is
  wrong; a `valid` fault on a dirty line loses the store; metadata and instruction-field
  faults count twice and an empty cache uses up a fault; the permanent check runs once.
  A stuck-at fault that was logged as corrected is recorded and re-applied all the same
  (CHAOSMem too), which is why `CorrectedIsMasked` speaks of flips.

## 7. What is not modelled

- Of renaming: stage timing and stalls, serialising instructions, several threads
  sharing a free list, registers with fixed mappings, instructions with several
  destinations (a sequence of renames with one sequence number each in the model).
- Of CHAOSROB: what `entry_bitflip` and `exc_suppress` do to the pipeline. Of
  CHAOSRenameMap and CHAOSROB: their use of the register file's read trace, whose one
  target they share with CHAOSPhysReg (regfile.hh:216).
- Of CHAOSPhysReg: `lastClock`, several threads, unlimited faults, the resolution of
  architectural targets.
- Of the instruction queue: functional units, memory dependences, barriers and SMT. Of the
  load/store queue: atomics, exclusives, masked and data-less stores, split requests,
  snoops, a blocked cache; stores of zeros without data, which bypass the source hook;
  negative phase offsets.
- Of exclusive access: pairs, accesses of different sizes, WFE and SEV, the lock list of
  the memory controller. Of caches: MSHRs, snoops, several levels, the paired
  sector (which bypasses the protection model), directed targets, and CHAOSMem's
  address-map mode.
- Of the tools: manifests and seeds (base + 1000 * cell + repetition, campaign.py:87,
  collide beyond 1000 repetitions), command lines, the log formats of the injectors and
  which of their lines the runner counts, an exception in a campaign with `--jobs 1`
  (campaign.py:321), the tallies and statistics of a cell, reports and diagnosis rules.
- CHAOSArmTLB, CHAOSPTW and CHAOSArmSysReg: full-system injectors into translations and
  system registers; planned. CHAOSAddrPath and CHAOSBPU replace a single value in a hook
  and add no state of their own; CHAOSCov only observes; CHAOSGateFU and CHAOSFUPerm are
  pure computations on gate netlists.
- What corrupted data does to the workload, and the rest of gem5, which makes up nearly
  all of the repository's lines: instruction sets, devices, GPU models, networks and
  vendored libraries that the injectors neither read nor change.

## 8. Plan

Done: the renaming core and its proofs; renaming faults; the injectors' engine and its
proofs; the physical register injector; campaign and classifier; the instruction queue
with CHAOSIQ and its proof; exclusive access with CHAOSExMon, its abstract specification and the proved
refinement; store-to-load forwarding with CHAOSLSQFwd and its proof; the cache set and
DRAM with CHAOSCache and CHAOSMem.

The theorems of section 5 cover every invariant and action property that the passing runs check.

Next, in this order:

1. `RenamePipe`: rename, commit and squash as messages through the time buffers,
   refining `RegRename` (which is then the abstract specification), with the effects
   of `entry_bitflip` and `exc_suppress`.
2. Translation injectors (TLB, page-table walker, system registers).
3. The accounting of the logs, the seeds and the tallies of a cell.
