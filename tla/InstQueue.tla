----------------------------- MODULE InstQueue -----------------------------
(***************************************************************************)
(* The wakeup logic of the O3 instruction queue (inst_queue.cc,            *)
(* dep_graph.hh, the two scoreboards) between rename and commit, and the   *)
(* four modes of CHAOSIQ, which injects its faults into that logic.        *)
(*                                                                         *)
(* One hardware thread, one register class, instructions with at most one  *)
(* destination that are neither memory references nor barriers.  WHEN a    *)
(* stage acts is left open.  The loops of wakeDependents and doSquash are  *)
(* taken one dependent, one source at a time; nothing else runs until they *)
(* have ended.  An assertion or panic of the code that fails is recorded   *)
(* in "panic" and ends the behaviour.                                      *)
(*                                                                         *)
(* A definition named ...Bug is the neighbouring definition with one       *)
(* plausible mistake; no behaviour of Spec uses it.                        *)
(***************************************************************************)
EXTENDS Naturals, FiniteSets, SequencesExt

CONSTANTS
    NumArch,    \* architectural registers
    NumPhys,    \* physical registers
    MaxSeq,     \* bound: instructions renamed in one behaviour
    Shapes,     \* what the n-th renamed instruction may be: [srcs, dest]
    Modes,      \* CHAOSIQ fi_mode; "off" when no injector is mounted
    Budget      \* CHAOSIQ max_faults; 0 means no limit

ArchRegs == 0 .. NumArch - 1
PhysRegs == 0 .. NumPhys - 1
SeqNums == 1 .. MaxSeq
NoInst == 0
NoDest == NumArch   \* the destination of an instruction that has none ...
NoReg == NumPhys    \* ... and the physical register of it

ASSUME IQAssumption ==
    /\ NumArch \in Nat \ {0} /\ NumPhys \in Nat /\ NumArch < NumPhys
    /\ MaxSeq \in Nat /\ Budget \in Nat
    /\ \A n \in SeqNums :
           Shapes[n] \subseteq [srcs : Seq(ArchRegs), dest : 0 .. NoDest]
    /\ Modes \subseteq {"off", "wake_omit", "wake_phase",
                        "src_ready_bitflip", "tag_sub"}

VARIABLES
    mode,           \* the mode of this simulation
    faults,         \* CHAOSIQ faults_injected_count
    insts,          \* the DynInsts, by sequence number
    renameMap,      \* architectural to physical registers
    freeList,       \* free physical registers, FIFO
    scoreboard,     \* registers ready for rename
    regScoreboard,  \* registers ready for the instruction queue
    chain,          \* dependGraph: the dependents of each register
    readyInsts,     \* how often each instruction is on a ready list
    exec,           \* how often each is between issue and writeback
    pending,        \* CHAOSIQ pending_wakeups
    wk,             \* wakeDependents: its instruction and loop variables
    sq,             \* doSquash: what is kept, and the source it has come to
    panic           \* the assertion or panic that stopped the simulator

vars == <<mode, faults, insts, renameMap, freeList, scoreboard,
          regScoreboard, chain, readyInsts, exec, pending, wk, sq, panic>>

\* An instruction: where it stands, the physical registers of its sources,
\* which of them are marked ready, how many were counted ready.
Live == {i \in 1 .. Len(insts) :
            insts[i].st \notin {"committed", "squashed"}}
Oldest(S) == CHOOSE i \in S : \A j \in S : i <= j
Youngest(S) == CHOOSE i \in S : \A j \in S : j <= i
Dest(i) == {insts[i].dest} \ {NoReg}
Sources(i) == {insts[i].srcs[k] : k \in DOMAIN insts[i].srcs}

\* What is left of an instruction that committed or was squashed: its state,
\* and its destination for a writeback still to come.
Retired(i, st) ==
    [st |-> st, srcs |-> <<>>, rdy |-> <<>>, readyRegs |-> 0,
     canIssue |-> TRUE, arch |-> 0, prev |-> 0, dest |-> insts[i].dest]

NoWake == [inst |-> NoInst, stage |-> "none", dep |-> NoInst, requeued |-> FALSE]
NoSquash == [to |-> MaxSeq, src |-> 0]

\* Neither loop is under way and the simulator runs.
Running == wk = NoWake /\ sq = NoSquash /\ panic = "none"

Init ==
    /\ mode \in Modes
    /\ faults = 0
    /\ insts = <<>>
    /\ renameMap = [a \in ArchRegs |-> a]
    /\ freeList = [n \in 1 .. NumPhys - NumArch |-> NumArch + n - 1]
    /\ scoreboard = PhysRegs
    /\ regScoreboard = PhysRegs
    /\ chain = [p \in PhysRegs \cup {NoReg} |-> <<>>]
    /\ readyInsts = [i \in SeqNums |-> 0]
    /\ exec = [i \in SeqNums |-> 0]
    /\ pending = <<>>
    /\ wk = NoWake
    /\ sq = NoSquash
    /\ panic = "none"

----------------------------------------------------------------------------
\* DynInst::markSrcRegReady, n times: canIssue is set when the count HITS the
\* number of sources.
MarkReadyBug(rec, n) ==
    [rec EXCEPT !.readyRegs = @ + n,
                !.canIssue = @ \/ Len(rec.srcs) < rec.readyRegs + n]
MarkReady(rec, n) ==
    [rec EXCEPT !.readyRegs = @ + n,
                !.canIssue = @ \/ (/\ rec.readyRegs < Len(rec.srcs)
                                   /\ Len(rec.srcs) <= rec.readyRegs + n)]

\* InstructionQueue::addIfReady: how many entries it adds to a ready list.  It
\* does not ask whether the instruction is on one or has issued already.
addIfReadyBug(rec) == IF rec.canIssue /\ rec.readyRegs > 0 THEN 1 ELSE 0
addIfReady(rec) == IF rec.canIssue THEN 1 ELSE 0

\* Rename looks its sources up, marks the ones the scoreboard calls ready,
\* and takes a new register for the destination.  Decode has marked an
\* instruction without sources as able to issue.
Rename(shape) ==
    LET srcs == [k \in DOMAIN shape.srcs |-> renameMap[shape.srcs[k]]]
        new == IF shape.dest = NoDest THEN NoReg ELSE Head(freeList)
        rdy == [k \in DOMAIN srcs |-> srcs[k] \in scoreboard]
        fresh == [st |-> "skid", srcs |-> srcs, rdy |-> rdy, readyRegs |-> 0,
                  canIssue |-> srcs = <<>>, arch |-> shape.dest,
                  dest |-> new,
                  prev |-> IF new = NoReg THEN NoReg
                           ELSE renameMap[shape.dest]]
    IN  /\ Running
        /\ Len(insts) < MaxSeq /\ shape \in Shapes[Len(insts) + 1]
        /\ shape.dest # NoDest => freeList # <<>>
        /\ insts' = Append(insts,
               MarkReady(fresh, Cardinality({k \in DOMAIN rdy : rdy[k]})))
        /\ renameMap' = [a \in ArchRegs |->
                            IF a = shape.dest THEN new ELSE renameMap[a]]
        /\ freeList' = IF new = NoReg THEN freeList ELSE Tail(freeList)
        /\ scoreboard' = scoreboard \ {new}
        /\ UNCHANGED <<mode, faults, regScoreboard, chain, readyInsts, exec,
                       pending, wk, sq, panic>>

\* InstructionQueue::addToDependents: a source that is not marked is looked up
\* again in the queue's own scoreboard, then marked or put at the head of its
\* register's chain.
Unmarked(i) == {k \in DOMAIN insts[i].srcs : ~insts[i].rdy[k]}
BecameReady(i) == {k \in Unmarked(i) : insts[i].srcs[k] \in regScoreboard}

Depends(i, p) ==
    Cardinality({k \in Unmarked(i) \ BecameReady(i) : insts[i].srcs[k] = p})

\* InstructionQueue::insert of the instruction i.
InsertInst(i) ==
    LET rec == MarkReady([insts[i] EXCEPT
                   !.st = "iq",
                   !.rdy = [k \in DOMAIN @ |-> @[k] \/ k \in BecameReady(i)]],
                   Cardinality(BecameReady(i)))
    IN  /\ insts' = [insts EXCEPT ![i] = rec]
        /\ chain' = [p \in DOMAIN chain |->
                        [n \in 1 .. Depends(i, p) |-> i] \o chain[p]]
        /\ panic' = IF chain[rec.dest] # <<>> THEN "producers" ELSE panic
        /\ regScoreboard' = regScoreboard \ {rec.dest}
        /\ readyInsts' = [readyInsts EXCEPT
                             ![i] = @ + addIfReady(rec)]
        /\ UNCHANGED <<mode, faults, renameMap, freeList, scoreboard, exec,
                       pending, wk, sq>>

\* Dispatch is in program order.
Insert ==
    LET skid == {j \in Live : insts[j].st = "skid"}
    IN  Running /\ skid # {} /\ InsertInst(Oldest(skid))

\* InstructionQueue::scheduleReadyInsts, one entry of a ready list: a squashed
\* instruction is dropped, any other issues.  The lists of the operation
\* classes and the functional units decide which; any may be next.
Issue(i) ==
    /\ Running
    /\ readyInsts[i] > 0
    /\ readyInsts' = [readyInsts EXCEPT ![i] = @ - 1]
    /\ IF insts[i].st = "squashed"
         THEN UNCHANGED <<insts, exec>>
         ELSE /\ insts' = [insts EXCEPT ![i].st =
                              IF @ = "iq" THEN "issued" ELSE @]
              /\ exec' = [exec EXCEPT ![i] = @ + 1]
    /\ UNCHANGED <<mode, faults, renameMap, freeList, scoreboard,
                   regScoreboard, chain, pending, wk, sq, panic>>

----------------------------------------------------------------------------
\* DependencyGraph::remove: an empty chain is left alone, an instruction that
\* is not in its chain fails the assertion.
RemoveDep(p, i) ==
    /\ chain' = [chain EXCEPT ![p] = RemoveFirst(@, i)]
    /\ panic' = IF chain[p] = <<>> \/ i \in Range(chain[p]) THEN panic ELSE "remove"

Pop(c) == IF c = <<>> THEN NoInst ELSE Head(c)
Rest(c) == IF c = <<>> THEN c ELSE Tail(c)

\* IEW::writebackInsts skips what was squashed since it issued.
DiscardedBug(i) == FALSE
Discarded(i) == insts[i].st = "squashed"

\* Otherwise it calls wakeDependents.  Instructions that end in an exception,
\* or that commit has to execute itself, are left out: the code sends them on
\* without waking their dependents, which commit squashes before long.
Writeback(i) ==
    /\ Running
    /\ exec[i] > 0
    /\ exec' = [exec EXCEPT ![i] = @ - 1]
    /\ wk' = IF Discarded(i) THEN wk
             ELSE [inst |-> i, stage |-> "deferred", dep |-> NoInst, requeued |-> FALSE]
    /\ UNCHANGED <<mode, faults, insts, renameMap, freeList, scoreboard,
                   regScoreboard, chain, readyInsts, pending, sq, panic>>

\* Its first part, one deferred wakeup of CHAOSIQ: taken off its chain and,
\* unless squashed, marked and perhaps made ready.
WakeDeferred ==
    LET d == Head(pending)
        rec == MarkReady(insts[d.inst], 1)
    IN  /\ panic = "none"
        /\ wk.stage = "deferred" /\ pending # <<>>
        /\ pending' = Tail(pending)
        /\ RemoveDep(d.reg, d.inst)
        /\ IF insts[d.inst].st = "squashed"
             THEN UNCHANGED <<insts, readyInsts>>
             ELSE /\ insts' = [insts EXCEPT ![d.inst] = rec]
                  /\ readyInsts' = [readyInsts EXCEPT ![d.inst] = @ + addIfReady(rec)]
        /\ UNCHANGED <<mode, faults, renameMap, freeList, scoreboard,
                       regScoreboard, exec, wk, sq>>

\* Then the first dependent of the destination is popped.
WakeFirst ==
    LET p == insts[wk.inst].dest
    IN  /\ panic = "none"
        /\ wk.stage = "deferred" /\ pending = <<>>
        /\ wk' = [wk EXCEPT !.stage = "chain", !.dep = Pop(chain[p])]
        /\ chain' = [chain EXCEPT ![p] = Rest(@)]
        /\ UNCHANGED <<mode, faults, insts, renameMap, freeList, scoreboard,
                       regScoreboard, readyInsts, exec, pending, sq, panic>>

\* The injector's counter; beyond the budget its value no longer matters.
Count(n) == IF n > Budget THEN n ELSE n + 1

\* CHAOSIQ::hookWakeDependents may ask for this wakeup to be skipped; its
\* window and its probability are left open.
HookFiresBug == mode \in {"wake_omit", "wake_phase"}
HookFires ==
    /\ mode \in {"wake_omit", "wake_phase"}
    /\ Budget = 0 \/ faults < Budget

\* After a skipped wakeup the NEXT dependent is popped first, then the skipped
\* one goes back to the head of the chain.
SkipBug(c, i) == [dep |-> NoInst, chain |-> <<i>> \o c]
Skip(c, i) == [dep |-> Pop(c), chain |-> <<i>> \o Rest(c)]

WakeSkip ==
    LET p == insts[wk.inst].dest
        next == Skip(chain[p], wk.dep)
    IN  /\ panic = "none"
        /\ wk.dep # NoInst
        /\ HookFires
        /\ faults' = Count(faults)
        /\ wk' = [wk EXCEPT !.dep = next.dep, !.requeued = TRUE]
        /\ chain' = [chain EXCEPT ![p] = next.chain]
        /\ pending' = IF mode = "wake_phase"
                        THEN Append(pending, [inst |-> wk.dep, reg |-> p])
                        ELSE pending
        /\ UNCHANGED <<mode, insts, renameMap, freeList, scoreboard,
                       regScoreboard, readyInsts, exec, sq, panic>>

\* The ordinary wakeup of one dependent.
WakeMark ==
    LET p == insts[wk.inst].dest
        rec == MarkReady(insts[wk.dep], 1)
    IN  /\ panic = "none"
        /\ wk.dep # NoInst
        /\ insts' = [insts EXCEPT ![wk.dep] = rec]
        /\ readyInsts' = [readyInsts EXCEPT
                             ![wk.dep] = @ + addIfReady(rec)]
        /\ wk' = [wk EXCEPT !.dep = Pop(chain[p])]
        /\ chain' = [chain EXCEPT ![p] = Rest(@)]
        /\ UNCHANGED <<mode, faults, renameMap, freeList, scoreboard,
                       regScoreboard, exec, pending, sq, panic>>

\* The end of wakeDependents and of writebackInsts: both scoreboards learn
\* that the register is ready.
WakeEnd ==
    LET i == wk.inst
        p == insts[i].dest
    IN  /\ panic = "none"
        /\ wk.stage = "chain" /\ wk.dep = NoInst
        /\ panic' = IF ~wk.requeued /\ chain[p] # <<>> THEN "drain" ELSE panic
        /\ regScoreboard' = regScoreboard \cup Dest(i)
        /\ scoreboard' = scoreboard \cup Dest(i)
        /\ insts' = [insts EXCEPT ![i].st = IF @ = "issued" THEN "done" ELSE @]
        /\ wk' = NoWake
        /\ UNCHANGED <<mode, faults, renameMap, freeList, chain, readyInsts,
                       exec, pending, sq>>

----------------------------------------------------------------------------
\* A register goes to the end of the free list; NoReg is none.
Freed(p) == IF p = NoReg THEN freeList ELSE Append(freeList, p)

\* Commit of the oldest instruction frees the register it has overwritten.
Commit ==
    /\ Running
    /\ Live # {}
    /\ LET i == Oldest(Live)
       IN  /\ insts[i].st = "done"
           /\ insts' = [insts EXCEPT ![i] = Retired(i, "committed")]
           /\ freeList' = Freed(insts[i].prev)
    /\ UNCHANGED <<mode, faults, renameMap, scoreboard, regScoreboard, chain,
                   readyInsts, exec, pending, wk, sq, panic>>

\* A squash of everything younger than k: k has executed (a mispredicted
\* branch), or nothing older is left (a trap at commit).
Squash(k) ==
    /\ Running
    /\ k \in Live \/ (Live # {} /\ k = Oldest(Live) - 1)
    /\ k \in Live => insts[k].st \in {"issued", "done"}
    /\ \E i \in Live : i > k
    /\ sq' = [to |-> k, src |-> 1]
    /\ UNCHANGED <<mode, faults, insts, renameMap, freeList, scoreboard,
                   regScoreboard, chain, readyInsts, exec, pending, wk, panic>>

\* The instructions still to be squashed, from the youngest.  One that has not
\* issued goes through its sources first.
Victims == {i \in Live : i > sq.to}
AtSource(i) == insts[i].st = "iq" /\ sq.src <= Len(insts[i].srcs)

\* InstructionQueue::doSquash, one source: the instruction is removed from the
\* chain of a source that is not marked ready.
SquashSourceBug ==
    LET i == Youngest(Victims)
    IN  /\ panic = "none" /\ Victims # {} /\ AtSource(i)
        /\ sq' = [sq EXCEPT !.src = @ + 1]
        /\ UNCHANGED <<mode, faults, insts, renameMap, freeList, scoreboard, chain,
                       regScoreboard, readyInsts, exec, pending, wk, panic>>
SquashSource ==
    LET i == Youngest(Victims)
    IN  /\ panic = "none" /\ Victims # {} /\ AtSource(i)
        /\ IF insts[i].rdy[sq.src] THEN UNCHANGED <<chain, panic>>
           ELSE RemoveDep(insts[i].srcs[sq.src], i)
        /\ sq' = [sq EXCEPT !.src = @ + 1]
        /\ UNCHANGED <<mode, faults, insts, renameMap, freeList, scoreboard,
                       regScoreboard, readyInsts, exec, pending, wk>>

\* The rest of doSquash for one instruction: the chain of its own destination
\* must be empty, if it was dispatched; rename restores the mapping it has
\* replaced and frees its register.  The squashes of queue, rename and reorder
\* buffer, which the code spreads over several cycles, are merged here, and
\* the register is free at once (RegRename has the delay of the freeing).
SquashInst ==
    LET i == Youngest(Victims)
        rec == insts[i]
    IN  /\ panic = "none" /\ Victims # {} /\ ~AtSource(i)
        /\ panic' = IF rec.st # "skid" /\ chain[rec.dest] # <<>> THEN "dest" ELSE panic
        /\ insts' = [insts EXCEPT ![i] = Retired(i, "squashed")]
        /\ renameMap' = [a \in ArchRegs |->
                            IF a = rec.arch THEN rec.prev ELSE renameMap[a]]
        /\ freeList' = Freed(rec.dest)
        /\ sq' = IF Victims = {i} THEN NoSquash ELSE [sq EXCEPT !.src = 1]
        /\ UNCHANGED <<mode, faults, scoreboard, regScoreboard, chain, readyInsts,
                       exec, pending, wk>>

----------------------------------------------------------------------------
\* CHAOSIQ::processFault, the polled modes: the ready flag of one source of
\* the instruction at the head of the ROB is toggled, or the tags of two of
\* its sources are swapped.
ProcessFault(k) ==
    LET head == Oldest(Live)
        n == Len(insts[head].srcs)
        other == (k % n) + 1
    IN  /\ Running
        /\ Live # {} /\ k \in 1 .. n
        /\ Budget = 0 \/ faults < Budget
        /\ \/ /\ mode = "src_ready_bitflip"
              /\ insts' = [insts EXCEPT ![head].rdy[k] = ~@]
           \/ /\ mode = "tag_sub" /\ n >= 2
              /\ insts' = [insts EXCEPT
                     ![head].srcs[k] = insts[head].srcs[other],
                     ![head].srcs[other] = insts[head].srcs[k]]
        /\ faults' = Count(faults)
        /\ UNCHANGED <<mode, renameMap, freeList, scoreboard, regScoreboard,
                       chain, readyInsts, exec, pending, wk, sq, panic>>

WakeStep == WakeDeferred \/ WakeFirst \/ WakeSkip \/ WakeMark \/ WakeEnd
SquashStep == SquashSource \/ SquashInst

Next ==
    \/ \E shape \in UNION {Shapes[n] : n \in SeqNums} : Rename(shape)
    \/ Insert
    \/ \E i \in SeqNums : Issue(i)
    \/ \E i \in SeqNums : Writeback(i)
    \/ WakeStep
    \/ Commit
    \/ \E k \in 0 .. Len(insts) : Squash(k)
    \/ SquashStep
    \/ \E k \in SeqNums : ProcessFault(k)

\* Every cycle of the CPU dispatches, issues, writes back and commits what it
\* can; a started loop runs on.  Renaming, squashes and faults are not owed.
Fairness ==
    /\ WF_vars(Insert)
    /\ WF_vars(\E i \in SeqNums : Issue(i))
    /\ WF_vars(\E i \in SeqNums : Writeback(i))
    /\ WF_vars(WakeStep)
    /\ WF_vars(SquashStep)
    /\ WF_vars(Commit)

Spec == Init /\ [][Next]_vars /\ Fairness

----------------------------------------------------------------------------
\* An instruction issues only after every producer of its sources has written
\* back: under the polled modes and wake_omit too.  In particular
\* src_ready_bitflip never causes a false wake: the flag it toggles is not
\* what scheduleReadyInsts looks at (addIfReady tests canIssue).
IssueReady ==
    mode # "wake_phase" =>
        \A i \in Live : insts[i].st \in {"issued", "done"} =>
            Sources(i) \subseteq regScoreboard

\* No wakeup is lost: without faults in the wake path an instruction in the
\* queue either can issue or waits for a register that is not written yet,
\* although rename, dispatch and writeback use two scoreboards that are
\* updated at different times.
NoLostWakeup ==
    (mode \in {"off", "tag_sub"} /\ Running) =>
        \A i \in Live : insts[i].st = "iq" =>
            (insts[i].canIssue \/ Sources(i) \cap (PhysRegs \ regScoreboard) # {})

\* A call of wakeDependents leaves at most one dependent behind, whatever the
\* budget of wake_omit: a skipped dependent is popped again unless its chain
\* was empty (inst_queue.cc, the re-queueing in the loop).
OmitKeepsOne ==
    (mode # "wake_phase" /\ Running) =>
        \A p \in regScoreboard : Len(chain[p]) <= 1

\* The assertions of the dependency graph.  Without wake faults none fails;
\* under wake_omit neither a reallocated register nor a squashed producer
\* ever finds a left-behind dependent in its chain.
DepGraphSound ==
    /\ mode \in {"off", "src_ready_bitflip", "tag_sub"} => panic = "none"
    /\ mode = "wake_omit" => panic \in {"none", "remove"}

\* With a budget the loop of wakeDependents ends (it runs inside one event of
\* the simulator: if it did not, the simulation would stand still).
WakeEnds == (wk.inst # NoInst) ~> (wk.inst = NoInst)

\* Without faults no instruction waits for ever: the (boundedly many) renamed
\* instructions all end up committed or squashed.
Drains == (mode = "off") ~> (Live = {})

\* dep_graph.hh: "Because this instruction is being removed from a dependency
\* list, it must have been placed there at an earlier time" - the search of
\* remove finds its instruction.
RemoveFindsEntry == panic # "remove"

\* inst_queue.cc calls wake_phase a "one-cycle delay approximation": a
\* deferred wakeup may hold an instruction back, never issue it early.
DeferOnlyDelays ==
    mode = "wake_phase" =>
        \A i \in Live : insts[i].st \in {"issued", "done"} =>
            Sources(i) \subseteq regScoreboard
=============================================================================
