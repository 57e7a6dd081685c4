------------------------------- MODULE LsqFwd -------------------------------
(***************************************************************************)
(* Store-to-load forwarding in the load/store queue of the O3 CPU          *)
(* (lsq_unit.cc): loads and stores of one program execute in any order,    *)
(* commit in order, and stores reach the cache after they commit.  On top  *)
(* of it CHAOSLSQFwd, which substitutes or corrupts forwarded data.        *)
(*                                                                         *)
(* Data is abstracted to where it comes from: a byte is <<i, b>> when the  *)
(* i-th instruction stored it at address b (<<0, b>> for the first         *)
(* contents), Zero, or Flipped.  Atomics, exclusives, masked and           *)
(* data-less stores, snoops and a blocked cache are left out; dependences  *)
(* are checked byte by byte (LSQDepCheckShift 0).  A refetched instruction *)
(* keeps its place in the program.                                         *)
(*                                                                         *)
(* A definition named ...Bug is the neighbouring definition with one       *)
(* plausible mistake; no behaviour of Spec uses it.                        *)
(***************************************************************************)
EXTENDS Integers, FiniteSets, Sequences

CONSTANTS
    Programs,       \* sequences of [kind, addr, size], kind "load" or "store"
    Bytes,          \* byte addresses
    Modes,          \* fault of CHAOSLSQFwd; "off" when it is not mounted
    MaxFaults,      \* CHAOSLSQFwd max_faults, not 0 here
    PhaseOffset,    \* CHAOSLSQFwd phase_offset, not negative here
    HistCap         \* HIST_CAP, the length of the history

\* sourceFault, structuralFault and faultType; without a structural fault the
\* bit fault is what corrupt() applies, also next to a source fault.
SourceFaults == {"fwd_source_sub", "stale_line_replay", "phase_offset"}
StructuralFaults == {"byte_lane_skew", "all_zero"}

ASSUME LsqAssumption ==
    /\ MaxFaults \in Nat \ {0} /\ PhaseOffset \in Nat /\ HistCap \in Nat \ {0}
    /\ Modes \subseteq {"off", "bit_flip"} \cup SourceFaults
                       \cup StructuralFaults
    /\ Programs \subseteq Seq([kind : {"load", "store"}, addr : Nat,
                              size : Nat \ {0}])
    /\ \A p \in Programs : \A i \in DOMAIN p :
           p[i].addr .. p[i].addr + p[i].size - 1 \subseteq Bytes

VARIABLES
    prog,       \* the program
    mode,       \* the fault of this simulation
    st,         \* "wait", "stalled", "exec", "committed", "written"
    val,        \* the data each load has got, a sequence of bytes
    mem,        \* the data cache and memory
    stall,      \* stallingLoadIdx and stallingStoreIsn, or NoStall
    hist,       \* CHAOSLSQFwd's ring buffer, the latest entry first
    subs,       \* numFwdSourceSub + numStaleLineReplay + numPhaseOffset
    hits        \* the other injected faults; with subs faults_injected_count

vars == <<prog, mode, st, val, mem, stall, hist, subs, hits>>

Insts == DOMAIN prog
IsLoad(i) == prog[i].kind = "load"
IsStore(i) == prog[i].kind = "store"
NoStall == [load |-> 0, store |-> 0]
Zero == <<-1, 0>>
Flipped == <<-2, 0>>

BytesOf(i) == prog[i].addr .. prog[i].addr + prog[i].size - 1

\* What store i holds of the bytes that load l wants (data() + shift_amt).
StoreData(i, l) == [n \in 1 .. prog[l].size |-> <<i, prog[l].addr + n - 1>>]

Init ==
    /\ prog \in Programs
    /\ mode \in Modes
    /\ st = [i \in DOMAIN prog |-> "wait"]
    /\ val = [i \in DOMAIN prog |-> <<>>]
    /\ mem = [b \in Bytes |-> <<0, b>>]
    /\ stall = NoStall
    /\ hist = <<>>
    /\ subs = 0 /\ hits = 0

----------------------------------------------------------------------------
\* LSQUnit::read, the comparison of a load with one store of the queue.
CoverageBug(i, l) ==
    IF prog[l].addr >= prog[i].addr THEN "full"
    ELSE IF BytesOf(i) \cap BytesOf(l) # {} THEN "partial" ELSE "none"
Coverage(i, l) ==
    LET reqS == prog[l].addr
        reqE == reqS + prog[l].size
        stS == prog[i].addr
        stE == stS + prog[i].size
        lower == reqS >= stS
        upper == reqE <= stE
        lowerPart == reqS < stE
        upperPart == reqE > stS
    IN  IF lower /\ upper THEN "full"
        ELSE IF \/ lower /\ lowerPart
                \/ upper /\ upperPart
                \/ lowerPart /\ upperPart
             THEN "partial" ELSE "none"

\* The stores it looks at: older, executed, not yet sent to the cache; the
\* youngest that covers the load at all decides.
InQueue(l) == {i \in 1 .. l - 1 : IsStore(i) /\ st[i] \in {"exec", "committed"}}
Hits(l) == {i \in InQueue(l) : Coverage(i, l) # "none"}
Youngest(S) == CHOOSE i \in S : \A j \in S : j <= i

----------------------------------------------------------------------------
Armed == mode # "off" /\ subs + hits < MaxFaults

\* CHAOSLSQFwd::pickSource records the forwarded data (only kept here when a
\* source fault may look at it) ...
Recorded(data) ==
    IF mode \notin SourceFaults THEN hist
    ELSE LET h == <<data>> \o hist
         IN  SubSeq(h, 1, IF Len(h) < HistCap THEN Len(h) ELSE HistCap)

\* ... and then may return an entry of the history that is long enough,
\* searched from depth 0, or from phase_offset.
StartDepth == IF mode = "phase_offset" THEN PhaseOffset ELSE 0
LongEnough(h, n) == {d \in StartDepth + 1 .. Len(h) : Len(h[d]) >= n}
Latest(S) == CHOOSE d \in S : \A e \in S : d <= e

\* CHAOSLSQFwd::corrupt: a structural fault if one is configured, else bits of
\* one byte of the window.
Rotated(data, k) ==
    [n \in 1 .. Len(data) |-> data[((n - 1 + k) % Len(data)) + 1]]
Skew(k, n) == IF k >= n THEN n - 1 ELSE k
Corrupted(data) ==
    CASE mode = "all_zero" -> {[n \in 1 .. Len(data) |-> Zero]}
      [] mode = "byte_lane_skew" ->
            {Rotated(data, Skew(k, Len(data))) : k \in 1 .. 7}
      [] OTHER -> {[data EXCEPT ![n] = Flipped] : n \in 1 .. Len(data)}

\* Forwarding from store i to load l, both hooks included.
CorruptHookBug(data, s) == {[data |-> data, hits |-> hits]} \cup
    IF mode # "off" THEN {[data |-> c, hits |-> hits] : c \in Corrupted(data)}
    ELSE {}
CorruptHook(data, s) == {[data |-> data, hits |-> hits]} \cup
    IF mode # "off" /\ s + hits < MaxFaults
      THEN {[data |-> c, hits |-> hits + 1] : c \in Corrupted(data)} ELSE {}

Forward(i, l) ==
    LET cur == StoreData(i, l)
        h == Recorded(cur)
        stale == LongEnough(h, Len(cur))
    IN  /\ hist' = h
        /\ \E picked \in {[data |-> cur, subs |-> subs]} \cup
                 IF mode \in SourceFaults /\ Armed /\ stale # {}
                   THEN {[data |-> SubSeq(h[Latest(stale)], 1, Len(cur)),
                          subs |-> subs + 1]} ELSE {} :
             \E out \in CorruptHook(picked.data, picked.subs) :
                /\ subs' = picked.subs
                /\ hits' = out.hits
                /\ val' = [val EXCEPT ![l] = out.data]
        /\ st' = [st EXCEPT ![l] = "exec"]
        /\ UNCHANGED <<prog, mode, mem, stall>>

\* The load needs bytes the store does not have: it waits, and the oldest such
\* load decides which store ends the wait.
Stall(i, l) ==
    /\ st' = [st EXCEPT ![l] = "stalled"]
    /\ stall' = IF stall = NoStall \/ l < stall.load
                  THEN [load |-> l, store |-> i] ELSE stall
    /\ UNCHANGED <<prog, mode, val, mem, hist, subs, hits>>

\* No store of the queue is concerned: the cache answers.
ReadCache(l) ==
    /\ val' = [val EXCEPT ![l] =
                  [n \in 1 .. prog[l].size |-> mem[prog[l].addr + n - 1]]]
    /\ st' = [st EXCEPT ![l] = "exec"]
    /\ UNCHANGED <<prog, mode, mem, stall, hist, subs, hits>>

\* LSQUnit::executeLoad and read.
ExecuteLoad(l) ==
    /\ IsLoad(l) /\ st[l] = "wait"
    /\ IF Hits(l) = {} THEN ReadCache(l)
       ELSE LET i == Youngest(Hits(l))
            IN  IF Coverage(i, l) = "full" THEN Forward(i, l) ELSE Stall(i, l)

\* checkViolations: the younger loads with a valid address that overlap.
Violators(i) == {l \in Insts : /\ l > i /\ IsLoad(l) /\ st[l] = "exec"
                               /\ BytesOf(i) \cap BytesOf(l) # {}}

\* LSQUnit::executeStore.  The oldest violator is squashed with everything
\* younger, and a stall with its load.
ExecuteStore(i) ==
    LET v == Violators(i)
        oldest == CHOOSE l \in v : \A k \in v : l <= k
        squashed == {j \in Insts : v # {} /\ j >= oldest}
    IN  /\ IsStore(i) /\ st[i] = "wait"
        /\ st' = [j \in Insts |-> IF j = i THEN "exec"
                                  ELSE IF j \in squashed THEN "wait"
                                  ELSE st[j]]
        /\ val' = [j \in Insts |-> IF j \in squashed THEN <<>> ELSE val[j]]
        /\ stall' = IF stall.load \in squashed THEN NoStall ELSE stall
        /\ UNCHANGED <<prog, mode, mem, hist, subs, hits>>

\* Commit in program order; commitStores lets the store write back.
Commit(i) ==
    /\ st[i] = "exec"
    /\ \A j \in 1 .. i - 1 : st[j] \in {"committed", "written"}
    /\ st' = [st EXCEPT ![i] = "committed"]
    /\ UNCHANGED <<prog, mode, val, mem, stall, hist, subs, hits>>

\* The waiting loads replayed when the store they wait for has been sent:
\* replayMemInst replays them all, whichever load had recorded the store.
ReplayedBug == {l \in Insts : l = stall.load}
Replayed == {l \in Insts : st[l] = "stalled"}

\* LSQUnit::writebackStores, oldest committed store first.
WriteBack(i) ==
    /\ IsStore(i) /\ st[i] = "committed"
    /\ \A j \in 1 .. i - 1 : IsStore(j) => st[j] = "written"
    /\ mem' = [b \in Bytes |-> IF b \in BytesOf(i) THEN <<i, b>> ELSE mem[b]]
    /\ st' = [j \in Insts |-> IF j = i THEN "written"
                              ELSE IF stall.store = i /\ j \in Replayed
                                THEN "wait" ELSE st[j]]
    /\ stall' = IF stall.store = i THEN NoStall ELSE stall
    /\ UNCHANGED <<prog, mode, val, hist, subs, hits>>

Next ==
    \E i \in Insts : \/ ExecuteLoad(i)
                     \/ ExecuteStore(i)
                     \/ Commit(i)
                     \/ WriteBack(i)

\* The CPU goes on executing, committing and writing back what it can.
Spec == Init /\ [][Next]_vars /\ WF_vars(Next)

----------------------------------------------------------------------------
\* What a load must get: each byte from the youngest older store to it in
\* program order.
Writers(l, b) == {i \in 1 .. l - 1 : IsStore(i) /\ b \in BytesOf(i)}
Ideal(l) ==
    [n \in 1 .. prog[l].size |->
        LET b == prog[l].addr + n - 1
        IN  IF Writers(l, b) = {} THEN <<0, b>>
            ELSE <<Youngest(Writers(l, b)), b>>]

Wrong == {l \in Insts : IsLoad(l) /\ st[l] = "committed" /\ val[l] # Ideal(l)}

\* Without faults every committed load has the bytes of the latest older
\* stores, in whatever order loads and stores executed, stalled, were squashed
\* and reached the cache.
LoadsExact == mode = "off" => Wrong = {}

\* max_faults bounds the damage: no more committed loads are wrong than faults
\* were counted, re-executed loads included, and never more than max_faults.
FaultsContained ==
    Cardinality(Wrong) <= subs + hits /\ subs + hits <= MaxFaults

\* Every load and store commits: a load that stalled on a store is replayed,
\* even if an older load has taken over the one record of who is stalled.
AllCommit == <>(\A i \in Insts : st[i] \in {"committed", "written"})

\* CHAOSLSQFwd.cc: a substitution returns "a STALE historical buffer (a
\* previously-seen store's data)", so the load does not get what it would have.
SubstitutionIsStale ==
    [][subs' # subs =>
          \E l \in Insts : /\ st[l] = "wait" /\ st'[l] = "exec"
                           /\ val'[l] # StoreData(Youngest(Hits(l)), l)]_vars
=============================================================================
