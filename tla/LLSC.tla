-------------------------------- MODULE LLSC --------------------------------
(***************************************************************************)
(* What load-exclusive and store-exclusive of gem5 promise to a program,   *)
(* without monitors, caches or pipelines: a memory of versioned words and, *)
(* for each context, the words its program holds a reservation for.  A     *)
(* store-exclusive of a reserved word overwrites the version the program   *)
(* has; a store of another context to the word ends the reservation; a     *)
(* reservation may be lost at any time.                                    *)
(*                                                                         *)
(* A load-exclusive that the program never retires gives it no version,    *)
(* but may leave a reservation behind, which also ends when another        *)
(* context stores to the word.  Until then a store-exclusive may succeed   *)
(* on it, and overwrite a version the program has not got.                 *)
(*                                                                         *)
(* ExMon shows that the monitors and caches of gem5 implement this.        *)
(***************************************************************************)
EXTENDS Naturals

CONSTANTS CPUs, Addrs

VARIABLES
    mem,    \* the version of each word: every write makes a new one
    seen,   \* the version each program last loaded exclusively or wrote
    res,    \* the reservations of each program
    left,   \* the reservations that unretired load-exclusives left behind
    kind    \* what made the latest version: "none", "exclusive", "plain"

absVars == <<mem, seen, res, left, kind>>

AbsInit ==
    /\ mem = [a \in Addrs |-> 1]
    /\ seen = [c \in CPUs |-> [a \in Addrs |-> 0]]
    /\ res = [c \in CPUs |-> {}]
    /\ left = [c \in CPUs |-> {}]
    /\ kind = "none"

Shrinks(c) == res'[c] \subseteq res[c] /\ left'[c] \subseteq left[c]

\* c retires a load-exclusive of a: the version may be an old one by now, and
\* then nothing is reserved.
LL(c, a) ==
    /\ \E v \in 1 .. mem[a] :
          /\ seen' = [seen EXCEPT ![c][a] = v]
          /\ res'[c] \subseteq IF v = mem[a] THEN res[c] \cup {a}
                               ELSE res[c] \ {a}
    /\ left'[c] \subseteq left[c]
    /\ \A d \in CPUs \ {c} : Shrinks(d)
    /\ UNCHANGED <<mem, kind>>

\* An unretired load-exclusive of c leaves a reservation of a.
Leave(c, a) ==
    /\ res'[c] \subseteq res[c] /\ left'[c] \subseteq left[c] \cup {a}
    /\ \A d \in CPUs \ {c} : Shrinks(d)
    /\ UNCHANGED <<mem, seen, kind>>

\* c writes a: nobody else keeps a reservation for it.
Write(c, a) ==
    /\ mem' = [mem EXCEPT ![a] = @ + 1]
    /\ seen' = [seen EXCEPT ![c][a] = mem[a] + 1]
    /\ Shrinks(c)
    /\ \A d \in CPUs \ {c} : Shrinks(d) /\ a \notin res'[d] \cup left'[d]

\* A store-exclusive that succeeds: with a reservation, which it uses up.
SC(c, a) ==
    /\ \/ a \in res[c] /\ seen[c][a] = mem[a]
       \/ a \in left[c]
    /\ Write(c, a)
    /\ a \notin res'[c] \cup left'[c]
    /\ kind' = "exclusive"

\* A plain store.
Store(c, a) == Write(c, a) /\ kind' = "plain"

\* Reservations get lost; a store-exclusive that fails does no more.
Lose ==
    /\ \A c \in CPUs : Shrinks(c)
    /\ UNCHANGED <<mem, seen, kind>>

AbsNext ==
    \/ \E c \in CPUs, a \in Addrs :
          LL(c, a) \/ Leave(c, a) \/ SC(c, a) \/ Store(c, a)
    \/ Lose

AbsSpec == AbsInit /\ [][AbsNext]_absVars
=============================================================================
