------------------------------ MODULE HistoryStore ------------------------------
(***************************************************************************)
(* What the history backend promises its host (spec sections 3 and 4.4),   *)
(* with no hash table, no cursor and no cached counts: each object has the *)
(* lines it retains, oldest added first, and its limits.  A write keeps    *)
(* the newest max_lines lines; a limit change enforces both limits at      *)
(* once; a tick sweeps a set of objects, which must include every object   *)
(* not swept for SPREAD - 1 ticks (bounded lateness).  wait counts the     *)
(* ticks since an object's last sweep.                                     *)
(***************************************************************************)
EXTENDS Integers, Sequences, SequencesExt

CONSTANTS
    Object, TimeTag, LimitLines, LimitTimes, DEFAULT_LINES, DEFAULT_TIME,
    SPREAD

VARIABLES
    store,  \* store[o]: [lines, max_lines, max_time, wait]
    clock

svars == <<store, clock>>

\* The newest n lines of s.
Newest(s, n) == IF Len(s) <= n THEN s ELSE SubSeq(s, Len(s) - n + 1, Len(s))

\* Both limits at clock value t: lines older than t - max_time go, then the
\* oldest lines beyond max_lines.
Enforce(r, t) ==
    [r EXCEPT !.lines = Newest(SelectSeq(@, LAMBDA x : x >= t - r.max_time),
                               r.max_lines)]

Init == store = <<>> /\ clock \in Nat

\* A line stamped t is kept, and the log holds at most max_lines lines;
\* an object without limits gets the defaults.
Write(o, t) ==
    /\ \/ /\ o \in DOMAIN store
          /\ store' = [store EXCEPT ![o].lines = Newest(Append(@, t), store[o].max_lines)]
       \/ /\ o \notin DOMAIN store
          /\ \E w \in 0..(SPREAD - 1) :
                store' = (o :> [lines |-> <<t>>, max_lines |-> DEFAULT_LINES,
                                max_time |-> DEFAULT_TIME, wait |-> w]) @@ store
    /\ UNCHANGED clock

Limit(o, ml, mt) ==
    /\ \E w \in 0..(SPREAD - 1) :
          LET r == IF o \in DOMAIN store THEN store[o]
                   ELSE [lines |-> <<>>, wait |-> w]
          IN  store' = (o :> Enforce([lines |-> r.lines, max_lines |-> ml,
                                      max_time |-> mt, wait |-> r.wait], clock))
                       @@ store
    /\ UNCHANGED clock

Forget(o) ==
    /\ o \in DOMAIN store
    /\ store' = [p \in DOMAIN store \ {o} |-> store[p]]
    /\ UNCHANGED clock

\* A tick: the clock moves on and the objects in S are swept at the new
\* time; S holds every object whose wait has run out.
Tick ==
    /\ clock' \in {clock, clock + 1}
    /\ \E S \in SUBSET DOMAIN store :
          /\ \A o \in DOMAIN store : store[o].wait = SPREAD - 1 => o \in S
          /\ store' = [o \in DOMAIN store |->
                         IF o \in S THEN [Enforce(store[o], clock') EXCEPT !.wait = 0]
                         ELSE [store[o] EXCEPT !.wait = @ + 1]]

Next ==
    \/ \E o \in Object, t \in TimeTag : Write(o, t)
    \/ \E o \in Object, ml \in LimitLines, mt \in LimitTimes : Limit(o, ml, mt)
    \/ \E o \in Object : Forget(o)
    \/ Tick

Spec == Init /\ [][Next]_svars

=============================================================================
