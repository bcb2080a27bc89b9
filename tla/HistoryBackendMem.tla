--------------------------- MODULE HistoryBackendMem ---------------------------
(***************************************************************************)
(* The in-memory part of src/modules/history_backend_mem.c: the hash table *)
(* of HistoryLogObject records, hbm_history_add, hbm_history_set_limit,    *)
(* hbm_history_destroy, hbm_history_cleanup, the history_mem_clean timer   *)
(* event and the read-only hbm_history_request.  Persistence is off here   *)
(* (cfg.persist = 0); HistoryPersist adds the disk on top of this module.  *)
(*                                                                         *)
(* A log line is abstracted to its timestamp l->t; the line text and the   *)
(* message tags are copied around but never looked at by the backend.      *)
(* Time is counted in timer periods (HISTORY_TIMER_EVERY seconds): the     *)
(* history_mem_clean event fires once per unit.                            *)
(***************************************************************************)
EXTENDS Integers, Sequences, SequencesExt

CONSTANTS
    Name,           \* spellings of object names the host passes in
    Fold,           \* Fold[n]: the case-folded name strcasecmp compares
    TABLE_SIZE,     \* HISTORY_BACKEND_MEM_HASH_TABLE_SIZE
    HashOf,         \* HashOf[c]: bucket siphash_nocase(c) % TABLE_SIZE
    CLEAN_PER_LOOP, \* HISTORY_CLEAN_PER_LOOP
    SPREAD,         \* HISTORY_SPREAD
    LimitLines,     \* max_lines values the host passes to set_limit
    LimitTimes,     \* max_time values the host passes to set_limit
    DEFAULT_LINES,  \* the release-build fallback 50 of hbm_history_add
    DEFAULT_TIME,   \* the release-build fallback 86400 of hbm_history_add
    SKEW,           \* how far a message's "time" tag may lag the clock
    BadTime,        \* what server_time_to_unix_time gives a malformed tag
    Filter,         \* HistoryFilter records [last_seconds, last_lines]
    NoFilter,       \* a NULL filter pointer
    MaxNow          \* bound on the clock

Object == {Fold[n] : n \in Name}

ASSUME /\ \A n \in Name : HashOf[Fold[n]] \in 0..(TABLE_SIZE - 1)
       /\ CLEAN_PER_LOOP \in Nat /\ SPREAD \in Nat \ {0}
       /\ LimitLines \subseteq Nat \ {0} /\ LimitTimes \subseteq Nat \ {0}
       /\ SKEW \in Nat /\ SKEW < DEFAULT_TIME

VARIABLES
    logs,     \* the HistoryLogObjects of history_hash_table, by folded name
    hashnum,  \* the static bucket cursor of history_mem_clean
    now       \* TStime()

vars == <<logs, hashnum, now>>

\* The first clock value: late enough that no time tag is negative or 0.
StartTime == SKEW + 1

\* A freshly allocated HistoryLogObject: safe_alloc zeroes every field.
EmptyLog == [entries |-> <<>>, num_lines |-> 0, oldest_t |-> 0,
             max_lines |-> 0, max_time |-> 0, dirty |-> FALSE]

LogRecord == [entries : Seq(Nat), num_lines : Nat, oldest_t : Nat,
              max_lines : Nat, max_time : Nat, dirty : BOOLEAN]

TypeOK ==
    /\ DOMAIN logs \subseteq Object
    /\ \A c \in DOMAIN logs : logs[c] \in LogRecord
    /\ hashnum \in 0..(TABLE_SIZE - 1)
    /\ now \in StartTime..MaxNow

-----------------------------------------------------------------------------
(* Object store                                                            *)

\* The bucket of a log, keyed by its case-folded name.
hbm_hash(c) == HashOf[c]

\* The log found by the case-insensitive walk of the bucket chain, or a new
\* zeroed one when the chain has none.
hbm_find_or_add_object(n) ==
    IF Fold[n] \in DOMAIN logs THEN logs[Fold[n]] ELSE EmptyLog

\* Write log h back under object n (AddListItem for a new object).
Store(n, h) == (Fold[n] :> h) @@ logs

-----------------------------------------------------------------------------
(* Log                                                                     *)

\* Faulty variant: oldest_t only ever taken from the first line.
hbm_history_add_line_first_only(h, t) ==
    [h EXCEPT !.entries = Append(@, t), !.dirty = TRUE,
              !.num_lines = @ + 1,
              !.oldest_t = IF @ = 0 THEN t ELSE @]

\* Append at the tail; oldest_t is lowered, or set when it is 0 (unknown).
hbm_history_add_line(h, t) ==
    [h EXCEPT !.entries = Append(@, t), !.dirty = TRUE,
              !.num_lines = @ + 1,
              !.oldest_t = IF t < @ \/ @ = 0 THEN t ELSE @]

\* Unlink line i; oldest_t is left for the caller to recompute.
hbm_history_del_line(h, i) ==
    [h EXCEPT !.entries = RemoveAt(@, i), !.dirty = TRUE,
              !.num_lines = @ - 1]

\* The recomputation loops of hbm_history_cleanup: starting from 0, take
\* each surviving l->t when oldest_t is 0 or l->t is smaller.
OldestOf(s) == FoldLeft(LAMBDA o, t : IF o = 0 \/ t < o THEN t ELSE o, 0, s)

\* Faulty variant: a line exactly at the red line is deleted too.
TimePassInclusive(h, redline) ==
    IF h.oldest_t <= redline
    THEN LET kept == SelectSeq(h.entries, LAMBDA t : t > redline)
             gone == Len(h.entries) - Len(kept)
         IN  [h EXCEPT !.entries = kept, !.num_lines = @ - gone,
                       !.dirty = @ \/ gone > 0, !.oldest_t = OldestOf(kept)]
    ELSE h

\* First pass of hbm_history_cleanup: drop lines older than the red line,
\* but only when the cached oldest_t says there is one.
TimePass(h, redline) ==
    IF h.oldest_t < redline
    THEN LET kept == SelectSeq(h.entries, LAMBDA t : t >= redline)
             gone == Len(h.entries) - Len(kept)
         IN  [h EXCEPT !.entries = kept, !.num_lines = @ - gone,
                       !.dirty = @ \/ gone > 0, !.oldest_t = OldestOf(kept)]
    ELSE h

\* Second pass: delete from the head while num_lines > max_lines.
CountPass(h) ==
    IF h.num_lines > h.max_lines
    THEN LET gone == IF h.num_lines - h.max_lines < Len(h.entries)
                     THEN h.num_lines - h.max_lines ELSE Len(h.entries)
             kept == SubSeq(h.entries, gone + 1, Len(h.entries))
         IN  [h EXCEPT !.entries = kept, !.num_lines = @ - gone,
                       !.dirty = @ \/ gone > 0, !.oldest_t = OldestOf(kept)]
    ELSE h

\* Faulty variant: the count pass only runs when the time pass did not.
hbm_history_cleanup_either(h, t) ==
    IF h.oldest_t < t - h.max_time THEN TimePass(h, t - h.max_time)
    ELSE CountPass(h)

\* hbm_history_cleanup at clock value t: time first, then count.
hbm_history_cleanup(h, t) == CountPass(TimePass(h, t - h.max_time))

-----------------------------------------------------------------------------
(* Public API                                                              *)

\* Faulty variant: evict only when the log is over, not at, its limit.
AddToLogOver(h, t) ==
    LET h1 == IF h.max_lines = 0
              THEN [h EXCEPT !.max_lines = DEFAULT_LINES,
                             !.max_time = DEFAULT_TIME]
              ELSE h
    IN  hbm_history_add_line(IF h1.num_lines > h1.max_lines
                             THEN hbm_history_del_line(h1, 1) ELSE h1, t)

\* The body of hbm_history_add on log h: a log without limits gets the
\* release defaults; a full log loses its head before the new tail is added.
AddToLog(h, t) ==
    LET h1 == IF h.max_lines = 0
              THEN [h EXCEPT !.max_lines = DEFAULT_LINES,
                             !.max_time = DEFAULT_TIME]
              ELSE h
    IN  hbm_history_add_line(IF h1.num_lines >= h1.max_lines
                             THEN hbm_history_del_line(h1, 1) ELSE h1, t)

\* Add a line stamped t to object n, creating the object if needed.
hbm_history_add(n, t) ==
    /\ logs' = Store(n, AddToLog(hbm_find_or_add_object(n), t))
    /\ UNCHANGED <<hashnum, now>>

\* Overwrite the limits and impose them at once.
hbm_history_set_limit(n, ml, mt) ==
    LET h == [hbm_find_or_add_object(n) EXCEPT !.max_lines = ml,
                                               !.max_time = mt]
    IN  /\ logs' = Store(n, hbm_history_cleanup(h, now))
        /\ UNCHANGED <<hashnum, now>>

\* Free every line and unlink the object; an unknown object is a no-op.
hbm_history_destroy(n) ==
    /\ Fold[n] \in DOMAIN logs
    /\ logs' = [c \in DOMAIN logs \ {Fold[n]} |-> logs[c]]
    /\ UNCHANGED <<hashnum, now>>

-----------------------------------------------------------------------------
(* Expiry scheduler                                                        *)

\* The do-while loop runs its body CLEAN_PER_LOOP + 1 times from hashnum.
CleanedBuckets(k) == {(hashnum + i) % TABLE_SIZE : i \in 0..k}

\* Faulty variant: hashnum++ without the reset to 0 at TABLE_SIZE.
AdvanceCursorNoWrap(b, k) == b + k

\* Faulty variant: the cursor is a local, so every event restarts at the
\* same bucket.
AdvanceCursorStuck(b, k) == b

\* hashnum++ and its wrap to 0 at TABLE_SIZE, k times.
AdvanceCursor(b, k) == (b + k) % TABLE_SIZE

\* TStime() at the next event; the clock stops at the bound MaxNow, after
\* which events still fire.
NextTime == IF now < MaxNow THEN now + 1 ELSE now

\* The logs after hbm_history_cleanup at clock t of every log in the
\* buckets of the next k + 1 body runs.
CleanSlice(k, t) ==
    [c \in DOMAIN logs |->
        IF hbm_hash(c) \in CleanedBuckets(k)
        THEN hbm_history_cleanup(logs[c], t) ELSE logs[c]]

\* Faulty variant: a for loop, CLEAN_PER_LOOP buckets per event.
history_mem_clean_for(k) ==
    /\ now' = NextTime
    /\ logs' = CleanSlice(k - 1, now')
    /\ hashnum' = AdvanceCursor(hashnum, k)

\* The timer event, HISTORY_TIMER_EVERY seconds after the previous one:
\* clean every log of the next slice of buckets and advance the cursor.
history_mem_clean(k) ==
    /\ now' = NextTime
    /\ logs' = CleanSlice(k, now')
    /\ hashnum' = AdvanceCursor(hashnum, k + 1)

-----------------------------------------------------------------------------
(* Replay (read only)                                                      *)

\* Faulty variant: a filter's last_seconds wins even when it is looser.
RedlineLoose(h, f) ==
    IF f # NoFilter /\ f.last_seconds # 0
    THEN now - f.last_seconds ELSE now - h.max_time

\* The red line: the stricter of the filter's and the object's age limit.
Redline(h, f) ==
    IF f # NoFilter /\ f.last_seconds # 0 /\ f.last_seconds < h.max_time
    THEN now - f.last_seconds ELSE now - h.max_time

\* The result log of hbm_history_request for an existing object: count the
\* lines at or above the red line, skip all but the last last_lines of them.
hbm_history_request(n, f) ==
    LET h        == logs[Fold[n]]
        aged     == SelectSeq(h.entries, LAMBDA t : t >= Redline(h, f))
        sendable == Len(aged)
        skip     == IF f # NoFilter /\ sendable > f.last_lines
                    THEN sendable - f.last_lines ELSE 0
    IN  SubSeq(aged, skip + 1, sendable)

-----------------------------------------------------------------------------
Init ==
    /\ logs = [c \in {} |-> EmptyLog]
    /\ hashnum = 0
    /\ now = StartTime

Next ==
    \/ \E n \in Name, t \in ((now - SKEW)..now) \cup BadTime : hbm_history_add(n, t)
    \/ \E n \in Name, ml \in LimitLines, mt \in LimitTimes :
          hbm_history_set_limit(n, ml, mt)
    \/ \E n \in Name : hbm_history_destroy(n)
    \/ history_mem_clean(CLEAN_PER_LOOP)

Spec == Init /\ [][Next]_vars

-----------------------------------------------------------------------------
(* Properties                                                              *)

\* The lines of object c are within its limits: none older than max_time
\* and no more than max_lines, with num_lines counting them.
LimitsHold(c) ==
    /\ logs[c].num_lines = Len(logs[c].entries)
    /\ logs[c].num_lines <= logs[c].max_lines
    /\ \A i \in DOMAIN logs[c].entries :
          logs[c].entries[i] >= now - logs[c].max_time

\* hbm_history_add and the cleanup passes keep the cached num_lines equal
\* to the number of linked lines, and never above max_lines, whatever the
\* order of adds (with or without set_limit first) and limit changes.
CountBound ==
    \A c \in DOMAIN logs :
        /\ logs[c].num_lines = Len(logs[c].entries)
        /\ logs[c].num_lines <= logs[c].max_lines

\* The cached oldest_t of hbm_history_add_line and hbm_history_cleanup is 0
\* (unknown) or no later than any line's time, through head evictions in
\* hbm_history_add and time tags that arrive out of order.  The fast-path
\* test "oldest_t < redline" of hbm_history_cleanup is sound only if so.
OldestIsLowerBound ==
    \A c \in DOMAIN logs :
        logs[c].oldest_t = 0 \/
        \A i \in DOMAIN logs[c].entries :
            logs[c].oldest_t <= logs[c].entries[i]

\* Every step that runs hbm_history_cleanup on an object (set_limit, or the
\* timer event on the object's bucket) leaves it within its limits.
CleanupEnforcesLimits ==
    [][ /\ \A n \in Name, ml \in LimitLines, mt \in LimitTimes :
              hbm_history_set_limit(n, ml, mt) => LimitsHold(Fold[n])'
        /\ history_mem_clean(CLEAN_PER_LOOP) =>
              \A c \in DOMAIN logs' :
                 hbm_hash(c) \in CleanedBuckets(CLEAN_PER_LOOP) => LimitsHold(c)'
      ]_vars

\* Bounded lateness: the sliced sweep of history_mem_clean reaches every
\* bucket within SPREAD timer periods, so no line outlives its object's
\* max_time by more than SPREAD periods (HISTORY_MAX_OFF_SECS).
Retention ==
    \A c \in DOMAIN logs :
        \A i \in DOMAIN logs[c].entries :
            logs[c].entries[i] >= now - logs[c].max_time - SPREAD

\* Spec section 4.3: the replay is the last last_lines lines (all of them
\* when last_lines is unset) among those not older than the stricter of the
\* filter's last_seconds and the object's max_time, oldest first.
RequestSpec(c, f) ==
    LET h      == logs[c]
        window == IF f = NoFilter \/ f.last_seconds = 0 THEN h.max_time
                  ELSE Min({f.last_seconds, h.max_time})
        aged   == SelectSeq(h.entries, LAMBDA t : t >= now - window)
        k      == IF f = NoFilter \/ f.last_lines = 0
                  THEN Len(aged) ELSE f.last_lines
    IN  IF k >= Len(aged) THEN aged
        ELSE SubSeq(aged, Len(aged) - k + 1, Len(aged))

\* hbm_history_request returns what spec section 4.3 describes, for every
\* known name spelling and filter, in every reachable state of the log.
ReplayIsFilteredSuffix ==
    \A n \in Name, f \in Filter \cup {NoFilter} :
        Fold[n] \in DOMAIN logs =>
            hbm_history_request(n, f) = RequestSpec(Fold[n], f)


-----------------------------------------------------------------------------
(* Refinement of HistoryStore                                              *)

\* The timer events since the sweep last reached c's bucket: the last event
\* cleaned the CLEAN_PER_LOOP + 1 buckets just behind the cursor.
SweepWait(c) ==
    ((hashnum - 1 - hbm_hash(c)) % TABLE_SIZE) \div (CLEAN_PER_LOOP + 1)

Abstract == INSTANCE HistoryStore WITH
    store <- [c \in DOMAIN logs |->
                [lines |-> logs[c].entries, max_lines |-> logs[c].max_lines,
                 max_time |-> logs[c].max_time, wait |-> SweepWait(c)]],
    clock <- now,
    TimeTag <- 0..MaxNow

\* The hash table, the bucket cursor and the cached num_lines and oldest_t
\* implement the store of spec sections 3 and 4.4: hbm_history_add keeps the
\* newest max_lines lines, set_limit enforces both limits at once, and each
\* history_mem_clean event sweeps every object due within SPREAD events,
\* removing exactly the lines past either limit.
ImplementsHistoryStore == Abstract!Spec

=============================================================================
