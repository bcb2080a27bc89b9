----------------------------- MODULE HistoryPersist -----------------------------
(***************************************************************************)
(* history_backend_mem.c with cfg.persist on: the memory backend of        *)
(* HistoryBackendMem plus one encrypted file per object, written by the    *)
(* sweep of history_mem_clean (hbm_write_db), unlinked by destroy and by   *)
(* channel mode -P (hbm_delete_db, hbm_modechar_del), and read back once   *)
(* at boot (history_mem_init, hbm_read_dbs, hbm_read_db).  The server can  *)
(* crash between any two events; memory is lost, files stay.               *)
(*                                                                         *)
(* A file is the sequence of line times it holds and whether it still      *)
(* reads back; the .tmp file is left out: it is only ever renamed over the *)
(* real file after a complete write, and hbm_read_dbs skips it.  A file is *)
(* named after its object and the salts (prehash/posthash) of master.db,   *)
(* which the boot reads or, when master.db is missing, generates afresh.   *)
(* Secret, version and write failures of master.db are in HistoryConfig.   *)
(***************************************************************************)
EXTENDS HistoryBackendMem

CONSTANTS
    Absent,   \* no file for the object
    Salt      \* prehash/posthash pairs gen_random_alnum can produce

VARIABLES
    chanP,    \* chanP[c]: channel c exists with mode +P (host state)
    disk,     \* disk[c]: the <hash>.db file of object c, or Absent
    bad,      \* objects whose file hbm_read_dbs moved to bad/
    phase,    \* "up", "down" (crashed), "config" (master.db read),
              \* "restored" (channeldb loaded)
    salts,    \* cfg.prehash/cfg.posthash in memory
    masterdb  \* the salts master.db holds, or Absent

pvars == <<chanP, disk, bad, phase, salts, masterdb>>
allvars == <<logs, hashnum, now, chanP, disk, bad, phase, salts, masterdb>>

DbFile == [lines : Seq(Nat), intact : BOOLEAN]

TypeOKP ==
    /\ TypeOK
    /\ chanP \in [Object -> BOOLEAN]
    /\ disk \in [Object \X Salt -> DbFile \cup {Absent}]
    /\ bad \subseteq Object \X Salt
    /\ phase \in {"up", "down", "config", "restored"}
    /\ salts \in Salt
    /\ masterdb \in Salt \cup {Absent}

\* hbm_history_filename: the hash of prehash, the lowercased name and
\* posthash; distinct objects or salts give distinct names.
hbm_history_filename(c) == <<c, salts>>

\* The lines the live file of c holds; none when there is no file.
FileLines(c) == LET f == disk[hbm_history_filename(c)]
                IN  IF f = Absent THEN <<>> ELSE f.lines

-----------------------------------------------------------------------------
(* Disk operations                                                         *)

\* hbm_write_db of log h that reaches the rename: the file now holds every
\* line of h, head to tail.
hbm_write_db(h) == [lines |-> h.entries, intact |-> TRUE]

\* hbm_delete_db: unlink the object's file (cfg.persist and the salts set).
hbm_delete_db(c) == [disk EXCEPT ![hbm_history_filename(c)] = Absent]

\* hbm_read_db of an intact file into log h: hbm_history_add of each line
\* with the live limits, then dirty cleared to avoid a rewrite.
LoadFile(h, s) == [FoldLeft(AddToLog, h, s) EXCEPT !.dirty = FALSE]

\* hbm_read_db of a corrupt file: the first k lines were added before the
\* read failed (R_SAFE returns 0); dirty is left as the adds set it.
LoadPartial(h, s, k) == FoldLeft(AddToLog, h, SubSeq(s, 1, k))

-----------------------------------------------------------------------------
(* Host calls, with persistence                                            *)

Add == /\ phase = "up"
       /\ \E n \in Name, t \in ((now - SKEW)..now) \cup BadTime :
                 hbm_history_add(n, t)
       /\ UNCHANGED pvars

SetLimit == /\ phase = "up"
            /\ \E n \in Name, ml \in LimitLines, mt \in LimitTimes :
                  hbm_history_set_limit(n, ml, mt)
            /\ UNCHANGED pvars

\* hbm_history_destroy: hbm_delete_object_hlo unlinks the file first.
Destroy == /\ phase = "up"
           /\ \E n \in Name :
                 /\ hbm_history_destroy(n)
                 /\ disk' = hbm_delete_db(Fold[n])
           /\ UNCHANGED <<chanP, bad, phase, salts, masterdb>>

\* The host sets +P on a channel; the backend is not told.
SetModeP == /\ phase = "up"
            /\ \E c \in Object :
                  /\ ~chanP[c]
                  /\ chanP' = [chanP EXCEPT ![c] = TRUE]
            /\ UNCHANGED <<logs, hashnum, now, disk, bad, phase, salts, masterdb>>

\* Faulty variant: the file is deleted but the log is not marked dirty.
hbm_modechar_del_keep(c) ==
    /\ chanP' = [chanP EXCEPT ![c] = FALSE]
    /\ IF c \in DOMAIN logs
       THEN /\ disk' = hbm_delete_db(c)
            /\ UNCHANGED logs
       ELSE UNCHANGED <<logs, disk>>
    /\ UNCHANGED <<hashnum, now, bad, phase, salts, masterdb>>

\* The host removes +P and calls hbm_modechar_del: a channel with history
\* loses its file, and its log is marked dirty for a later +P.
hbm_modechar_del(c) ==
    /\ chanP' = [chanP EXCEPT ![c] = FALSE]
    /\ IF c \in DOMAIN logs
       THEN /\ disk' = hbm_delete_db(c)
            /\ logs' = [logs EXCEPT ![c].dirty = TRUE]
       ELSE UNCHANGED <<logs, disk>>
    /\ UNCHANGED <<hashnum, now, bad, phase, salts, masterdb>>

DelModeP == /\ phase = "up"
            /\ \E c \in Object : chanP[c] /\ hbm_modechar_del(c)

-----------------------------------------------------------------------------
(* The sweep with writes                                                   *)

\* The logs of the slice that hbm_write_db is called for after their
\* cleanup: dirty ones whose channel still has +P (the others return 1
\* at once and stay dirty).
Due(k, cleaned) ==
    {c \in DOMAIN cleaned :
        hbm_hash(c) \in CleanedBuckets(k) /\ cleaned[c].dirty /\ chanP[c]}

\* history_mem_clean with cfg.persist: the writes in ok reach the rename and
\* clear dirty; any other write fails (open, a write, close or rename) and
\* leaves both the old file and the dirty flag.
CleanWrites(k, ok) ==
    LET cleaned == CleanSlice(k, now') IN
    /\ ok \subseteq Due(k, cleaned)
    /\ logs' = [c \in DOMAIN cleaned |->
                  IF c \in ok THEN [cleaned[c] EXCEPT !.dirty = FALSE]
                  ELSE cleaned[c]]
    /\ disk' = [f \in DOMAIN disk |->
                  IF f[1] \in ok /\ f = hbm_history_filename(f[1])
                  THEN hbm_write_db(cleaned[f[1]]) ELSE disk[f]]

history_mem_clean_persist(k) ==
    /\ phase = "up"
    /\ now' = NextTime
    /\ hashnum' = AdvanceCursor(hashnum, k + 1)
    /\ \E ok \in SUBSET DOMAIN logs : CleanWrites(k, ok)
    /\ UNCHANGED <<chanP, bad, phase, salts, masterdb>>

\* The same event with the write of log c among those that succeed.
CleanWriting(k, c) ==
    /\ history_mem_clean_persist(k)
    /\ c \in Due(k, CleanSlice(k, now'))
    /\ ~logs'[c].dirty

-----------------------------------------------------------------------------
(* Faults, crash and boot                                                  *)

\* A file is damaged on disk (outside the program).
CorruptFile == /\ \E k \in DOMAIN disk :
                     /\ disk[k] # Absent /\ disk[k].intact
                     /\ disk' = [disk EXCEPT ![k].intact = FALSE]
               /\ UNCHANGED <<logs, hashnum, now, chanP, bad, phase, salts, masterdb>>

\* master.db disappears (removed by hand, lost with the disk).
MasterLost == /\ masterdb # Absent /\ masterdb' = Absent
              /\ UNCHANGED <<logs, hashnum, now, chanP, disk, bad, phase, salts>>

\* The server dies: memory, including the static hashnum, is gone.
Crash == /\ phase = "up"
         /\ phase' = "down"
         /\ logs' = [c \in {} |-> EmptyLog]
         /\ hashnum' = 0
         /\ UNCHANGED <<now, chanP, disk, bad, salts, masterdb>>

\* hbm_config_posttest at boot with persist on, through hbm_read_masterdb:
\* the salts are read from master.db or, when it is missing, generated and
\* written to a new master.db (the per-object files are not looked at).
LoadMaster ==
    /\ phase = "down"
    /\ phase' = "config"
    /\ IF masterdb = Absent
       THEN \E s \in Salt : salts' = s /\ masterdb' = s
       ELSE salts' = masterdb /\ UNCHANGED masterdb
    /\ UNCHANGED <<logs, hashnum, now, chanP, disk, bad>>

\* On restart channeldb recreates the +P channels; those with +H get their
\* log through hbm_history_set_limit (an empty log with the saved limits).
RestoreChannels ==
    /\ phase = "config"
    /\ phase' = "restored"
    /\ \E H \in SUBSET {c \in Object : chanP[c]},
          lim \in [Object -> LimitLines \X LimitTimes] :
          logs' = [c \in H |-> [EmptyLog EXCEPT !.max_lines = lim[c][1],
                                                !.max_time = lim[c][2]]]
    /\ UNCHANGED <<hashnum, now, chanP, disk, bad, salts, masterdb>>

\* hbm_read_db's header check: the file's prehash and posthash are those
\* of cfg (the file name says which salts it was written with).
SameGeneration(k) == k[2] = salts

\* history_mem_init, 1 ms after load: hbm_read_dbs reads every file once.
\* A file of another generation or a corrupt one makes hbm_read_db return
\* 0 and is moved to bad/, a corrupt one after adding the lines read
\* before the failure. A file of an object without a log is unlinked once
\* its header is read (hbm_find_object fails), so a corrupt one goes to
\* bad/ only if the damage lies in the header (hdr).
history_mem_init ==
    /\ phase = "restored"
    /\ phase' = "up"
    /\ LET files   == {k \in DOMAIN disk : disk[k] # Absent}
           foreign == {k \in files : ~SameGeneration(k)}
           corrupt == {k \in files \ foreign : ~disk[k].intact}
           orphan  == {k \in files : k[1] \notin DOMAIN logs}
           live(c) == hbm_history_filename(c)
       IN  /\ \E cut \in [corrupt -> 0..Max(LimitLines \cup {DEFAULT_LINES})] :
                 logs' = [c \in DOMAIN logs |->
                            IF live(c) \notin files \ foreign THEN logs[c]
                            ELSE IF live(c) \in corrupt
                            THEN LoadPartial(logs[c], disk[live(c)].lines,
                                   IF cut[live(c)] < Len(disk[live(c)].lines)
                                   THEN cut[live(c)] ELSE Len(disk[live(c)].lines))
                            ELSE LoadFile(logs[c], disk[live(c)].lines)]
           /\ disk' = [k \in DOMAIN disk |->
                         IF k \in foreign \cup corrupt \cup orphan
                         THEN Absent ELSE disk[k]]
           /\ \E hdr \in SUBSET (corrupt \cap orphan) :
                 bad' = bad \cup foreign \cup (corrupt \ orphan) \cup hdr
    /\ UNCHANGED <<hashnum, now, chanP, salts, masterdb>>

-----------------------------------------------------------------------------
InitP ==
    /\ Init
    /\ chanP = [c \in Object |-> FALSE]
    /\ disk = [k \in Object \X Salt |-> Absent]
    /\ bad = {}
    /\ phase = "up"
    /\ salts \in Salt /\ masterdb = salts

NextP ==
    \/ Add \/ SetLimit \/ Destroy \/ SetModeP \/ DelModeP
    \/ history_mem_clean_persist(CLEAN_PER_LOOP)
    \/ CorruptFile \/ MasterLost
    \/ Crash \/ LoadMaster \/ RestoreChannels \/ history_mem_init

\* The timer fires every HISTORY_TIMER_EVERY seconds while the server is up
\* (EventAdd with count 0); a log whose write keeps being attempted is
\* eventually written, i.e. disk errors are not permanent.
FairSpecP ==
    /\ InitP /\ [][NextP]_allvars
    /\ WF_allvars(history_mem_clean_persist(CLEAN_PER_LOOP))
    /\ \A c \in Object : SF_allvars(CleanWriting(CLEAN_PER_LOOP, c))

-----------------------------------------------------------------------------
(* Properties                                                              *)

\* A log that is not dirty, of a +P channel, holds the last lines of its
\* file: -P, failed writes, destroy, crash, boot load with the live limits
\* and quarantine never leave a clean log with lines the file lacks (which
\* a restart would lose without the sweep ever rewriting them).
CleanLogIsSuffixOfFile ==
    phase = "up" =>
        \A c \in DOMAIN logs :
            chanP[c] /\ ~logs[c].dirty =>
                IsSuffix(logs[c].entries, FileLines(c))

\* Spec section 3, invariant 6: a dirty log of a +P channel is written by a
\* later sweep, unless the log or the +P mode goes away first.
EventuallySaved ==
    \A c \in Object :
        (phase = "up" /\ c \in DOMAIN logs /\ chanP[c] /\ logs[c].dirty)
            ~> (phase # "up" \/ c \notin DOMAIN logs \/ ~chanP[c]
                \/ ~logs[c].dirty)

\* Spec section 4.5, load algorithm: a file whose prehash/posthash differ
\* from master.db is from another generation and is skipped, not deleted
\* or moved; hbm_read_db returns 0 for it (line 953) and hbm_read_dbs
\* moves it to bad/ as if it were corrupt.
OtherGenerationSkipped ==
    [][\A k \in bad' \ bad : SameGeneration(k)']_allvars

=============================================================================
