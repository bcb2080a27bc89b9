------------------------------ MODULE HistoryConfig ------------------------------
(***************************************************************************)
(* The configuration lifecycle of history_backend_mem.c and its master.db: *)
(* the test record filled by hbm_config_test, hbm_config_posttest with     *)
(* hbm_read_masterdb / hbm_write_masterdb, and the live cfg record set by  *)
(* MOD_INIT + hbm_config_run at boot, and by hbm_rehash + hbm_config_run   *)
(* on /REHASH.  The host calls, per load: the config test hooks, the       *)
(* post-test hooks, then (on a rehash) the REHASH hooks and the run hooks; *)
(* a load whose tests report errors stops after post-test (a boot exits). *)
(* Errors of other modules' blocks reject a load just the same.           *)
(*                                                                         *)
(* prehash and posthash are always set, freed and read together: one      *)
(* salts value stands for the pair.  master.db is its secret, salts and    *)
(* version, and whether its write completed.  Each directory has its own  *)
(* master.db (hbm_set_masterdb_filename: <directory>/master.db).  A record *)
(* holds the location its directory string names: cfg's is made absolute  *)
(* under PERMDATADIR, test's item is kept as written, so a relative one is *)
(* opened against the process's working directory.                        *)
(***************************************************************************)
EXTENDS Integers

CONSTANTS
    Secret,     \* db-secret values
    Salt,       \* values gen_random_alnum can produce
    Version,    \* mdb_version values a master.db on disk may carry
    WeakSecret, \* the secrets unrealdb_test_secret rejects
    Dir,        \* paths the directory item may give
    Relative,   \* those of Dir that are relative paths
    DefaultDir, \* "history", a relative path, set by setcfg
    Null,       \* a NULL pointer / an absent file
    Unset       \* a set::history::channel item the file leaves out

VARIABLES
    cfg,        \* the live cfg record: persist, db_secret, directory, salts
    test,       \* the test record, of the same shape
    master,     \* master[l]: the master.db in location l, or Null
    conf,       \* the set::history::channel block being loaded
    active,     \* the block the running server last loaded
    phase,      \* "down", "test", "posttest", "run", "running"
    rehash      \* the load in progress is a /REHASH

vars == <<cfg, test, master, conf, active, phase, rehash>>

Conf == [persist : {Unset, "yes", "no"}, db_secret : Secret \cup {Unset},
         directory : Dir \cup {Unset}]
Master == [secret : Secret, salts : Salt, version : Version, complete : BOOLEAN]

\* convert_to_absolute_path(p, PERMDATADIR): a relative path is taken under
\* the permanent data directory.
convert_to_absolute_path(p) ==
    IF p \in Relative THEN <<"PERMDATADIR", p>> ELSE <<"/", p>>

\* A path used as written: the system resolves a relative one against the
\* working directory.
AsWritten(p) == IF p \in Relative THEN <<"cwd", p>> ELSE <<"/", p>>

Location == {convert_to_absolute_path(p) : p \in Dir} \cup {AsWritten(p) : p \in Dir}

\* The two treatments of a directory item, as functions of the item.
Written  == [p \in Dir |-> AsWritten(p)]
Absolute == [p \in Dir |-> convert_to_absolute_path(p)]

\* setcfg: the default directory, made absolute, and its master.db name.
setcfg(c) == [c EXCEPT !.directory = convert_to_absolute_path(DefaultDir)]

\* freecfg: the strings are freed; persist is an int and is left alone.
freecfg(c) == [c EXCEPT !.directory = Null, !.db_secret = Null, !.salts = Null]

\* The memset in MOD_TEST, then setcfg (of test there, of cfg in MOD_INIT).
ZeroCfg == setcfg([persist |-> FALSE, db_secret |-> Null, directory |-> Null,
                   salts |-> Null])

-----------------------------------------------------------------------------
(* Boot and rehash entry                                                   *)

\* MOD_TEST: cfg and test are zeroed before the first config test.
MOD_TEST ==
    /\ phase = "down"
    /\ phase' = "test" /\ rehash' = FALSE
    /\ cfg' = ZeroCfg /\ test' = ZeroCfg
    /\ UNCHANGED <<master, conf, active>>

StartRehash ==
    /\ phase = "running"
    /\ phase' = "test" /\ rehash' = TRUE
    /\ UNCHANGED <<cfg, test, master, conf, active>>

\* The items present in block c applied to record r, as hbm_config_test
\* does to test and hbm_config_run to cfg; path maps the directory string
\* to where it is taken to lie (kept as written, or made absolute).
ApplyItems(r, c, path) ==
    [r EXCEPT !.persist   = IF c.persist = Unset THEN @ ELSE c.persist = "yes",
              !.db_secret = IF c.db_secret = Unset THEN @ ELSE c.db_secret,
              !.directory = IF c.directory = Unset THEN @ ELSE path[c.directory]]

\* The errors hbm_config_test reports for block c: a db-secret that
\* unrealdb_test_secret rejects (it is copied into test all the same).
ConfigTestErrors(c) == c.db_secret \in WeakSecret

\* hbm_config_test for each item of the block.
hbm_config_test(c) ==
    /\ phase = "test"
    /\ phase' = "posttest" /\ conf' = c
    /\ test' = ApplyItems(test, c, Written)
    /\ UNCHANGED <<cfg, master, active, rehash>>

-----------------------------------------------------------------------------
(* Post-test and master.db                                                 *)

\* Faulty variant: a failed write of the body is not noticed.
WriteOutcomeUnchecked(r) == IF r = "partial" THEN "ok" ELSE r

\* What hbm_write_masterdb returns for a write that went as r.
WriteOutcome(r) == r

\* hbm_write_masterdb to test.masterdb with outcome r ("openfail",
\* "partial", "ok"): after a successful open, the salts are those of cfg or
\* fresh ones; the file is complete only if every write succeeded.
\* Returns [ok, salts, file], file the master.db of test.directory after it.
hbm_write_masterdb(r, fresh) ==
    LET s == IF cfg.salts # Null THEN cfg.salts ELSE fresh
    IN  IF r = "openfail"
        THEN [ok |-> FALSE, salts |-> cfg.salts, file |-> master[test.directory]]
        ELSE [ok   |-> WriteOutcome(r) = "ok", salts |-> s,
              file |-> [secret |-> test.db_secret, salts |-> s,
                        version |-> 5000, complete |-> r = "ok"]]

\* hbm_read_masterdb of test.masterdb: not found means first boot and a
\* write; otherwise cfg's salts are freed and read back (a read error
\* leaves them NULL).  mdb_version is read but not checked.
hbm_read_masterdb(r, fresh) ==
    LET f == master[test.directory] IN
    IF f = Null THEN hbm_write_masterdb(r, fresh)
    ELSE [ok |-> f.complete, salts |-> IF f.complete THEN f.salts ELSE Null,
          file |-> f]

\* hbm_config_posttest, then the host: a load with errors ends here.  made:
\* the directory exists after mkdir; other: an error another module
\* reports for the same configuration file.
hbm_config_posttest ==
    /\ phase = "posttest"
    /\ \E r \in {"openfail", "partial", "ok"}, fresh \in Salt,
          made \in BOOLEAN, other \in BOOLEAN :
        LET both   == test.db_secret # Null /\ test.persist
            \* unrealdb_test_db: an existing master.db the secret cannot open
            file   == master[test.directory]
            locked == both /\ file # Null /\ file.secret # test.db_secret
            res    == IF both /\ ~locked /\ made THEN hbm_read_masterdb(r, fresh)
                      ELSE [ok |-> ~both, salts |-> cfg.salts, file |-> file]
            good   == /\ (test.db_secret = Null) = ~test.persist
                      /\ ~locked /\ res.ok /\ ~ConfigTestErrors(conf) /\ ~other
        IN  /\ cfg' = [cfg EXCEPT !.salts = res.salts]
            /\ master' = [master EXCEPT ![test.directory] = res.file]
            /\ phase' = IF good THEN "run" ELSE IF rehash THEN "running" ELSE "down"
    \* freecfg(&test); setcfg(&test): persist is not reset
    /\ test' = setcfg(freecfg(test))
    /\ UNCHANGED <<conf, active, rehash>>

-----------------------------------------------------------------------------
(* Run                                                                     *)

\* hbm_rehash: freecfg then setcfg on the live record.
hbm_rehash(c) == setcfg(freecfg(c))

\* hbm_config_run for each present item, after MOD_INIT's setcfg (boot) or
\* the REHASH hook (rehash).
hbm_config_run ==
    /\ phase = "run"
    /\ LET base == IF rehash THEN hbm_rehash(cfg) ELSE cfg
       IN  cfg' = ApplyItems(base, conf, Absolute)
    /\ phase' = "running" /\ active' = conf
    /\ UNCHANGED <<test, master, conf, rehash>>

\* history_storage_capability_parameter: the value advertised for the
\* unrealircd.org/history-storage capability, read from the live cfg.
history_storage_capability_parameter ==
    IF cfg.persist THEN "memory,disk=encrypted" ELSE "memory"

-----------------------------------------------------------------------------
(* Environment                                                             *)

\* The process dies (also in the middle of a master.db write).
Crash == /\ phase # "down" /\ phase' = "down"
         /\ UNCHANGED <<cfg, test, master, conf, active, rehash>>

\* master.db disappears (removed by hand, lost with the disk) while no load
\* is in progress: test, post-test and run follow each other in one pass
\* of the host's event loop.
MasterLost == /\ phase \in {"down", "running"}
              /\ \E l \in Location : /\ master[l] # Null
                                    /\ master' = [master EXCEPT ![l] = Null]
              /\ UNCHANGED <<cfg, test, conf, active, phase, rehash>>

Init ==
    /\ cfg = ZeroCfg /\ test = ZeroCfg
    /\ master \in [Location -> Master \cup {Null}]
    /\ \A l \in Location : master[l] # Null => master[l].complete
    /\ conf = [persist |-> Unset, db_secret |-> Unset, directory |-> Unset]
    /\ active = conf
    /\ phase = "down" /\ rehash = FALSE

Next ==
    \/ MOD_TEST \/ StartRehash
    \/ \E c \in Conf : hbm_config_test(c)
    \/ hbm_config_posttest \/ hbm_config_run
    \/ Crash \/ MasterLost

Spec == Init /\ [][Next]_vars


-----------------------------------------------------------------------------
(* Properties                                                              *)

\* Spec section 4.5 (on boot with persist on): a boot that comes up with
\* persist on uses the master.db its post-test opened (test.masterdb, from
\* the directory item as written), and that file is complete, opened by the
\* live db_secret, and holds the live salts; a failed or partial master
\* write, a master.db locked by another secret or a missing secret stops
\* the boot (hbm_config_posttest with hbm_read/write_masterdb).  Where that
\* file lies against cfg.directory is not part of this property.
BootEstablishesMaster ==
    [][ phase = "run" /\ ~rehash /\ phase' = "running" /\ cfg'.persist =>
          LET f == master'[ApplyItems(ZeroCfg, conf, Written).directory] IN
          /\ f # Null /\ f.complete
          /\ f.secret = cfg'.db_secret
          /\ f.salts = cfg'.salts ]_vars

\* hbm_history_filename aborts ("impossible") when prehash or posthash is
\* NULL, and hbm_delete_db refuses to run: a server running with persist on
\* must hold the salts of master.db.
SaltsKnownWhenRunning ==
    phase = "running" /\ cfg.persist => cfg.salts # Null

\* Spec section 4.5: prehash/posthash are read-only for the life of the
\* directory, and a rejected /REHASH leaves the running configuration as
\* it was.  A server running with persist on names its files with the
\* salts of its own directory's master.db, whatever /REHASHes were
\* accepted or rejected (hbm_read_masterdb writes into cfg during the
\* post-test of a load that may still be rejected).
SaltsOfLiveDirectory ==
    phase = "running" /\ cfg.persist /\ cfg.salts # Null
        /\ master[cfg.directory] # Null =>
            cfg.salts = master[cfg.directory].salts

\* Spec section 4.5, step 4: a master.db whose version is below 4999 or
\* above 5000 fails the configuration, so no server runs on one.
MasterVersionSupported ==
    phase = "running" /\ cfg.persist /\ master[cfg.directory] # Null =>
        master[cfg.directory].version \in 4999..5000

\* hbm_write_db calls abort() when cfg.db_secret is NULL: a server running
\* with persist on, after any sequence of accepted and rejected /REHASHes,
\* holds a db_secret (spec section 6: db-secret is required iff persist).
SecretKnownWhenRunning ==
    phase = "running" /\ cfg.persist => cfg.db_secret # Null

=============================================================================
