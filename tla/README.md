# TLA+ models of the channel history backend

This directory holds TLA+ models of `src/src/modules/history_backend_mem.c`,
the UnrealIRCd channel-history backend, and of
`src/src/modules/third/noglobalmsg.c`, a PRIVMSG override. TLC checks them.
`PROJECT.json` lists the components, the runs, the mutants that show each
property can fail, the map from every definition to its source lines, the
findings and the hazards.

## 1. Inventory

### Components and their state

| Component | Source | State | Operations |
|---|---|---|---|
| Object store | `hbm_hash`, `hbm_find_object`, `hbm_find_or_add_object`, `hbm_delete_object_hlo` (383-428) | `history_hash_table[1019]`: chains of `HistoryLogObject`; the siphash key | find (case-insensitive), find-or-add, unlink |
| Log | `HistoryLogObject` (70-80), `hbm_history_add_line`, `hbm_history_del_line`, `hbm_history_add`, `hbm_history_cleanup`, `hbm_history_set_limit`, `hbm_history_destroy` (495-713) | per object: the line list (head = oldest added), `num_lines`, `oldest_t` (a cache), `max_lines`, `max_time`, `dirty` | add, set_limit, destroy, cleanup (time pass then count pass) |
| Replay | `hbm_history_request` (576-633) | none (read only) | request with filter `last_seconds`/`last_lines` |
| Expiry scheduler | `history_mem_clean` (1032-1053) | the static cursor `hashnum` | one timer event every `HISTORY_TIMER_EVERY` s cleans `HISTORY_CLEAN_PER_LOOP + 1` buckets; writes dirty logs when `persist` |
| Persistence controller | `hbm_write_db`, `hbm_delete_db`, `hbm_modechar_del`, `hbm_read_dbs`, `hbm_read_db`, `history_mem_init` (430-450, 807-1023, 1092-1178) | one encrypted file per +P channel, `<hash>.db.tmp`, `bad/` | write (tmp then rename), unlink, load at boot, quarantine |
| Master database | `hbm_read_masterdb`, `hbm_write_masterdb` (718-804) | `master.db`: version, `prehash`, `posthash` | read at config post-test, create on first boot |
| Configuration | `hbm_config_test`, `hbm_config_posttest`, `hbm_config_run`, `hbm_rehash`, `setcfg`, `freecfg` (200-358) | the `cfg` and `test` records | test, post-test, run, rehash |
| Capability | `history_storage_capability_parameter` (360-381) | none | formats `memory` or `memory,disk=encrypted` |
| noglobalmsg | `override_privmsg` (noglobalmsg.c 56-72) | none | reject a PRIVMSG with any `$` target, else call the original handler |

### How they interact

The host calls `hbm_history_add`, `hbm_history_request`, `hbm_history_set_limit`
and `hbm_history_destroy` through the backend record set up in `MOD_INIT`,
calls the config hooks on boot and `/REHASH`, calls `hbm_modechar_del` when a
channel loses a mode, and fires two timer events: `history_mem_init` once,
1 ms after load, and `history_mem_clean` every 5 s. Everything runs on the
host's single event loop, so there are no threads. What makes it hard is the
order of calls between timer events, and persisted state:

* the log keeps two caches (`num_lines`, `oldest_t`) that every path has to
  keep right, and the sweep skips its scan when `oldest_t` says nothing is old;
* time tags come from messages, so lines can arrive out of time order;
* the sweep reaches each bucket only every few events (the bounded lateness);
* with `persist` on, memory and disk meet only at the sweep, at `destroy` and
  at `-P`; a write can fail at any step, and the server can crash between steps;
* boot reads the files once, relying on another module having loaded first;
* the configuration hooks run in an order set by the host.

### What makes each component correct

* Log: `num_lines` equals the number of lines and never exceeds `max_lines`;
  `oldest_t` is 0 or a lower bound of the lines' times; after any cleanup no
  line is older than `max_time` and the count is within `max_lines`.
* Scheduler: every bucket is cleaned within `HISTORY_SPREAD` events, so no
  line outlives `max_time` by more than `HISTORY_MAX_OFF_SECS`.
* Replay: the result is the most recent `last_lines` lines among those within
  the stricter age limit, oldest first.
* Persistence: a file holds the lines of one complete write, never a mix;
  a log that is not dirty has its lines on disk; a dirty log of a +P channel
  is written eventually; a restart reloads what was last written.
* Master database and configuration: the salts never change for a
  directory, a bad secret or version refuses the boot.
* noglobalmsg: a PRIVMSG is passed on exactly when none of its targets
  starts with `$`.

The hazards these properties are for are listed, each at its line, in
`PROJECT.json` under `hazards`.

## 2. Plan

Modules, in order (the most important behaviour first):

1. `HistoryBackendMem` (done): object store, log, cleanup, scheduler and
   replay with persistence off. `MCHistoryBackendMem` instantiates it.
2. `HistoryPersist` (done): extends `HistoryBackendMem` with the disk
   (per-object file, `.tmp`, `bad/`), the channel's +P mode, `hbm_write_db`
   as steps that can fail, `hbm_delete_db`, `hbm_modechar_del`, crash and
   restart with `history_mem_init`/`hbm_read_db`. Properties: a file is always
   one complete write; a clean +P log is the tail of its file; a dirty +P log
   is eventually written. The stronger "not dirty means the file equals
   memory", the spec glossary's meaning of dirty, fails after a load under a
   smaller live limit (hazard at line 1019). It was dropped as a run to make
   room for `rejected_rehash_salts`. Still open: boot order as an input (hazard at line 170)
   and a property bounding what a restart loses.
3. `HistoryStore` (abstract spec, done): a map from objects to their
   retained lines, limits and sweep lateness, with no caches and no buckets.
   `HistoryBackendMem` is shown to implement it through a refinement
   mapping that forgets `num_lines`, `oldest_t` and `dirty` and turns
   `hashnum` into per-object lateness.
4. `HistoryConfig` (done): config test/post-test/run/rehash and `master.db`.
   A boot with persist on always has a complete master.db opened by its
   secret and uses its salts. Violation runs cover the unchecked master
   version (line 751), the rehash that frees the salts (line 350), and the
   stale `persist` flag that leaves persist on without a secret.
   The directory item, the weak-secret error, the directory creation and
   other modules' errors are modelled (done); `rejected_rehash_salts` shows a
   rejected `/REHASH` leaving another directory's salts live (line 743).
5. `NoGlobalMsg` (done): `strtoken` as a recursive operator and
   `override_privmsg` checked against a reference: no comma-separated
   target starts with `$`.
6. The time tag of 0 (hazard at line 512): done, as the `BadTime` input and
   the `zero_time_tag` run.
7. master.db composed with the per-channel files (done, in
   `HistoryPersist`): file names carry the salts, master.db can be lost and
   is regenerated at the next boot (line 730), and the salt check of
   `hbm_read_db` (line 953) decides what happens to the old files.
8. Next:
   * the boot order of `history_mem_init` against the channel restore
     (line 170);
   * the scheduler with the real constants. The refinement mapping relies
     on `(TABLE_SIZE - 1) \div (CLEAN_PER_LOOP + 1) <= SPREAD - 1`, which the
     real 1019 buckets, 16 + 1 per event and SPREAD 60 satisfy
     (1018 \div 17 = 59). The model checks it at 5/2/3.

## 3. Modules and runs

### HistoryBackendMem

State: `logs` (a function from the case-folded object name to a record with
the fields of `HistoryLogObject`; a line is its timestamp `l->t`), `hashnum`
(the static cursor of `history_mem_clean`) and `now` (`TStime()`, counted in
timer periods). Actions: `hbm_history_add`, `hbm_history_set_limit`,
`hbm_history_destroy`, `history_mem_clean`; `hbm_history_request` is an
operator (it changes nothing). Helpers keep the source's names:
`hbm_history_add_line`, `hbm_history_del_line`, `hbm_history_cleanup` (as
`TimePass` then `CountPass`).

Inputs: any spelling of any object name; a time tag from the last `SKEW`
periods of the clock (late S2S messages arrive out of order), or one of
`BadTime` (empty except in `zero_time_tag`); the limits the
host's +H mode can set; the filters of the replay callers.

| Run | Checks | Shows |
|---|---|---|
| `mem_core` | `TypeOK`, `CountBound`, `OldestIsLowerBound`, `Retention`, `ReplayIsFilteredSuffix`, `CleanupEnforcesLimits`, `ImplementsHistoryStore` | passes: 33,711 distinct states (about two minutes, most of it the refinement). |
| `zero_time_tag` | `CleanupEnforcesLimits` with `BadTime = {0}` | violated: a line stamped 0 (a time tag `server_time_to_unix_time` cannot parse) followed by a normal line leaves `oldest_t` above the oldest line, so `set_limit` and the sweep keep the expired line. |
| `replay_unset_lines` | `ReplayIsFilteredSuffix` with `last_lines = 0` filters | violated: an unset `last_lines` replays nothing, where the spec says it means no limit. |

Bounds (`MCHistoryBackendMem`): two objects (`#a` also spelled `#A`) in
buckets 0 and 3 of a 5-bucket table, `HISTORY_SPREAD = 3`, so
`CLEAN_PER_LOOP = 5 \div 3 = 1` and the do-while cleans 2 buckets per event,
like the real 1019/60 = 16 (+1) it does not divide evenly. Limits of 1 or 2
lines and 1 or 2 periods, release defaults of 2/2 standing for 50/86400,
clock up to 7 periods. These are enough to fill a log, evict, expire, lower a
limit over a full log, and see a bucket wait the full three events.

Fairness: none; `mem_core` checks safety only.

Mutants (one per property, in `PROJECT.json`): evicting only above the limit;
taking `oldest_t` from the first line only; a `for` loop in place of the
do-while; a filter's `last_seconds` winning when looser; the count pass
skipped when the time pass ran.

### HistoryPersist

`HistoryPersist` extends `HistoryBackendMem` with the host's +P flag per
channel (`chanP`), one file per object (`disk`: the line times of the last
complete write and whether the file still reads back, or `Absent`), the
files quarantined in `bad/` (`bad`), the server's `phase` (up, crashed,
master.db read, channels restored), the salts in memory (`salts`, the
`prehash`/`posthash` pair) and the salts `master.db` holds (`masterdb`, or
`Absent`). A file is keyed by its object and the salts it was written with,
as `hbm_history_filename` hashes both into the name; the header of the file
carries the same salts. Actions:

* `Add`, `SetLimit`, `Destroy`: the host calls of the core model. `Destroy`
  also unlinks the file (`hbm_delete_object_hlo` calls `hbm_delete_db`).
* `SetModeP` and `DelModeP`. `DelModeP` calls `hbm_modechar_del`, which unlinks
  the file and marks the log dirty.
* `history_mem_clean_persist`: the sweep. Each dirty log of a +P channel in the
  slice is written after its cleanup, and each write either reaches the rename
  (the file becomes the log, dirty is cleared) or fails at some step (the old
  file and the dirty flag stay). `.tmp` is never read back, so the rename is
  one step.
* `CorruptFile`: damage from outside the program.
* `MasterLost`: `master.db` disappears (deleted by hand, lost with a disk).
  The salts in memory stay until the next boot.
* `Crash`: memory, including the static cursor, is lost.
* `LoadMaster`: the boot's `hbm_config_posttest` reads the salts from
  `master.db`, or, when it is missing, generates new ones and writes a new
  `master.db` (`hbm_read_masterdb`, `hbm_write_masterdb`). Failures of that
  step stop the boot and belong to `HistoryConfig`.
* `RestoreChannels`: channeldb recreates the +P channels. Some of them carry +H
  with saved limits, and those get an empty log.
* `history_mem_init`: `hbm_read_dbs` and `hbm_read_db`.
  * An intact file is re-added line by line with the live limits, then marked
    clean.
  * The file of an object without a log is unlinked once its header is
    read (`hbm_find_object` fails, lines 964-970). A corrupt one is moved to
    `bad/` instead only when the damage lies in the header (`hdr`).
  * Any other corrupt file is moved to `bad/` after its first lines are
    added.
  * A file whose salts differ from the ones in memory (`SameGeneration`, the
    `strcmp` at line 953) is moved to `bad/` with no lines added.

| Run | Checks | Shows |
|---|---|---|
| `persist_core` | `TypeOKP`, `CleanLogIsSuffixOfFile`, `EventuallySaved` | passes: 18,160 distinct states. A clean +P log's lines are always the tail of its live file. Every dirty +P log is written eventually. That the directory then holds only files of the live salts is not a property: it holds only because `hbm_read_dbs` quarantines the old generation, which is the divergence `other_generation` reports. |
| `other_generation` | `OtherGenerationSkipped` | violated: a +P channel is saved, the server crashes, master.db is lost, and the boot generates new salts. `hbm_read_dbs` then moves the channel's intact file to `bad/`, where spec §4.5 says a file of another generation is skipped and left alone. All saved history is gone from the live directory after one lost master.db. |

Bounds (`MCHistoryPersist`):

* One channel, under two spellings, in bucket 2 of 3. The sweep covers 2
  buckets per event, so the bucket waits a varying number of events.
* Limits of 1 or 2 lines.
* Two salt values: enough for one regeneration of master.db to give the
  files a new name. A fresh salt equal to the old one is allowed too; the
  128 random characters make it practically impossible, and allowing it
  only adds behaviours.
* Time tags in order (`SKEW = 0`); the out-of-order cases are covered by
  `mem_core`.
* Clock up to 4 periods.

Persistence properties are per object: the only link between objects is the
shared sweep, and `mem_core` checks that. With 2 objects the state space
grows past what TLC checks in minutes.

Fairness of `FairSpecP`:

* Weak fairness of the sweep. The timer event is added with count 0, so it
  repeats for as long as the server runs. The clock stops at `MaxNow`, but the
  event keeps firing after that.
* Strong fairness, per object, of a sweep in which that object's write
  succeeds. This says disk errors are not permanent. Without it, `hbm_write_db`
  may fail forever and nothing is ever saved, which the code cannot prevent.

Mutants:

* `hbm_modechar_del` that does not mark the log dirty: a +P set again later
  leaves a clean log with no file.
* A cursor that is never stored: the sweep never reaches bucket 2, and the
  dirty log is never written.

### HistoryStore and the refinement

`HistoryStore` is what the backend promises, from spec sections 3 and 4.4.
It has no hash table, no cursor and no cached counts. Each object holds its
lines (oldest added first), its limits, and `wait`, the number of timer
events since its last sweep.

* `Write` keeps the newest `max_lines` lines.
* `Limit` enforces both limits at once.
* `Forget` drops the object.
* `Tick` sweeps a set of objects. That set must include every object whose
  `wait` has reached `SPREAD - 1`; this is the bounded lateness of spec §4.4.

`HistoryBackendMem` instantiates it as `Abstract` with a refinement mapping:

* `lines` is `entries`;
* `num_lines`, `oldest_t` and `dirty` are forgotten;
* `wait` is `SweepWait(c)`, the distance from the cursor back to the object's
  bucket, divided by the buckets one event cleans.

`ImplementsHistoryStore == Abstract!Spec` is checked in the `mem_core`
run (33,711 distinct states). This single property
ties the caches to the lines. A wrong `oldest_t` or `num_lines` makes a sweep
keep or drop a line the abstract store does not. A cursor that skips buckets
lets some `wait` run out. The mutant deletes lines exactly at the red line
(`<=` for `<`), and the refinement catches it.

### HistoryConfig

State:

* `cfg`: the live `persist`, `db_secret`, `directory` and salts.
* `test`: the test record, of the same shape.
* `master`: for each location, its `master.db`, or `Null`. The file name
  is `<directory>/master.db` (`hbm_set_masterdb_filename`). A directory
  item `p` lies at one of two locations: `hbm_config_run` and `setcfg`
  convert it to an absolute path under PERMDATADIR
  (`convert_to_absolute_path`, lines 203 and 334), while `hbm_config_test`
  copies it as written (`AsWritten`, line 254), which for a relative path
  (`Relative`) is under the working directory. The default, `history`, is
  relative.
* `conf`: the `set::history::channel` block being loaded.
* `active`: the block last loaded.
* `phase` and `rehash`: where the host is in a boot or a `/REHASH`.

Actions, in the host's order:

1. `MOD_TEST` (boot only) zeroes both records, then `setcfg` gives them the
   default directory.
2. `hbm_config_test` copies the items present in the block (`ApplyItems`, with the directory as written: `Written`).
   A secret that `unrealdb_test_secret` rejects (`WeakSecret`) is an error,
   and it is still copied.
3. `hbm_config_posttest` runs the whole post-test with `hbm_read_masterdb`
   and `hbm_write_masterdb` on the master.db of the tested directory, as
   written.
   * The directory may fail to be created.
   * A master write either fails to open, is written only in part, or
     completes.
   * Another module may report an error for the same file.
   A load with errors stops here, and a boot that stops here exits. The test
   record is then freed and reset (`freecfg`, `setcfg`). `persist` is not
   reset.
4. `hbm_config_run`: on a rehash, after `hbm_rehash` (`freecfg`, `setcfg`).

`Crash` can happen anywhere. `MasterLost` removes a `master.db` between loads.
At the start, each of the two directories has no master.db, or a complete one
with either secret, either salt, and version 4998, 5000 or 5001. Secret `k2`
is weak. A missing item value is not modelled as an input of its own: it is
an absent item plus an error, which another module's error already covers.

The hook order (test, post-test, REHASH hooks, run) is the host's (UnrealIRCd's
`init_conf`), which is not part of this repository. The findings below depend
on it.

| Run | Checks | Shows |
|---|---|---|
| `config_boot` | `BootEstablishesMaster` | passes, 1,087,292 distinct states (about 45 s), with the directory relative. A boot that comes up with persist on has a complete master.db where its post-test opened it (the item as written), which its secret opens, and it uses that file's salts. With a relative directory that file is not in `cfg.directory`, where the .db files go (hazard at line 254); the property says nothing about that placement, and its earlier form, stated about `cfg.directory`, fails on it. Mutant: a partial master write not noticed. |
| `rehash_salts` | `SaltsKnownWhenRunning` | violated. `hbm_rehash` frees the salts that post-test just read, so `hbm_delete_db` returns early at line 1169 without unlinking, and the next `hbm_write_db` reaches `hbm_history_filename`, which aborts. |
| `rejected_rehash_salts` | `SaltsOfLiveDirectory` | violated. A `/REHASH` names directory `d2`, and another module's error rejects it. By then, post-test has already read `d2`'s master.db into the live `cfg` (line 743). The server keeps writing in `d1` with `d2`'s salts, so at the next boot every file it wrote is of another generation and goes to `bad/`. |
| `rehash_secret` | `SecretKnownWhenRunning` | violated. A rejected `/REHASH` with `persist no`, then one without the block, leaves persist on with no secret, so `hbm_write_db` aborts. |
| `master_version` | `MasterVersionSupported` | violated. The master version is never checked (spec §4.5 step 4). |

The capability value, `history_storage_capability_parameter`, is an
operator over the live `cfg`: `memory,disk=encrypted` when `persist` is on,
`memory` otherwise. It changes no state, and no property reads it. A rehash
that drops `persist yes` keeps `cfg.persist` set, because `hbm_rehash`
resets only the strings. The capability then still advertises disk storage,
with the same root cause as the stale `persist` flag in `rehash_secret`.

### NoGlobalMsg

`override_privmsg` runs on each received PRIVMSG, which is one step `Receive`
with the outcome recorded:

* `ignored`: the early return when `parc < 3` or the text is empty;
* `rejected`: `ERR_YOUREBANNEDCREEP` at the first target starting with `$`;
* `passed`: the original handler is called.

`strtoken` belongs to the host and is not in this repository. It is the
recursive operator `strtoken`, giving the non-empty runs between commas that
the loop receives. `strlcpy` truncates to `BUFSIZE - 1` characters.

Inputs: every target string of up to 4 characters over `,` `$` `#`, with
every `parc`. That covers empty targets, leading, trailing and doubled commas,
and `$` in first or later position.

| Run | Checks | Shows |
|---|---|---|
| `noglobalmsg` | `RejectsExactlyGlobal` | passes, 365 distinct states. A complete PRIVMSG is refused exactly when the reference (`$` at the start or after a comma, no tokeniser) says so. Mutant: only the first target scanned. |
| `nonglobal_reaches_handler` | `NonGlobalReachesHandler` | violated. An incomplete PRIVMSG is swallowed, so the client never gets `ERR_NORECIPIENT`/`ERR_NOTEXTTOSEND`. |

Spec section 3 invariant 2 says `oldest_t` is exact. The code keeps only a
lower bound after a head eviction (line 562), which is harmless: the sweep
then scans once for nothing. The project checks the lower bound
(`OldestIsLowerBound`) that the cleanup's fast path needs, and the
`zero_time_tag` run shows how that bound can fail.

## 4. Not modelled and why

* SipHash and SHA-256: a fixed function of the case-folded name stands for
  each; collisions only share a bucket chain, which the model keeps.
* Line text and message tags: copied and freed, never examined by the backend.
  The synthesized `time` tag of `hbm_duplicate_mtags` is modelled by its
  value, the current clock.
* `DEBUGMODE` aborts: the release build is modelled.
* The Windows build's `unlink` before `rename` in `hbm_write_db`. A crash
  between the two loses the file. The POSIX build is modelled.
* The magic and version checks of `hbm_read_db`: their failures behave like
  a corrupt file with no lines read. The salt check is modelled.
* The directory's path beyond the two locations: a path is a model value,
  and `convert_to_absolute_path` maps it to `<<"PERMDATADIR", p>>` or keeps
  it, with no string handling. `HistoryPersist` keeps a
  single directory: a directory change reaches it only through a /REHASH,
  which `HistoryConfig` already shows to fail.
* `hbm_rehash_complete`, `MOD_UNLOAD`, and the capability string: no state
  is changed that a property reads.
