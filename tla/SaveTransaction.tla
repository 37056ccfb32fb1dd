--------------------------- MODULE SaveTransaction ---------------------------
(***************************************************************************)
(* pm save on Linux: the configuration file and the directory of program   *)
(* environments are replaced together under a journal, and an interrupted  *)
(* replacement is rolled back or completed by the next load or save.       *)
(*                                                                         *)
(* Two directories hold the names involved: the one of the configuration   *)
(* file (with the journal) and the one of the environment directory.  The  *)
(* model keeps what is visible now and the earlier contents that a power   *)
(* failure may bring back because fsync has not yet been called: changes   *)
(* reach the disk in the order they were made, as they do in a journalling *)
(* file system.  A killed daemon loses nothing that is visible.            *)
(*                                                                         *)
(* Which thread loads or saves, and when, is in SaveService.               *)
(***************************************************************************)
EXTENDS Integers

CONSTANTS
  Faults,    \* the kinds of system calls that may fail
  MaxSave,   \* bound: saves
  MaxMishap  \* bound: kills, power failures and failing calls together

ASSUME FaultsAssumption == Faults \subseteq {"write", "rename", "sync", "remove"}
ASSUME BoundAssumption == MaxSave \in Nat /\ MaxMishap \in Nat

VARIABLES
  pc,      \* the next step of the loading or saving thread
  caller,  \* who called recover_prog_cfg_save: "load" or "save"
  cfg,     \* the directory of the configuration file
  env,     \* the directory of the environment directory
  back,    \* earlier contents of both that may still be what is on the disk
  had,     \* had_cfg and had_env of the transaction being worked on
  ok,      \* recovery: both restorations have succeeded so far
  ver,     \* history: the number of the current or last save
  base,    \* history: the two contents that save started from
  result,  \* history: what that save reported
  kept,    \* history: a removal failed in a save that began without one of the two
  mishaps

vars == <<pc, caller, cfg, env, back, had, ok, ver, base, result, kept, mishaps>>

\* The contents of a file or directory: the number of the save that wrote it.
\* A file being written, or a directory being filled or emptied, is torn.
Absent == -1
Torn == -2
Contents == {Absent, Torn} \cup 0 .. MaxSave

Old == [cfg : BOOLEAN, env : BOOLEAN]
JournalStates == {"none", "prepared", "old_moved", "new_installed"}
CfgDir == [path : Contents, temp : Contents, backup : Contents,
           journal : JournalStates, had : Old]
EnvDir == [path : Contents, stage : Contents, backup : Contents]

\* What a power failure may leave.
Possible == back \cup {<<cfg, env>>}

disk == <<cfg, env, back>>

Goto(label) == pc' = label /\ UNCHANGED <<caller, had, ok, ver, base, result, kept, mishaps>>

\* One system call, then on to label.
Step(at, c, e, label) ==
  /\ pc = at
  /\ cfg' = c /\ env' = e
  /\ back' = IF <<c, e>> = <<cfg, env>> THEN back ELSE Possible
  /\ Goto(label)

Mishap == mishaps < MaxMishap /\ mishaps' = mishaps + 1

\* The call at this point fails and changes nothing.
Fail(call, at, label) ==
  /\ pc = at /\ call \in Faults /\ Mishap
  /\ pc' = label /\ kept' = (kept \/ (call = "remove" /\ Absent \in {base[1], base[2]}))
  /\ UNCHANGED <<caller, disk, had, ok, ver, base, result>>

\* remove_flat_directory: entry by entry; its errors are ignored.
RemoveDir(at, name, label) ==
  \/ env[name] \notin {Absent, Torn} /\ Step(at, cfg, [env EXCEPT ![name] = Torn], at)
  \/ Step(at, cfg, [env EXCEPT ![name] = Absent], label)
  \/ Fail("remove", at, label)

\* unlink of a file, the result of which is ignored.
Unlink(at, name, label) ==
  \/ Step(at, [cfg EXCEPT ![name] = Absent], env, label)
  \/ Fail("remove", at, label)

RenameCfg(at, from, to, label, failed) ==
  \/ /\ cfg[from] # Absent
     /\ Step(at, [cfg EXCEPT ![to] = cfg[from], ![from] = Absent], env, label)
  \/ Fail("rename", at, failed)

\* What is renamed is there.  A directory can replace an empty one only, which
\* a torn one may be.
RenameEnv(at, from, to, label, failed) ==
  \/ /\ env[from] # Absent /\ env[to] \in {Absent, Torn}
     /\ Step(at, cfg, [env EXCEPT ![to] = env[from], ![from] = Absent], label)
  \/ env[to] # Absent /\ Step(at, cfg, env, failed)
  \/ Fail("rename", at, failed)

\* sync_directory on those of the two directories that are in dirs
sync_directory(dirs) ==
  /\ back' = {p \in back : ("cfg" \in dirs => p[1] = cfg) /\ ("env" \in dirs => p[2] = env)}
  /\ UNCHANGED <<cfg, env>>

sync_transaction_directories(at, label, failed) ==
  /\ pc = at
  /\ \/ sync_directory({"cfg", "env"}) /\ Goto(label)
     \/ /\ "sync" \in Faults /\ Mishap
        /\ \E dirs \in {{}, {"cfg"}, {"env"}} : sync_directory(dirs)
        /\ pc' = failed /\ UNCHANGED <<caller, had, ok, ver, base, result, kept>>

\* The directory that holds the journal is that of the configuration file.
SyncJournal(at, label, failed) ==
  \/ pc = at /\ sync_directory({"cfg"}) /\ Goto(label)
  \/ Fail("sync", at, failed)

\* write_save_journal: the temporary journal is written, synced and renamed
\* into place; the directory is then synced.
write_save_journal(at, state, label) ==
  \/ Step(at, [cfg EXCEPT !.journal = state, !.had = had], env, state)
  \/ Fail("write", at, "failed")
  \/ SyncJournal(state, label, "failed")

-----------------------------------------------------------------------------
(* recover_prog_cfg_save *)

\* Mutant: a save whose old files were moved counts as committed.
Mut_Recover ==
  /\ pc = "recover"
  /\ had' = cfg.had /\ ok' = TRUE
  /\ pc' = CASE cfg.journal = "none" -> "recovered"
             [] cfg.journal \in {"old_moved", "new_installed"} ->
                  IF cfg.path = Absent \/ env.path = Absent
                  THEN "unrecovered" ELSE "drop_cfg_backup"
             [] OTHER -> "restore_cfg"
  /\ UNCHANGED <<caller, disk, ver, base, result, kept, mishaps>>

Recover ==
  /\ pc = "recover"
  /\ had' = cfg.had /\ ok' = TRUE
  /\ pc' = CASE cfg.journal = "none" -> "recovered"
             [] cfg.journal = "new_installed" ->
                  IF cfg.path = Absent \/ env.path = Absent
                  THEN "unrecovered" ELSE "drop_cfg_backup"
             [] OTHER -> "restore_cfg"
  /\ UNCHANGED <<caller, disk, ver, base, result, kept, mishaps>>

\* Both calls of restore_backup; its unlink or remove_flat_directory first.
RestoreFirst ==
  \/ cfg.backup # Absent /\ Unlink("restore_cfg", "path", "rename_cfg")
  \/ cfg.backup = Absent /\ ~had.cfg /\ Unlink("restore_cfg", "path", "check_cfg")
  \/ cfg.backup = Absent /\ had.cfg /\ Step("restore_cfg", cfg, env, "check_cfg")
  \/ env.backup # Absent /\ RemoveDir("restore_env", "path", "rename_env")
  \/ env.backup = Absent /\ ~had.env /\ RemoveDir("restore_env", "path", "check_env")
  \/ env.backup = Absent /\ had.env /\ Step("restore_env", cfg, env, "check_env")

RestoreSecond ==
  \/ RenameCfg("rename_cfg", "backup", "path", "restore_env", "not_restored_cfg")
  \/ RenameEnv("rename_env", "backup", "path", "recover_temp", "not_restored_env")

RestoreResult ==
  /\ pc \in {"check_cfg", "not_restored_cfg", "check_env", "not_restored_env"}
  /\ ok' = /\ ok
           /\ CASE pc = "check_cfg" -> ~had.cfg \/ cfg.path # Absent
                [] pc = "check_env" -> ~had.env \/ env.path # Absent
                [] OTHER -> FALSE
  /\ pc' = IF pc \in {"check_cfg", "not_restored_cfg"} THEN "restore_env" ELSE "recover_temp"
  /\ UNCHANGED <<caller, disk, had, ver, base, result, kept, mishaps>>

\* A committed transaction only has its backups removed.
DropBackups ==
  \/ Unlink("drop_cfg_backup", "backup", "drop_env_backup")
  \/ RemoveDir("drop_env_backup", "backup", "recover_temp")

RecoverTail ==
  \/ Unlink("recover_temp", "temp", "recover_stage")
  \/ RemoveDir("recover_stage", "stage", IF ok THEN "recover_sync" ELSE "unrecovered")
  \/ sync_transaction_directories("recover_sync", "recover_journal", "unrecovered")
  \/ Step("recover_journal", [cfg EXCEPT !.journal = "none"], env, "recover_journal_sync")
  \/ Fail("remove", "recover_journal", "unrecovered")
  \/ SyncJournal("recover_journal_sync", "recovered", "unrecovered")

recover_prog_cfg_save == Recover \/ RestoreFirst \/ RestoreSecond \/ RestoreResult \/ DropBackups \/ RecoverTail

-----------------------------------------------------------------------------
(* load_prog_cfg and save_prog_cfg *)

\* Both begin with the recovery.
Call(who) ==
  /\ pc' = "recover" /\ caller' = who
  /\ UNCHANGED <<disk, had, ok, ver, base, kept, mishaps>>

\* At start and for every reload.
load_prog_cfg == Call("load") /\ UNCHANGED result

Save == ver < MaxSave /\ Call("save") /\ result' = "none"

Return(at, who, label) ==
  /\ pc = at /\ caller = who /\ pc' = label
  /\ UNCHANGED <<caller, disk, had, ok, ver, base, kept, mishaps>>

\* The transaction gets names of its own (the suffix).
Begin ==
  /\ pc = "recovered" /\ caller = "save" /\ pc' = "stage"
  /\ cfg' = [cfg EXCEPT !.temp = Absent, !.backup = Absent]
  /\ env' = [env EXCEPT !.stage = Absent, !.backup = Absent]
  /\ UNCHANGED back
  /\ ver' = ver + 1 /\ base' = <<cfg.path, env.path>>
  /\ UNCHANGED <<caller, had, ok, result, kept, mishaps>>

\* The environment directory and the configuration file are written and
\* synced under their temporary names.
Stage ==
  \/ Step("stage", cfg, [env EXCEPT !.stage = Torn], "fill")
  \/ Fail("write", "stage", "failed")
  \/ Step("fill", cfg, [env EXCEPT !.stage = ver], "write")
  \/ Fail("write", "fill", "unstage")
  \/ Step("write", [cfg EXCEPT !.temp = Torn], env, "flush")
  \/ Fail("write", "write", "unstage")
  \/ Step("flush", [cfg EXCEPT !.temp = ver], env, "look")
  \/ Fail("write", "flush", "untemp")
  \/ Unlink("untemp", "temp", "unstage")
  \/ RemoveDir("unstage", "stage", "failed")

Look ==
  /\ pc = "look" /\ pc' = "prepare"
  /\ had' = [cfg |-> cfg.path # Absent, env |-> env.path # Absent]
  /\ UNCHANGED <<caller, disk, ok, ver, base, result, kept, mishaps>>

\* Mutant: the old files are moved before a journal says so.
Mut_MoveOld ==
  \/ Step("prepare", cfg, env, "move_cfg")
  \/ had.cfg /\ RenameCfg("move_cfg", "path", "backup", "move_env", "untemp")
  \/ ~had.cfg /\ Step("move_cfg", cfg, env, "move_env")
  \/ had.env /\ RenameEnv("move_env", "path", "backup", "moved", "move_cfg_back")
  \/ ~had.env /\ Step("move_env", cfg, env, "moved")
  \/ had.cfg /\ RenameCfg("move_cfg_back", "backup", "path", "untemp", "untemp")
  \/ ~had.cfg /\ Step("move_cfg_back", cfg, env, "untemp")
  \/ sync_transaction_directories("moved", "note_moved", "failed")
  \/ write_save_journal("note_moved", "old_moved", "install_cfg")

MoveOld ==
  \/ write_save_journal("prepare", "prepared", "move_cfg")
  \/ had.cfg /\ RenameCfg("move_cfg", "path", "backup", "move_env", "untemp")
  \/ ~had.cfg /\ Step("move_cfg", cfg, env, "move_env")
  \/ had.env /\ RenameEnv("move_env", "path", "backup", "moved", "move_cfg_back")
  \/ ~had.env /\ Step("move_env", cfg, env, "moved")
  \/ had.cfg /\ RenameCfg("move_cfg_back", "backup", "path", "untemp", "untemp")
  \/ ~had.cfg /\ Step("move_cfg_back", cfg, env, "untemp")
  \/ sync_transaction_directories("moved", "note_moved", "failed")
  \/ write_save_journal("note_moved", "old_moved", "install_cfg")

InstallNew ==
  \/ RenameCfg("install_cfg", "temp", "path", "install_env", "undo_cfg")
  \/ RenameEnv("install_env", "stage", "path", "installed", "undo_cfg")
  \/ sync_transaction_directories("installed", "note_installed", "failed")
  \/ write_save_journal("note_installed", "new_installed", "forget_cfg")

\* The error path of the installation.
Undo ==
  \/ Unlink("undo_cfg", "path", "undo_env")
  \/ RemoveDir("undo_env", "path", "back_cfg")
  \/ had.cfg /\ RenameCfg("back_cfg", "backup", "path", "back_env", "back_env")
  \/ ~had.cfg /\ Step("back_cfg", cfg, env, "back_env")
  \/ had.env /\ RenameEnv("back_env", "backup", "path", "untemp", "untemp")
  \/ ~had.env /\ Step("back_env", cfg, env, "untemp")

Forget ==
  \/ Unlink("forget_cfg", "backup", "forget_env")
  \/ RemoveDir("forget_env", "backup", "forgotten")
  \/ sync_transaction_directories("forgotten", "unjournal", "failed")
  \/ Step("unjournal", [cfg EXCEPT !.journal = "none"], env, "unjournaled")
  \/ Fail("remove", "unjournal", "unjournaled")
  \/ SyncJournal("unjournaled", "saved", "saved")

Report ==
  \/ Return("saved", "save", "ready") /\ result' = "ok"
  \/ Return("failed", "save", "ready") /\ result' = "fail"

save_prog_cfg == Begin \/ Stage \/ Look \/ MoveOld \/ InstallNew \/ Undo \/ Forget \/ Report

-----------------------------------------------------------------------------
(* Crashes *)

Crash ==
  /\ Mishap
  /\ pc' = "boot"
  /\ UNCHANGED <<caller, had, ok, ver, base, result, kept>>

Kill == Crash /\ UNCHANGED disk

PowerFailure ==
  /\ Crash
  /\ \E p \in Possible : cfg' = p[1] /\ env' = p[2]
  /\ back' = {}

\* Either of the two may be missing at first.
Init ==
  /\ pc = "boot" /\ caller = "load"
  /\ \E c, e \in {Absent, 0} :
       /\ cfg = [path |-> c, temp |-> Absent, backup |-> Absent, journal |-> "none",
                 had |-> [cfg |-> FALSE, env |-> FALSE]]
       /\ env = [path |-> e, stage |-> Absent, backup |-> Absent]
       /\ base = <<c, e>>
  /\ back = {} /\ had = [cfg |-> FALSE, env |-> FALSE] /\ ok = TRUE
  /\ ver = 0 /\ result = "none" /\ kept = FALSE /\ mishaps = 0

-----------------------------------------------------------------------------
(* Properties. *)

TypeOK ==
  /\ caller \in {"load", "save"}
  /\ Possible \subseteq CfgDir \X EnvDir
  /\ had \in Old /\ ok \in BOOLEAN
  /\ base \in Contents \X Contents
  /\ ver \in 0 .. MaxSave /\ result \in {"none", "ok", "fail"}
  /\ kept \in BOOLEAN /\ mishaps \in 0 .. MaxMishap

\* What restore_backup makes of one of the two.
Restored(backup, path, original) ==
  IF backup # Absent THEN backup ELSE IF original THEN path ELSE Absent

\* What recovery makes of the two directories.
Recovered(p) ==
  LET c == p[1]
      e == p[2]
  IN  IF c.journal \in {"none", "new_installed"}
      THEN <<c.path, e.path>>
      ELSE <<Restored(c.backup, c.path, c.had.cfg), Restored(e.backup, e.path, c.had.env)>>

New == <<ver, ver>>

\* Whatever instant the daemon is killed or the power fails at, and whichever
\* system call failed before, recovery finds the two contents of before the
\* save or the two of the save: never a mixture, a torn file or a loss; and
\* those of the save if it was reported successful (save_prog_cfg, the order
\* of its renames, journal states and syncs).  A save that is about to report
\* a failure has left the old contents, as docs/protocol_v3.md:275 says ("any
\* step that fails restores the old configuration"), but for one case: the
\* journal says new_installed, and what failed is the sync of it or the one
\* after it; then recovery takes the new contents of the failed save.
\* One more case is excepted: whether what did not exist before could be
\* removed again is not looked at by restore_backup.
EveryCrashIsRecoverable ==
  ~kept => \A p \in Possible :
             /\ Recovered(p) \in {base, New}
             /\ result = "ok" => Recovered(p) = New
             /\ pc = "failed" => Recovered(p) = base \/ p[1].journal = "new_installed"

\* After any finite number of crashes and failing calls the daemon starts: no
\* state they leave makes recover_prog_cfg_save refuse over and over.
AlwaysComesBack == []<>(pc = "ready")
=============================================================================
