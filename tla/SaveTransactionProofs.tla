------------------------ MODULE SaveTransactionProofs ------------------------
(***************************************************************************)
(* The inductive invariant of SaveService, and the lemmas that say what    *)
(* each system call of the save and of the recovery does to the files:     *)
(* from every state that the invariant allows, a crash after the call is   *)
(* recovered to the old pair of files or to the new one.                   *)
(***************************************************************************)
EXTENDS SaveService, TLAPS

-----------------------------------------------------------------------------
(* The threads: who is where, and what the flags of the worker say of it. *)

Threads ==
  /\ pc \notin Recovering => caller = "save" /\ ver > 0
  /\ caller = "save" /\ pc \notin {"ready", "boot"} =>
       /\ running /\ result = "none"
       /\ pc \in Recovering => ver < MaxSave /\ waiting = {ver + 1}
       /\ pc \notin Recovering => waiting = {ver}
  /\ running => up /\ caller = "save" /\ pc # "boot" /\ ~completed
  /\ running /\ pc = "ready" => result # "none"
  /\ completed => up /\ caller = "save" /\ pc = "ready" /\ result # "none" /\ outcome = result
  /\ busy => waiting = {ver} \/ (waiting = {ver + 1} /\ ver < MaxSave /\ result # "ok")
  /\ ~busy => waiting = {}
  /\ pc = "boot" => ~up

-----------------------------------------------------------------------------
(* The files. *)

Unfinished(c) == c.journal \in {"prepared", "old_moved"}

\* The journal of p, where it asks for a roll-back, describes the contents that
\* the save started from, and its backups hold them.
Good(p) ==
  /\ Recovered(p) \in {base, New}
  /\ result = "ok" => Recovered(p) = New
  /\ Unfinished(p[1]) =>
       /\ Recovered(p) = base
       /\ p[1].had.cfg = (base[1] # Absent) /\ p[1].had.env = (base[2] # Absent)

\* Without a journal the decision has been taken, on the disk too.
Decided == cfg.journal = "none" => \A p \in Possible : Recovered(p) = <<cfg.path, env.path>>

CfgRestored == cfg.backup = Absent /\ (had.cfg \/ cfg.path = Absent)
EnvRestored == env.backup = Absent /\ (had.env \/ env.path = Absent)

\* What a recovery has reached at each of its labels.
InRecovery ==
  /\ pc \in {"restore_cfg", "rename_cfg", "check_cfg", "not_restored_cfg",
             "restore_env", "rename_env", "check_env", "not_restored_env"} =>
       Unfinished(cfg) /\ had = cfg.had
  /\ pc = "check_cfg" => CfgRestored
  /\ pc = "check_env" => EnvRestored
  /\ pc \in {"restore_env", "rename_env", "check_env", "not_restored_env"} /\ ok => CfgRestored
  /\ pc \in {"drop_cfg_backup", "drop_env_backup"} => cfg.journal = "new_installed"
  /\ pc \in {"recover_temp", "recover_stage", "recover_sync", "recover_journal"} =>
       /\ cfg.journal # "none"
       /\ Unfinished(cfg) => had = cfg.had /\ (ok => CfgRestored /\ EnvRestored)
  /\ pc \in {"recover_sync", "recover_journal"} => ok
  /\ pc = "recover_journal" => \A p \in back : p = <<cfg, env>>
  /\ pc \in {"recover_journal_sync", "recovered"} => cfg.journal = "none"

\* What a save has reached at each of its labels until the switch is decided.
InSave ==
  /\ pc \in {"stage", "fill", "write", "flush", "look", "prepare"} => cfg.journal = "none"
  /\ pc \in {"stage", "fill", "write", "flush", "look", "prepare", "prepared", "move_cfg"} =>
       /\ cfg.backup = Absent /\ env.backup = Absent
       /\ cfg.path = base[1] /\ env.path = base[2]
  /\ pc \in {"write", "flush", "look", "prepare", "prepared", "move_cfg", "move_env", "moved",
             "note_moved", "old_moved", "install_cfg", "install_env"} => env.stage = ver
  /\ pc \in {"look", "prepare", "prepared", "move_cfg", "move_env", "moved", "note_moved",
             "old_moved", "install_cfg"} => cfg.temp = ver
  /\ pc = "prepare" => had.cfg = (base[1] # Absent) /\ had.env = (base[2] # Absent)
  /\ pc \in {"prepared", "move_cfg", "move_env", "move_cfg_back", "moved", "note_moved"} =>
       cfg.journal = "prepared" /\ cfg.had = had
  /\ pc = "move_env" => cfg.path = Absent /\ env.backup = Absent /\ env.path = base[2]
  /\ pc \in {"moved", "note_moved", "old_moved", "install_cfg"} =>
       cfg.path = Absent /\ env.path = Absent
  /\ pc \in {"old_moved", "install_cfg", "install_env", "installed", "note_installed",
             "undo_cfg", "undo_env", "back_cfg", "back_env"} =>
       cfg.journal = "old_moved" /\ cfg.had = had
  /\ pc \in {"install_env", "installed", "note_installed", "undo_cfg"} =>
       ~had.cfg \/ cfg.backup # Absent
  /\ pc \in {"install_env", "installed", "note_installed", "undo_cfg", "undo_env"} =>
       ~had.env \/ env.backup # Absent
  /\ pc \in {"install_env", "installed", "note_installed"} => cfg.path = ver
  /\ pc = "install_env" => env.path = Absent
  /\ pc \in {"installed", "note_installed"} => env.path = ver
  /\ pc = "note_installed" => \A p \in back : p = <<cfg, env>>

\* From the journal state new_installed on.
Committed ==
  /\ pc \in {"new_installed", "forget_cfg", "forget_env", "forgotten", "unjournal"} =>
       cfg.journal = "new_installed" /\ cfg.path = ver /\ env.path = ver
  /\ pc = "new_installed" => \A p \in back : p[1] # cfg
  /\ pc \in {"forget_cfg", "forget_env", "forgotten", "unjournal", "unjournaled", "saved"} =>
       \A p \in Possible : Recovered(p) = New

Files == (\A p \in Possible : Good(p)) /\ Decided /\ InRecovery /\ InSave /\ Committed

Inv == ServiceTypeOK /\ Threads /\ (~kept => Files)

-----------------------------------------------------------------------------
(* What one call does to the directories. *)

\* What no call of a transaction touches; the contents it makes visible join
\* those that a power failure may bring back.
Frame ==
  /\ UNCHANGED <<caller, had, ver, base, result>>
  /\ Possible' \subseteq Possible \cup {<<cfg', env'>>}
  /\ kept => kept'
  /\ mishaps' = mishaps \/ (mishaps < MaxMishap /\ mishaps' = mishaps + 1)
  /\ kept' \in BOOLEAN

\* A call that succeeds makes c and e visible.
LEMMA StepEffect ==
  ASSUME TypeOK, NEW at, NEW c, NEW e, NEW label, Step(at, c, e, label)
  PROVE  pc = at /\ pc' = label /\ cfg' = c /\ env' = e /\ ok' = ok /\ Frame
  BY DEF Step, Goto, Possible, Frame, TypeOK

\* A call that fails changes nothing; a removal that fails is noted where the
\* save began without one of the two.
LEMMA FailEffect ==
  ASSUME TypeOK, NEW call, NEW at, NEW label, Fail(call, at, label)
  PROVE  /\ pc = at /\ pc' = label /\ ok' = ok /\ Frame
         /\ cfg' = cfg /\ env' = env /\ back' = back
         /\ call = "remove" /\ Absent \in {base[1], base[2]} => kept'
  BY ZenonT(40) DEF Fail, Possible, Frame, disk, Mishap, TypeOK

\* unlink: one name of the configuration directory.
LEMMA UnlinkEffect ==
  ASSUME TypeOK, NEW at, NEW label, NEW name \in {"path", "temp", "backup"},
         Unlink(at, name, label)
  PROVE  /\ pc = at /\ pc' = label /\ env' = env /\ ok' = ok /\ Frame
         /\ cfg' \in CfgDir /\ cfg'.journal = cfg.journal /\ cfg'.had = cfg.had
         /\ cfg'[name] \in {Absent, cfg[name]}
         /\ Absent \in {base[1], base[2]} => kept' \/ cfg'[name] = Absent
         /\ \A n \in {"path", "temp", "backup"} \ {name} : cfg'[n] = cfg[n]
<1>0. cfg \in CfgDir
  BY ZenonT(40) DEF TypeOK, Possible
<1>1. CASE Step(at, [cfg EXCEPT ![name] = Absent], env, label)
  <2>1. cfg' = [cfg EXCEPT ![name] = Absent]
    BY <1>1, StepEffect
  <2>2. pc = at /\ pc' = label /\ env' = env /\ ok' = ok /\ Frame
    BY <1>1, StepEffect
  <2> QED
    BY <1>0, <2>1, <2>2 DEF CfgDir, Contents
<1>2. CASE Fail("remove", at, label)
  BY <1>0, <1>2, FailEffect
<1> QED
  BY <1>1, <1>2 DEF Unlink

\* remove_flat_directory: one name of the environments' directory, which may
\* be left half empty.
LEMMA RemoveDirEffect ==
  ASSUME TypeOK, NEW at, NEW label, at # label, NEW name \in {"path", "stage", "backup"},
         RemoveDir(at, name, label)
  PROVE  /\ pc = at /\ pc' \in {at, label} /\ cfg' = cfg /\ ok' = ok /\ Frame
         /\ env' \in EnvDir
         /\ pc' # at => env'[name] \in {Absent, env[name]}
         /\ pc' # at /\ Absent \in {base[1], base[2]} => kept' \/ env'[name] = Absent
         /\ \A n \in {"path", "stage", "backup"} \ {name} : env'[n] = env[n]
<1>0. env \in EnvDir
  BY ZenonT(40) DEF TypeOK, Possible
<1>1. CASE Step(at, cfg, [env EXCEPT ![name] = Torn], at)
  <2>1. env' = [env EXCEPT ![name] = Torn]
    BY <1>1, StepEffect
  <2>2. pc = at /\ pc' = at /\ cfg' = cfg /\ ok' = ok /\ Frame
    BY <1>1, StepEffect
  <2> QED
    BY <1>0, <2>1, <2>2 DEF EnvDir, Contents
<1>2. CASE Step(at, cfg, [env EXCEPT ![name] = Absent], label)
  <2>1. env' = [env EXCEPT ![name] = Absent]
    BY <1>2, StepEffect
  <2>2. pc = at /\ pc' = label /\ cfg' = cfg /\ ok' = ok /\ Frame
    BY <1>2, StepEffect
  <2> QED
    BY <1>0, <2>1, <2>2 DEF EnvDir, Contents
<1>3. CASE Fail("remove", at, label)
  BY <1>0, <1>3, FailEffect
<1> QED
  BY <1>1, <1>2, <1>3 DEF RemoveDir

\* rename in the configuration directory: done, or failed without effect.
LEMMA RenameCfgEffect ==
  ASSUME TypeOK, NEW at, NEW label, NEW failed, NEW from \in {"path", "temp", "backup"},
         NEW to \in {"path", "temp", "backup"}, from # to,
         RenameCfg(at, from, to, label, failed)
  PROVE  /\ pc = at /\ env' = env /\ ok' = ok /\ Frame
         /\ cfg' \in CfgDir /\ cfg'.journal = cfg.journal /\ cfg'.had = cfg.had
         /\ \/ pc' = failed /\ cfg' = cfg
            \/ /\ pc' = label /\ cfg[from] # Absent
               /\ cfg'[to] = cfg[from] /\ cfg'[from] = Absent
               /\ \A n \in {"path", "temp", "backup"} \ {from, to} : cfg'[n] = cfg[n]
<1>0. cfg \in CfgDir
  BY ZenonT(40) DEF TypeOK, Possible
<1>1. CASE /\ cfg[from] # Absent
           /\ Step(at, [cfg EXCEPT ![to] = cfg[from], ![from] = Absent], env, label)
  <2>1. cfg' = [cfg EXCEPT ![to] = cfg[from], ![from] = Absent]
    BY <1>1, StepEffect
  <2>2. pc = at /\ pc' = label /\ env' = env /\ ok' = ok /\ Frame
    BY <1>1, StepEffect
  <2> QED
    BY <1>0, <1>1, <2>1, <2>2 DEF CfgDir, Contents
<1>2. CASE Fail("rename", at, failed)
  BY <1>0, <1>2, FailEffect
<1> QED
  BY <1>1, <1>2 DEF RenameCfg

\* rename of a directory: also refused where a filled one is in the way.
LEMMA RenameEnvEffect ==
  ASSUME TypeOK, NEW at, NEW label, NEW failed, NEW from \in {"path", "stage", "backup"},
         NEW to \in {"path", "stage", "backup"}, from # to,
         RenameEnv(at, from, to, label, failed)
  PROVE  /\ pc = at /\ cfg' = cfg /\ ok' = ok /\ Frame
         /\ env' \in EnvDir
         /\ \/ pc' = failed /\ env' = env
            \/ /\ pc' = label /\ env[from] # Absent
               /\ env'[to] = env[from] /\ env'[from] = Absent
               /\ \A n \in {"path", "stage", "backup"} \ {from, to} : env'[n] = env[n]
<1>0. env \in EnvDir
  BY ZenonT(40) DEF TypeOK, Possible
<1>1. CASE /\ env[from] # Absent
           /\ Step(at, cfg, [env EXCEPT ![to] = env[from], ![from] = Absent], label)
  <2>1. env' = [env EXCEPT ![to] = env[from], ![from] = Absent]
    BY <1>1, StepEffect
  <2>2. pc = at /\ pc' = label /\ cfg' = cfg /\ ok' = ok /\ Frame
    BY <1>1, StepEffect
  <2> QED
    BY <1>0, <1>1, <2>1, <2>2 DEF EnvDir, Contents
<1>2. CASE Step(at, cfg, env, failed)
  BY <1>0, <1>2, StepEffect
<1>3. CASE Fail("rename", at, failed)
  BY <1>0, <1>3, FailEffect
<1> QED
  BY <1>1, <1>2, <1>3 DEF RenameEnv

\* sync_directory: fewer earlier contents can come back.
LEMMA SyncBothEffect ==
  ASSUME TypeOK, NEW at, NEW label, NEW failed, label # failed,
         sync_transaction_directories(at, label, failed)
  PROVE  /\ pc = at /\ pc' \in {label, failed} /\ cfg' = cfg /\ env' = env /\ ok' = ok /\ Frame
         /\ back' \subseteq back
         /\ pc' = label => \A p \in back' : p = <<cfg, env>>
<1>0. back \subseteq CfgDir \X EnvDir
  BY DEF TypeOK, Possible
<1>1. CASE pc = at /\ sync_directory({"cfg", "env"}) /\ Goto(label)
  <2>1. \A p \in back' : p \in CfgDir \X EnvDir /\ p[1] = cfg /\ p[2] = env
    BY <1>0, <1>1 DEF sync_directory
  <2>2. \A p \in back' : p = <<cfg, env>>
    BY <2>1
  <2>3. back' \subseteq back /\ cfg' = cfg /\ env' = env
    BY <1>1 DEF sync_directory
  <2> QED
    BY <1>1, <2>2, <2>3 DEF Goto, Frame, TypeOK, Possible
<1>2. CASE /\ pc = at /\ "sync" \in Faults /\ Mishap
           /\ \E dirs \in {{}, {"cfg"}, {"env"}} : sync_directory(dirs)
           /\ pc' = failed /\ UNCHANGED <<caller, had, ok, ver, base, result, kept>>
  <2>1. back' \subseteq back /\ cfg' = cfg /\ env' = env
    BY <1>2 DEF sync_directory
  <2> QED
    BY <1>2, <2>1 DEF Frame, TypeOK, Possible, Mishap
<1> QED
  BY <1>1, <1>2 DEF sync_transaction_directories

\* The same for the directory of the journal alone.
LEMMA SyncJournalEffect ==
  ASSUME TypeOK, NEW at, NEW label, NEW failed, SyncJournal(at, label, failed)
  PROVE  /\ pc = at /\ pc' \in {label, failed} /\ cfg' = cfg /\ env' = env /\ ok' = ok /\ Frame
         /\ back' \subseteq back
         /\ pc' # failed => \A p \in back' : p[1] = cfg
<1>1. CASE pc = at /\ sync_directory({"cfg"}) /\ Goto(label)
  <2>1. back' \subseteq back /\ cfg' = cfg /\ env' = env /\ \A p \in back' : p[1] = cfg
    BY <1>1 DEF sync_directory
  <2> QED
    BY <1>1, <2>1 DEF Goto, Frame, TypeOK, Possible
<1>2. CASE Fail("sync", at, failed)
  BY <1>2, FailEffect
<1> QED
  BY <1>1, <1>2 DEF SyncJournal

-----------------------------------------------------------------------------
(* Most calls change nothing of what recovery would make of the files. *)

Quiet ==
  /\ UNCHANGED <<ver, base, result>>
  /\ Possible' \subseteq Possible \cup {<<cfg', env'>>}
  /\ cfg'.journal = cfg.journal /\ cfg'.had = cfg.had
  /\ Recovered(<<cfg', env'>>) = Recovered(<<cfg, env>>)

AtLabel == InRecovery /\ InSave /\ Committed

\* The visible contents are among those a power failure may leave.
LEMMA Visible == Files => Good(<<cfg, env>>)
  BY DEF Files, Possible

\* A roll-back would restore the contents the save started from.
LEMMA RollBack ==
  ASSUME Unfinished(cfg), Good(<<cfg, env>>)
  PROVE  /\ base[1] = Restored(cfg.backup, cfg.path, cfg.had.cfg)
         /\ base[2] = Restored(env.backup, env.path, cfg.had.env)
         /\ cfg.had.cfg = (base[1] # Absent) /\ cfg.had.env = (base[2] # Absent)
<1>1. base = <<Restored(cfg.backup, cfg.path, cfg.had.cfg),
               Restored(env.backup, env.path, cfg.had.env)>>
  BY DEF Good, Recovered, Unfinished
<1>2. cfg.had.cfg = (base[1] # Absent) /\ cfg.had.env = (base[2] # Absent)
  BY DEF Good
<1> QED
  BY <1>1, <1>2

\* A quiet call adds no new outcome of a crash.
LEMMA QuietAddsNothing ==
  ASSUME Quiet
  PROVE  \A p \in Possible' : \E q \in Possible : Recovered(p) = Recovered(q)
  BY DEF Quiet, Possible

\* So what holds of the outcomes goes on to hold.
LEMMA QuietKeeps ==
  ASSUME Files, Quiet, AtLabel'
  PROVE  Files'
<1>1. \A p \in Possible' : Good(p)'
  <2>1. Good(<<cfg', env'>>)
    BY Visible DEF Quiet, Good, Unfinished
  <2>2. \A p \in Possible' : Good(p)
    BY <2>1 DEF Files, Quiet
  <2> QED
    BY <2>2 DEF Good, Quiet, New
<1>2. Decided'
  <2> SUFFICES ASSUME cfg'.journal = "none", NEW p \in Possible'
               PROVE  Recovered(p) = <<cfg'.path, env'.path>>
      BY DEF Decided
  <2>1. Recovered(<<cfg, env>>) = <<cfg.path, env.path>>
    BY ZenonT(40) DEF Quiet, Recovered
  <2>2. Recovered(<<cfg', env'>>) = <<cfg'.path, env'.path>>
    BY DEF Recovered
  <2>3. PICK q \in Possible : Recovered(p) = Recovered(q)
    BY QuietAddsNothing
  <2>4. Recovered(q) = <<cfg.path, env.path>>
    BY DEF Files, Decided, Quiet
  <2> QED
    BY <2>1, <2>2, <2>3, <2>4 DEF Quiet
<1> QED
  BY <1>1, <1>2 DEF Files, AtLabel

-----------------------------------------------------------------------------
(* recover_prog_cfg_save, call by call. *)

\* Restoring the configuration file: what is overwritten is not what recovery
\* restores, and what is left where nothing was is removed again.
LEMMA RestoreCfgFirst ==
  ASSUME TypeOK, Files, ~kept', RestoreFirst, pc = "restore_cfg"
  PROVE  Quiet /\ AtLabel'
<1>0. Unfinished(cfg) /\ had = cfg.had /\ Good(<<cfg, env>>)
  BY Visible DEF Files, InRecovery
<1>1. CASE cfg.backup # Absent /\ Unlink("restore_cfg", "path", "rename_cfg")
  <2>1. /\ pc' = "rename_cfg" /\ env' = env /\ Frame
        /\ cfg'.journal = cfg.journal /\ cfg'.had = cfg.had /\ cfg'.backup = cfg.backup
    BY <1>1, UnlinkEffect
  <2>2. Quiet
    BY <1>0, <1>1, <2>1 DEF Quiet, Frame, Recovered, Restored, Unfinished
  <2>3. AtLabel'
    BY <1>0, <2>1 DEF AtLabel, InRecovery, InSave, Committed, Frame, Unfinished
  <2> QED
    BY <2>2, <2>3
<1>2. CASE cfg.backup = Absent /\ ~had.cfg /\ Unlink("restore_cfg", "path", "check_cfg")
  <2>1. /\ pc' = "check_cfg" /\ env' = env /\ Frame
        /\ cfg'.journal = cfg.journal /\ cfg'.had = cfg.had /\ cfg'.backup = cfg.backup
    BY <1>2, UnlinkEffect
  <2>2. Absent \in {base[1], base[2]}
    BY ZenonT(40), <1>0, <1>2 DEF Good
  <2>3. cfg'.path = Absent
    BY <1>2, <2>2, UnlinkEffect
  <2>4. Quiet
    BY <1>0, <1>2, <2>1 DEF Quiet, Frame, Recovered, Restored, Unfinished
  <2>5. AtLabel'
    BY <1>0, <1>2, <2>1, <2>3
    DEF AtLabel, InRecovery, InSave, Committed, Frame, Unfinished, CfgRestored
  <2> QED
    BY <2>4, <2>5
<1>3. CASE cfg.backup = Absent /\ had.cfg /\ Step("restore_cfg", cfg, env, "check_cfg")
  <2>1. pc' = "check_cfg" /\ env' = env /\ cfg' = cfg /\ Frame
    BY <1>3, StepEffect
  <2>2. AtLabel'
    BY <1>0, <1>3, <2>1
    DEF AtLabel, InRecovery, InSave, Committed, Frame, Unfinished, CfgRestored
  <2> QED
    BY <2>1, <2>2 DEF Quiet, Frame
<1> QED
  BY <1>1, <1>2, <1>3 DEF RestoreFirst, RemoveDir, Step, Fail

\* Restoring the environment directory, in the same way.
LEMMA RestoreEnvFirst ==
  ASSUME TypeOK, Files, ~kept', RestoreFirst, pc = "restore_env"
  PROVE  Quiet /\ AtLabel'
<1>0. /\ Unfinished(cfg) /\ had = cfg.had /\ Good(<<cfg, env>>)
      /\ ok => CfgRestored
  BY Visible DEF Files, InRecovery
<1>1. CASE env.backup # Absent /\ RemoveDir("restore_env", "path", "rename_env")
  <2>1. /\ pc' \in {"restore_env", "rename_env"} /\ cfg' = cfg /\ ok' = ok /\ Frame
        /\ env'.backup = env.backup
    BY <1>1, RemoveDirEffect
  <2>2. Quiet
    BY <1>0, <1>1, <2>1 DEF Quiet, Frame, Recovered, Restored, Unfinished
  <2>3. AtLabel'
    BY <1>0, <2>1
    DEF AtLabel, InRecovery, InSave, Committed, Frame, Unfinished, CfgRestored
  <2> QED
    BY <2>2, <2>3
<1>2. CASE env.backup = Absent /\ ~had.env /\ RemoveDir("restore_env", "path", "check_env")
  <2>1. /\ pc' \in {"restore_env", "check_env"} /\ cfg' = cfg /\ ok' = ok /\ Frame
        /\ env'.backup = env.backup
    BY <1>2, RemoveDirEffect
  <2>2. Absent \in {base[1], base[2]}
    BY ZenonT(40), <1>0, <1>2 DEF Good
  <2>3. pc' = "check_env" => env'.path = Absent
    BY <1>2, <2>2, RemoveDirEffect
  <2>4. Quiet
    BY <1>0, <1>2, <2>1 DEF Quiet, Frame, Recovered, Restored, Unfinished
  <2>5. AtLabel'
    BY <1>0, <1>2, <2>1, <2>3
    DEF AtLabel, InRecovery, InSave, Committed, Frame, Unfinished, CfgRestored, EnvRestored
  <2> QED
    BY <2>4, <2>5
<1>3. CASE env.backup = Absent /\ had.env /\ Step("restore_env", cfg, env, "check_env")
  <2>1. pc' = "check_env" /\ env' = env /\ cfg' = cfg /\ ok' = ok /\ Frame
    BY <1>3, StepEffect
  <2>2. AtLabel'
    BY <1>0, <1>3, <2>1
    DEF AtLabel, InRecovery, InSave, Committed, Frame, Unfinished, CfgRestored, EnvRestored
  <2> QED
    BY <2>1, <2>2 DEF Quiet, Frame
<1> QED
  BY <1>1, <1>2, <1>3 DEF RestoreFirst, Unlink, Step, Fail

\* A backup comes back under its name.
LEMMA RestoreSecondStep ==
  ASSUME TypeOK, Files, ~kept', RestoreSecond
  PROVE  Quiet /\ AtLabel'
<1>1. CASE RenameCfg("rename_cfg", "backup", "path", "restore_env", "not_restored_cfg")
  <2>0. pc = "rename_cfg" /\ Unfinished(cfg) /\ had = cfg.had /\ Good(<<cfg, env>>)
    BY <1>1, RenameCfgEffect, Visible DEF Files, InRecovery
  <2>1. /\ env' = env /\ Frame /\ cfg'.journal = cfg.journal /\ cfg'.had = cfg.had
        /\ \/ pc' = "not_restored_cfg" /\ cfg' = cfg
           \/ /\ pc' = "restore_env" /\ cfg.backup # Absent
              /\ cfg'.path = cfg.backup /\ cfg'.backup = Absent
    BY <1>1, RenameCfgEffect
  <2>2. cfg.backup # Absent => had.cfg
    BY ZenonT(40), <2>0, RollBack DEF Restored
  <2>3. Quiet
    BY ZenonT(40), <2>0, <2>1, <2>2 DEF Quiet, Frame, Recovered, Restored, Unfinished
  <2>4. AtLabel'
    BY <2>0, <2>1, <2>2
    DEF AtLabel, InRecovery, InSave, Committed, Frame, Unfinished, CfgRestored
  <2> QED
    BY <2>3, <2>4
<1>2. CASE RenameEnv("rename_env", "backup", "path", "recover_temp", "not_restored_env")
  <2>0. /\ pc = "rename_env" /\ Unfinished(cfg) /\ had = cfg.had /\ Good(<<cfg, env>>)
        /\ ok => CfgRestored
    BY <1>2, RenameEnvEffect, Visible DEF Files, InRecovery
  <2>1. /\ cfg' = cfg /\ ok' = ok /\ Frame
        /\ \/ pc' = "not_restored_env" /\ env' = env
           \/ /\ pc' = "recover_temp" /\ env.backup # Absent
              /\ env'.path = env.backup /\ env'.backup = Absent
    BY <1>2, RenameEnvEffect
  <2>2. env.backup # Absent => had.env
    BY ZenonT(40), <2>0, RollBack DEF Restored
  <2>3. Quiet
    BY <2>0, <2>1, <2>2 DEF Quiet, Frame, Recovered, Restored, Unfinished
  <2>4. AtLabel'
    BY <2>0, <2>1, <2>2
    DEF AtLabel, InRecovery, InSave, Committed, Frame, Unfinished, CfgRestored, EnvRestored
  <2> QED
    BY <2>3, <2>4
<1> QED
  BY <1>1, <1>2 DEF RestoreSecond

\* The journal decides between completing and rolling back.
LEMMA RecoverStep ==
  ASSUME TypeOK, Files, ~kept', Recover
  PROVE  Quiet /\ AtLabel'
<1>1. /\ pc = "recover" /\ cfg' = cfg /\ env' = env /\ back' = back /\ had' = cfg.had
      /\ UNCHANGED <<ver, base, result>>
  BY DEF Recover, disk
<1>2. cfg.journal \in JournalStates
  BY ZenonT(40) DEF TypeOK, Possible, CfgDir
<1>3. \/ pc' = "recovered" /\ cfg.journal = "none"
      \/ pc' \in {"unrecovered", "drop_cfg_backup"} /\ cfg.journal = "new_installed"
      \/ pc' = "restore_cfg" /\ Unfinished(cfg)
  BY <1>2 DEF Recover, Unfinished, JournalStates
<1>4. Quiet
  BY ZenonT(40), <1>1 DEF Quiet, Possible
<1>5. AtLabel'
  BY <1>1, <1>3 DEF AtLabel, InRecovery, InSave, Committed, Unfinished
<1> QED
  BY <1>4, <1>5

\* restore_backup's result.
LEMMA RestoreResultStep ==
  ASSUME TypeOK, Files, ~kept', RestoreResult
  PROVE  Quiet /\ AtLabel'
<1>1. /\ cfg' = cfg /\ env' = env /\ back' = back /\ had' = had
      /\ UNCHANGED <<ver, base, result>>
  BY DEF RestoreResult, disk
<1>2. /\ Unfinished(cfg) /\ had = cfg.had
      /\ pc = "check_cfg" => CfgRestored
      /\ pc = "check_env" => EnvRestored
      /\ pc \in {"check_env", "not_restored_env"} /\ ok => CfgRestored
  BY DEF RestoreResult, Files, InRecovery
<1>3. \/ pc' = "restore_env" /\ (ok' => CfgRestored)
      \/ pc' = "recover_temp" /\ (ok' => CfgRestored /\ EnvRestored)
  BY <1>2 DEF RestoreResult
<1>4. cfg.journal # "none" /\ cfg.journal # "new_installed"
  BY <1>2 DEF Unfinished
<1>5. Quiet
  BY <1>1 DEF Quiet, Possible
<1>6. AtLabel'
  BY <1>1, <1>2, <1>3, <1>4
  DEF AtLabel, InRecovery, InSave, Committed, Unfinished, CfgRestored, EnvRestored
<1> QED
  BY <1>5, <1>6

\* The backups of a committed transaction are not needed any more.
LEMMA DropBackupsStep ==
  ASSUME TypeOK, Files, ~kept', DropBackups
  PROVE  Quiet /\ AtLabel'
<1>1. CASE Unlink("drop_cfg_backup", "backup", "drop_env_backup")
  <2>1. /\ pc = "drop_cfg_backup" /\ pc' = "drop_env_backup" /\ env' = env /\ Frame
        /\ cfg'.journal = cfg.journal /\ cfg'.had = cfg.had /\ cfg'.path = cfg.path
    BY <1>1, UnlinkEffect
  <2>2. cfg.journal = "new_installed"
    BY <2>1 DEF Files, InRecovery
  <2>3. Quiet
    BY <2>1, <2>2 DEF Quiet, Frame, Recovered
  <2>4. AtLabel'
    BY <2>1, <2>2 DEF AtLabel, InRecovery, InSave, Committed, Frame
  <2> QED
    BY <2>3, <2>4
<1>2. CASE RemoveDir("drop_env_backup", "backup", "recover_temp")
  <2>1. /\ pc = "drop_env_backup" /\ pc' \in {"drop_env_backup", "recover_temp"}
        /\ cfg' = cfg /\ Frame /\ env'.path = env.path
    BY <1>2, RemoveDirEffect
  <2>2. cfg.journal = "new_installed"
    BY <2>1 DEF Files, InRecovery
  <2>3. Quiet
    BY <2>1, <2>2 DEF Quiet, Frame, Recovered
  <2>4. AtLabel'
    BY <2>1, <2>2 DEF AtLabel, InRecovery, InSave, Committed, Frame, Unfinished
  <2> QED
    BY <2>3, <2>4
<1> QED
  BY <1>1, <1>2 DEF DropBackups

\* The temporary names are removed and both directories synced.
LEMMA RecoverTailSteps ==
  ASSUME TypeOK, Files, ~kept', RecoverTail,
         ~Step("recover_journal", [cfg EXCEPT !.journal = "none"], env, "recover_journal_sync")
  PROVE  Quiet /\ AtLabel'
<1>1. CASE Unlink("recover_temp", "temp", "recover_stage")
  <2>1. /\ pc = "recover_temp" /\ pc' = "recover_stage" /\ env' = env /\ ok' = ok /\ Frame
        /\ cfg'.journal = cfg.journal /\ cfg'.had = cfg.had
        /\ cfg'.path = cfg.path /\ cfg'.backup = cfg.backup
    BY <1>1, UnlinkEffect
  <2>2. Quiet
    BY <2>1 DEF Quiet, Frame, Recovered
  <2>3. AtLabel'
    BY <2>1
    DEF Files, AtLabel, InRecovery, InSave, Committed, Frame, Unfinished, CfgRestored, EnvRestored
  <2> QED
    BY <2>2, <2>3
<1>2. CASE RemoveDir("recover_stage", "stage", IF ok THEN "recover_sync" ELSE "unrecovered")
  <2>1. /\ pc = "recover_stage" /\ cfg' = cfg /\ ok' = ok /\ Frame
        /\ pc' = "recover_stage" \/ (pc' = "recover_sync" /\ ok) \/ pc' = "unrecovered"
        /\ env'.path = env.path /\ env'.backup = env.backup
    BY <1>2, RemoveDirEffect
  <2>2. Quiet
    BY <2>1 DEF Quiet, Frame, Recovered
  <2>3. AtLabel'
    BY <2>1
    DEF Files, AtLabel, InRecovery, InSave, Committed, Frame, Unfinished, CfgRestored, EnvRestored
  <2> QED
    BY <2>2, <2>3
<1>3. CASE sync_transaction_directories("recover_sync", "recover_journal", "unrecovered")
  <2>1. /\ pc = "recover_sync" /\ pc' \in {"recover_journal", "unrecovered"}
        /\ cfg' = cfg /\ env' = env /\ ok' = ok /\ Frame
        /\ pc' = "recover_journal" => \A p \in back' : p = <<cfg, env>>
    BY <1>3, SyncBothEffect
  <2>2. Quiet
    BY <2>1 DEF Quiet, Frame
  <2>3. AtLabel'
    BY <2>1
    DEF Files, AtLabel, InRecovery, InSave, Committed, Frame, Unfinished, CfgRestored, EnvRestored
  <2> QED
    BY <2>2, <2>3
<1>4. CASE Fail("remove", "recover_journal", "unrecovered")
  <2>1. pc' = "unrecovered" /\ cfg' = cfg /\ env' = env /\ Frame
    BY <1>4, FailEffect
  <2> QED
    BY <2>1 DEF Quiet, Frame, AtLabel, InRecovery, InSave, Committed
<1>5. CASE SyncJournal("recover_journal_sync", "recovered", "unrecovered")
  <2>1. /\ pc = "recover_journal_sync" /\ pc' \in {"recovered", "unrecovered"}
        /\ cfg' = cfg /\ env' = env /\ Frame
    BY <1>5, SyncJournalEffect
  <2>2. cfg.journal = "none"
    BY <2>1 DEF Files, InRecovery
  <2> QED
    BY <2>1, <2>2 DEF Quiet, Frame, AtLabel, InRecovery, InSave, Committed
<1> QED
  BY <1>1, <1>2, <1>3, <1>4, <1>5 DEF RecoverTail

\* The outcomes of a crash before the step include those after it.
Narrows == \A p \in Possible' : \E q \in Possible : Recovered(p) = Recovered(q)

\* The journal is removed once what it decides is on the disk.
LEMMA RecoveredJournal ==
  ASSUME TypeOK, Files, ~kept',
         Step("recover_journal", [cfg EXCEPT !.journal = "none"], env, "recover_journal_sync")
  PROVE  Files' /\ Narrows /\ UNCHANGED <<ver, base, result>>
<1>0. cfg \in CfgDir
  BY ZenonT(40) DEF TypeOK, Possible
<1>1. /\ pc = "recover_journal" /\ pc' = "recover_journal_sync" /\ env' = env /\ Frame
      /\ cfg' = [cfg EXCEPT !.journal = "none"]
  BY StepEffect
<1>2. cfg'.journal = "none" /\ cfg'.path = cfg.path
  BY <1>0, <1>1 DEF CfgDir
<1>3. /\ \A p \in back : p = <<cfg, env>>
      /\ cfg.journal # "none" /\ (Unfinished(cfg) => had = cfg.had /\ CfgRestored /\ EnvRestored)
  BY <1>1 DEF Files, InRecovery
<1>4. Recovered(<<cfg, env>>) = <<cfg.path, env.path>>
  <2>1. CASE Unfinished(cfg)
    <3>1. /\ Restored(cfg.backup, cfg.path, cfg.had.cfg) = cfg.path
          /\ Restored(env.backup, env.path, cfg.had.env) = env.path
      BY <1>3, <2>1 DEF Restored, CfgRestored, EnvRestored
    <3> QED
      BY <2>1, <3>1 DEF Recovered, Unfinished
  <2>2. CASE ~Unfinished(cfg)
    BY <1>0, <2>2 DEF Recovered, Unfinished, CfgDir, JournalStates
  <2> QED
    BY <2>1, <2>2
<1>5. Recovered(<<cfg', env'>>) = <<cfg.path, env.path>>
  BY ZenonT(40), <1>1, <1>2 DEF Recovered
<1>6. \A p \in Possible' : p = <<cfg, env>> \/ p = <<cfg', env'>>
  BY <1>1, <1>3 DEF Frame, Possible
<1>7. \A p \in Possible' : Recovered(p) = <<cfg.path, env.path>>
  BY <1>4, <1>5, <1>6
<1>8. Narrows
  BY <1>4, <1>7 DEF Narrows, Possible
<1>9. \A p \in Possible' : Good(p)'
  <2>1. Good(<<cfg', env'>>)
    BY <1>2, <1>4, <1>5, Visible DEF Good, Unfinished
  <2>2. \A p \in Possible' : Good(p)
    BY <1>6, <2>1, Visible
  <2> QED
    BY <1>1, <2>2 DEF Good, New, Frame
<1>10. Decided'
  BY <1>1, <1>2, <1>7 DEF Decided
<1>11. AtLabel'
  BY <1>1, <1>2 DEF AtLabel, InRecovery, InSave, Committed, Frame
<1> QED
  BY <1>1, <1>8, <1>9, <1>10, <1>11 DEF Files, AtLabel, Frame

\* Recovery, whatever interrupts it, goes on from files that hold the same.
LEMMA RecoveryKeepsFiles ==
  ASSUME TypeOK, Files, ~kept', recover_prog_cfg_save
  PROVE  Files' /\ Narrows /\ UNCHANGED <<ver, base, result>>
<1>1. CASE Step("recover_journal", [cfg EXCEPT !.journal = "none"], env, "recover_journal_sync")
  BY <1>1, RecoveredJournal
<1>2. CASE ~Step("recover_journal", [cfg EXCEPT !.journal = "none"], env, "recover_journal_sync")
  <2>1. RestoreFirst => pc \in {"restore_cfg", "restore_env"}
    BY DEF RestoreFirst, Unlink, RemoveDir, Step, Fail
  <2>2. Quiet /\ AtLabel'
    BY SMTT(40), <1>2, <2>1, RestoreCfgFirst, RestoreEnvFirst, RestoreSecondStep, RecoverStep,
       RestoreResultStep, DropBackupsStep, RecoverTailSteps DEF recover_prog_cfg_save
  <2> QED
    BY SMTT(40), <2>2, QuietKeeps, QuietAddsNothing DEF Quiet, Narrows
<1> QED
  BY <1>1, <1>2

-----------------------------------------------------------------------------
(* save_prog_cfg, call by call. *)

\* Writing under temporary names, and removing them after an error.
LEMMA StageSteps ==
  ASSUME TypeOK, Files, ~kept', Stage
  PROVE  Quiet /\ AtLabel'
<1>0. cfg \in CfgDir /\ env \in EnvDir
  BY ZenonT(40) DEF TypeOK, Possible
<1>1. CASE Step("stage", cfg, [env EXCEPT !.stage = Torn], "fill")
  <2>0. env' = [env EXCEPT !.stage = Torn]
    BY <1>1, StepEffect
  <2>1. pc = "stage" /\ pc' = "fill" /\ cfg' = cfg /\ Frame
    BY <1>1, StepEffect
  <2>2. env'.path = env.path /\ env'.backup = env.backup
    BY <1>0, <2>0 DEF EnvDir
  <2>3. Quiet
    BY ZenonT(40), <2>1, <2>2 DEF Quiet, Frame, Recovered
  <2>4. AtLabel'
    BY <2>1, <2>2 DEF Files, AtLabel, InRecovery, InSave, Committed, Frame
  <2> QED
    BY <2>3, <2>4
<1>2. CASE Step("fill", cfg, [env EXCEPT !.stage = ver], "write")
  <2>0. env' = [env EXCEPT !.stage = ver]
    BY <1>2, StepEffect
  <2>1. pc = "fill" /\ pc' = "write" /\ cfg' = cfg /\ Frame
    BY <1>2, StepEffect
  <2>2. env'.path = env.path /\ env'.backup = env.backup /\ env'.stage = ver
    BY SMTT(40), <1>0, <2>0 DEF EnvDir
  <2>3. Quiet
    BY ZenonT(40), <2>1, <2>2 DEF Quiet, Frame, Recovered
  <2>4. AtLabel'
    BY <2>1, <2>2 DEF Files, AtLabel, InRecovery, InSave, Committed, Frame
  <2> QED
    BY <2>3, <2>4
<1>3. CASE Step("write", [cfg EXCEPT !.temp = Torn], env, "flush")
  <2>0. cfg' = [cfg EXCEPT !.temp = Torn]
    BY <1>3, StepEffect
  <2>1. pc = "write" /\ pc' = "flush" /\ env' = env /\ Frame
    BY <1>3, StepEffect
  <2>2. /\ cfg'.path = cfg.path /\ cfg'.backup = cfg.backup /\ cfg'.journal = cfg.journal
        /\ cfg'.had = cfg.had
    BY ZenonT(40), <1>0, <2>0 DEF CfgDir
  <2>3. Quiet
    BY ZenonT(40), <2>1, <2>2 DEF Quiet, Frame, Recovered
  <2>4. AtLabel'
    BY <2>1, <2>2 DEF Files, AtLabel, InRecovery, InSave, Committed, Frame
  <2> QED
    BY <2>3, <2>4
<1>4. CASE Step("flush", [cfg EXCEPT !.temp = ver], env, "look")
  <2>0. cfg' = [cfg EXCEPT !.temp = ver]
    BY <1>4, StepEffect
  <2>1. pc = "flush" /\ pc' = "look" /\ env' = env /\ Frame
    BY <1>4, StepEffect
  <2>2. /\ cfg'.path = cfg.path /\ cfg'.backup = cfg.backup /\ cfg'.journal = cfg.journal
        /\ cfg'.had = cfg.had /\ cfg'.temp = ver
    BY ZenonT(40), <1>0, <2>0 DEF CfgDir
  <2>3. Quiet
    BY ZenonT(40), <2>1, <2>2 DEF Quiet, Frame, Recovered
  <2>4. AtLabel'
    BY ZenonT(40), <2>1, <2>2 DEF Files, AtLabel, InRecovery, InSave, Committed, Frame
  <2> QED
    BY <2>3, <2>4
<1>5. CASE \/ Fail("write", "stage", "failed") \/ Fail("write", "fill", "unstage")
           \/ Fail("write", "write", "unstage") \/ Fail("write", "flush", "untemp")
  <2>1. pc' \in {"failed", "unstage", "untemp"} /\ cfg' = cfg /\ env' = env /\ Frame
    BY ZenonT(40), <1>5, FailEffect
  <2> QED
    BY <2>1 DEF Quiet, Frame, AtLabel, InRecovery, InSave, Committed
<1>6. CASE Unlink("untemp", "temp", "unstage")
  <2>1. /\ pc' = "unstage" /\ env' = env /\ Frame
        /\ cfg'.journal = cfg.journal /\ cfg'.had = cfg.had
        /\ cfg'.path = cfg.path /\ cfg'.backup = cfg.backup
    BY ZenonT(40), <1>6, UnlinkEffect
  <2> QED
    BY <2>1 DEF Quiet, Frame, Recovered, AtLabel, InRecovery, InSave, Committed
<1>7. CASE RemoveDir("unstage", "stage", "failed")
  <2>1. /\ pc' \in {"unstage", "failed"} /\ cfg' = cfg /\ Frame
        /\ env'.path = env.path /\ env'.backup = env.backup
    BY <1>7, RemoveDirEffect
  <2> QED
    BY <2>1 DEF Quiet, Frame, Recovered, AtLabel, InRecovery, InSave, Committed
<1> QED
  BY SMTT(40), <1>1, <1>2, <1>3, <1>4, <1>5, <1>6, <1>7 DEF Stage

\* had_cfg and had_env say which of the two there was before.
LEMMA LookStep ==
  ASSUME TypeOK, Files, ~kept', Look
  PROVE  Quiet /\ AtLabel'
<1>1. /\ pc = "look" /\ pc' = "prepare" /\ cfg' = cfg /\ env' = env /\ back' = back
      /\ UNCHANGED <<ver, base, result>>
      /\ had'.cfg = (cfg.path # Absent) /\ had'.env = (env.path # Absent)
  BY ZenonT(40) DEF Look, disk
<1>2. AtLabel'
  BY <1>1 DEF Files, AtLabel, InRecovery, InSave, Committed
<1> QED
  BY <1>1, <1>2 DEF Quiet, Possible

\* A journal state becomes visible: the facts it rests on are on the disk.
LEMMA JournalEffect ==
  ASSUME TypeOK, NEW at, NEW state \in JournalStates,
         Step(at, [cfg EXCEPT !.journal = state, !.had = had], env, state)
  PROVE  /\ pc = at /\ pc' = state /\ env' = env /\ Frame
         /\ cfg' \in CfgDir /\ cfg'.journal = state /\ cfg'.had = had
         /\ cfg'.path = cfg.path /\ cfg'.temp = cfg.temp /\ cfg'.backup = cfg.backup
         /\ back' = IF cfg' = cfg THEN back ELSE Possible
<1>0. cfg \in CfgDir /\ had \in Old
  BY ZenonT(40) DEF TypeOK, Possible
<1>1. cfg' = [cfg EXCEPT !.journal = state, !.had = had]
  BY StepEffect
<1>2. pc = at /\ pc' = state /\ env' = env /\ Frame
  BY StepEffect
<1>3. back' = IF cfg' = cfg THEN back ELSE Possible
  BY <1>1, <1>2 DEF Step
<1> QED
  BY ZenonT(40), <1>0, <1>1, <1>2, <1>3 DEF CfgDir

\* What a step must show when the journal changes.
LEMMA GoodKeeps ==
  ASSUME Files, UNCHANGED <<ver, base, result>>, Good(<<cfg', env'>>), Decided', AtLabel',
         Possible' \subseteq Possible \cup {<<cfg', env'>>}
  PROVE  Files'
<1>1. \A p \in Possible' : Good(p)
  BY DEF Files
<1>2. \A p \in Possible' : Good(p)'
  BY <1>1 DEF Good, New
<1> QED
  BY <1>2 DEF Files, AtLabel

\* "prepared" is noted before anything is moved: a roll-back finds the two
\* where they were.
LEMMA PrepareStep ==
  ASSUME TypeOK, Files, ~kept',
         Step("prepare", [cfg EXCEPT !.journal = "prepared", !.had = had], env, "prepared")
  PROVE  Files' /\ Narrows /\ UNCHANGED <<ver, base, result>>
<1>1. /\ pc = "prepare" /\ pc' = "prepared" /\ env' = env /\ Frame
      /\ cfg'.journal = "prepared" /\ cfg'.had = had
      /\ cfg'.path = cfg.path /\ cfg'.temp = cfg.temp /\ cfg'.backup = cfg.backup
  BY JournalEffect DEF JournalStates
<1>2. /\ cfg.journal = "none" /\ cfg.backup = Absent /\ env.backup = Absent
      /\ cfg.path = base[1] /\ env.path = base[2]
      /\ had.cfg = (base[1] # Absent) /\ had.env = (base[2] # Absent)
  BY <1>1 DEF Files, InSave
<1>3. Recovered(<<cfg, env>>) = <<cfg.path, env.path>>
  BY <1>2 DEF Recovered
<1>4. Recovered(<<cfg', env'>>) = <<cfg.path, env.path>>
  <2>1. /\ Restored(cfg'.backup, cfg'.path, cfg'.had.cfg) = cfg.path
        /\ Restored(env'.backup, env'.path, cfg'.had.env) = env.path
    BY ZenonT(40), <1>1, <1>2 DEF Restored
  <2> QED
    BY <1>1, <2>1 DEF Recovered
<1>5. <<cfg.path, env.path>> = base
  BY <1>2 DEF TypeOK
<1>6. Good(<<cfg', env'>>)
  BY <1>1, <1>2, <1>3, <1>4, <1>5, Visible DEF Good
<1>7. Decided'
  BY <1>1 DEF Decided
<1>8. AtLabel'
  BY <1>1, <1>2 DEF Files, AtLabel, InRecovery, InSave, Committed, Frame
<1>9. Narrows
  BY <1>1, <1>3, <1>4 DEF Narrows, Frame, Possible
<1> QED
  BY <1>1, <1>6, <1>7, <1>8, <1>9, GoodKeeps DEF Frame

\* The old files are moved away, or back again after an error.
LEMMA MoveOldSteps ==
  ASSUME TypeOK, Files, ~kept', MoveOld,
         ~Step("prepare", [cfg EXCEPT !.journal = "prepared", !.had = had], env, "prepared"),
         ~Step("note_moved", [cfg EXCEPT !.journal = "old_moved", !.had = had], env, "old_moved")
  PROVE  Quiet /\ AtLabel'
<1>0. Good(<<cfg, env>>)
  BY Visible
<1>1. CASE Fail("write", "prepare", "failed") \/ Fail("write", "note_moved", "failed")
  <2>1. pc' = "failed" /\ cfg' = cfg /\ env' = env /\ Frame
    BY <1>1, FailEffect
  <2> QED
    BY <2>1 DEF Quiet, Frame, AtLabel, InRecovery, InSave, Committed
<1>2. CASE SyncJournal("prepared", "move_cfg", "failed")
  <2>1. /\ pc = "prepared" /\ pc' \in {"move_cfg", "failed"} /\ cfg' = cfg /\ env' = env /\ Frame
    BY <1>2, SyncJournalEffect
  <2>2. AtLabel'
    BY <2>1 DEF Files, AtLabel, InRecovery, InSave, Committed, Frame
  <2> QED
    BY <2>1, <2>2 DEF Quiet, Frame
<1>3. CASE had.cfg /\ RenameCfg("move_cfg", "path", "backup", "move_env", "untemp")
  <2>1. /\ pc = "move_cfg" /\ env' = env /\ Frame
        /\ cfg'.journal = cfg.journal /\ cfg'.had = cfg.had
        /\ \/ pc' = "untemp" /\ cfg' = cfg
           \/ /\ pc' = "move_env" /\ cfg.path # Absent /\ cfg'.temp = cfg.temp
              /\ cfg'.backup = cfg.path /\ cfg'.path = Absent
    BY <1>3, RenameCfgEffect
  <2>2. /\ cfg.journal = "prepared" /\ cfg.had = had /\ cfg.backup = Absent
        /\ env.backup = Absent /\ env.path = base[2]
    BY <2>1 DEF Files, InSave
  <2>3. Quiet
    BY SMTT(40), <1>3, <2>1, <2>2 DEF Quiet, Frame, Recovered, Restored
  <2>4. AtLabel'
    BY <2>1, <2>2 DEF Files, AtLabel, InRecovery, InSave, Committed, Frame
  <2> QED
    BY <2>3, <2>4
<1>4. CASE ~had.cfg /\ Step("move_cfg", cfg, env, "move_env")
  <2>1. pc = "move_cfg" /\ pc' = "move_env" /\ cfg' = cfg /\ env' = env /\ Frame
    BY <1>4, StepEffect
  <2>2. Unfinished(cfg) /\ cfg.had = had /\ cfg.path = base[1]
    BY <2>1 DEF Files, InSave, Unfinished
  <2>3. cfg.path = Absent
    BY ZenonT(40), <1>0, <1>4, <2>2, RollBack
  <2>4. AtLabel'
    BY <2>1, <2>3 DEF Files, AtLabel, InRecovery, InSave, Committed, Frame
  <2> QED
    BY <2>1, <2>4 DEF Quiet, Frame
<1>5. CASE had.env /\ RenameEnv("move_env", "path", "backup", "moved", "move_cfg_back")
  <2>1. /\ pc = "move_env" /\ cfg' = cfg /\ Frame
        /\ \/ pc' = "move_cfg_back" /\ env' = env
           \/ /\ pc' = "moved" /\ env.path # Absent /\ env'.stage = env.stage
              /\ env'.backup = env.path /\ env'.path = Absent
    BY <1>5, RenameEnvEffect
  <2>2. cfg.journal = "prepared" /\ cfg.had = had /\ env.backup = Absent
    BY <2>1 DEF Files, InSave
  <2>3. Quiet
    BY <1>5, <2>1, <2>2 DEF Quiet, Frame, Recovered, Restored
  <2>4. AtLabel'
    BY <2>1, <2>2 DEF Files, AtLabel, InRecovery, InSave, Committed, Frame
  <2> QED
    BY <2>3, <2>4
<1>6. CASE ~had.env /\ Step("move_env", cfg, env, "moved")
  <2>1. pc = "move_env" /\ pc' = "moved" /\ cfg' = cfg /\ env' = env /\ Frame
    BY <1>6, StepEffect
  <2>2. Unfinished(cfg) /\ cfg.had = had /\ env.path = base[2]
    BY <2>1 DEF Files, InSave, Unfinished
  <2>3. env.path = Absent
    BY ZenonT(40), <1>0, <1>6, <2>2, RollBack
  <2>4. AtLabel'
    BY <2>1, <2>3 DEF Files, AtLabel, InRecovery, InSave, Committed, Frame
  <2> QED
    BY <2>1, <2>4 DEF Quiet, Frame
<1>7. CASE had.cfg /\ RenameCfg("move_cfg_back", "backup", "path", "untemp", "untemp")
  <2>1. /\ pc = "move_cfg_back" /\ pc' = "untemp" /\ env' = env /\ Frame
        /\ cfg'.journal = cfg.journal /\ cfg'.had = cfg.had
        /\ \/ cfg' = cfg
           \/ cfg.backup # Absent /\ cfg'.path = cfg.backup /\ cfg'.backup = Absent
    BY <1>7, RenameCfgEffect
  <2>2. cfg.journal = "prepared" /\ cfg.had = had
    BY <2>1 DEF Files, InSave
  <2>3. Quiet
    BY <1>7, <2>1, <2>2 DEF Quiet, Frame, Recovered, Restored
  <2> QED
    BY <2>1, <2>3 DEF AtLabel, InRecovery, InSave, Committed
<1>8. CASE ~had.cfg /\ Step("move_cfg_back", cfg, env, "untemp")
  <2>1. pc' = "untemp" /\ cfg' = cfg /\ env' = env /\ Frame
    BY <1>8, StepEffect
  <2> QED
    BY <2>1 DEF Quiet, Frame, AtLabel, InRecovery, InSave, Committed
<1>9. CASE sync_transaction_directories("moved", "note_moved", "failed")
  <2>1. pc = "moved" /\ pc' \in {"note_moved", "failed"} /\ cfg' = cfg /\ env' = env /\ Frame
    BY <1>9, SyncBothEffect
  <2>2. AtLabel'
    BY <2>1 DEF Files, AtLabel, InRecovery, InSave, Committed, Frame
  <2> QED
    BY <2>1, <2>2 DEF Quiet, Frame
<1>10. CASE SyncJournal("old_moved", "install_cfg", "failed")
  <2>1. pc = "old_moved" /\ pc' \in {"install_cfg", "failed"} /\ cfg' = cfg /\ env' = env /\ Frame
    BY SMTT(40), <1>10, SyncJournalEffect
  <2>2. AtLabel'
    BY <2>1 DEF Files, AtLabel, InRecovery, InSave, Committed, Frame
  <2> QED
    BY <2>1, <2>2 DEF Quiet, Frame
<1> QED
  BY SMTT(40), <1>1, <1>2, <1>3, <1>4, <1>5, <1>6, <1>7, <1>8, <1>9, <1>10 DEF MoveOld, write_save_journal

\* "old_moved" is noted when both are away and their backups on the disk.
LEMMA NoteMovedStep ==
  ASSUME TypeOK, Files, ~kept',
         Step("note_moved", [cfg EXCEPT !.journal = "old_moved", !.had = had], env, "old_moved")
  PROVE  Files' /\ Narrows /\ UNCHANGED <<ver, base, result>>
<1>1. /\ pc = "note_moved" /\ pc' = "old_moved" /\ env' = env /\ Frame
      /\ cfg'.journal = "old_moved" /\ cfg'.had = had
      /\ cfg'.path = cfg.path /\ cfg'.temp = cfg.temp /\ cfg'.backup = cfg.backup
  BY JournalEffect DEF JournalStates
<1>2. cfg.journal = "prepared" /\ cfg.had = had
  BY <1>1 DEF Files, InSave
<1>3. Recovered(<<cfg', env'>>) = Recovered(<<cfg, env>>)
  BY <1>1, <1>2 DEF Recovered
<1>4. Good(<<cfg', env'>>)
  BY <1>1, <1>2, <1>3, Visible DEF Good, Unfinished
<1>5. Decided'
  BY <1>1 DEF Decided
<1>6. AtLabel'
  BY <1>1, <1>2 DEF Files, AtLabel, InRecovery, InSave, Committed, Frame
<1>7. Narrows
  BY <1>1, <1>3 DEF Narrows, Frame, Possible
<1> QED
  BY SMTT(40), <1>1, <1>4, <1>5, <1>6, <1>7, GoodKeeps DEF Frame

\* The new files are moved in.
LEMMA InstallNewSteps ==
  ASSUME TypeOK, Files, ~kept', InstallNew,
         ~Step("note_installed", [cfg EXCEPT !.journal = "new_installed", !.had = had], env,
               "new_installed"),
         ~SyncJournal("new_installed", "forget_cfg", "failed")
  PROVE  Quiet /\ AtLabel'
<1>0. Good(<<cfg, env>>)
  BY Visible
<1>1. CASE RenameCfg("install_cfg", "temp", "path", "install_env", "undo_cfg")
  <2>1. /\ pc = "install_cfg" /\ env' = env /\ Frame
        /\ cfg'.journal = cfg.journal /\ cfg'.had = cfg.had
        /\ \/ pc' = "undo_cfg" /\ cfg' = cfg
           \/ pc' = "install_env" /\ cfg'.path = cfg.temp /\ cfg'.backup = cfg.backup
    BY <1>1, RenameCfgEffect
  <2>2. /\ Unfinished(cfg) /\ cfg.journal = "old_moved" /\ cfg.had = had
        /\ cfg.path = Absent /\ env.path = Absent /\ cfg.temp = ver /\ env.stage = ver
    BY <2>1 DEF Files, InSave, Unfinished
  <2>3. (~had.cfg \/ cfg.backup # Absent) /\ (~had.env \/ env.backup # Absent)
    BY ZenonT(40), <1>0, <2>2, RollBack DEF Restored
  <2>4. Quiet
    BY <2>1, <2>2, <2>3 DEF Quiet, Frame, Recovered, Restored
  <2>5. AtLabel'
    BY <2>1, <2>2, <2>3 DEF AtLabel, InRecovery, InSave, Committed, Frame
  <2> QED
    BY <2>4, <2>5
<1>2. CASE RenameEnv("install_env", "stage", "path", "installed", "undo_cfg")
  <2>1. /\ pc = "install_env" /\ cfg' = cfg /\ Frame
        /\ \/ pc' = "undo_cfg" /\ env' = env
           \/ pc' = "installed" /\ env'.path = env.stage /\ env'.backup = env.backup
    BY <1>2, RenameEnvEffect
  <2>2. /\ cfg.journal = "old_moved" /\ cfg.had = had /\ cfg.path = ver /\ env.stage = ver
        /\ ~had.cfg \/ cfg.backup # Absent
        /\ ~had.env \/ env.backup # Absent
    BY <2>1 DEF Files, InSave
  <2>3. Quiet
    BY <2>1, <2>2 DEF Quiet, Frame, Recovered, Restored
  <2>4. AtLabel'
    BY <2>1, <2>2 DEF AtLabel, InRecovery, InSave, Committed, Frame
  <2> QED
    BY <2>3, <2>4
<1>3. CASE sync_transaction_directories("installed", "note_installed", "failed")
  <2>1. /\ pc = "installed" /\ pc' \in {"note_installed", "failed"}
        /\ cfg' = cfg /\ env' = env /\ Frame
        /\ pc' = "note_installed" => \A p \in back' : p = <<cfg, env>>
    BY SMTT(40), <1>3, SyncBothEffect
  <2>2. AtLabel'
    BY <2>1 DEF Files, AtLabel, InRecovery, InSave, Committed, Frame
  <2> QED
    BY <2>1, <2>2 DEF Quiet, Frame
<1>4. CASE Fail("write", "note_installed", "failed")
  <2>1. pc' = "failed" /\ cfg' = cfg /\ env' = env /\ Frame
    BY <1>4, FailEffect
  <2> QED
    BY <2>1 DEF Quiet, Frame, AtLabel, InRecovery, InSave, Committed
<1> QED
  BY <1>1, <1>2, <1>3, <1>4 DEF InstallNew, write_save_journal

\* "new_installed" takes the decision: from here on recovery completes.
LEMMA NoteInstalledStep ==
  ASSUME TypeOK, Files, ~kept', result # "ok",
         Step("note_installed", [cfg EXCEPT !.journal = "new_installed", !.had = had], env,
              "new_installed")
  PROVE  Files' /\ UNCHANGED <<ver, base, result>>
<1>1. /\ pc = "note_installed" /\ pc' = "new_installed" /\ env' = env /\ Frame
      /\ cfg'.journal = "new_installed" /\ cfg'.path = cfg.path
      /\ back' = IF cfg' = cfg THEN back ELSE Possible
  BY JournalEffect DEF JournalStates
<1>2. /\ cfg.journal = "old_moved" /\ cfg.path = ver /\ env.path = ver
      /\ \A p \in back : p = <<cfg, env>>
  BY <1>1 DEF Files, InSave
<1>3. Recovered(<<cfg', env'>>) = New
  BY <1>1, <1>2 DEF Recovered, New
<1>4. Good(<<cfg', env'>>)
  BY <1>1, <1>3 DEF Good, Unfinished
<1>5. Decided'
  BY <1>1 DEF Decided
<1>6. \A p \in back' : p[1] # cfg'
  <2>1. cfg' # cfg
    BY <1>1, <1>2
  <2>2. \A p \in back' : p = <<cfg, env>>
    BY SMTT(40), <1>1, <1>2, <2>1 DEF Possible
  <2> QED
    BY <2>1, <2>2
<1>7. AtLabel'
  BY SMTT(40), <1>1, <1>2, <1>6 DEF AtLabel, InRecovery, InSave, Committed, Frame
<1> QED
  BY SMTT(40), <1>1, <1>4, <1>5, <1>7, GoodKeeps DEF Frame

\* Once the decision is on the disk no crash undoes it.
LEMMA SyncInstalledStep ==
  ASSUME TypeOK, Files, ~kept', SyncJournal("new_installed", "forget_cfg", "failed")
  PROVE  Quiet /\ AtLabel'
<1>1. /\ pc = "new_installed" /\ pc' \in {"forget_cfg", "failed"}
      /\ cfg' = cfg /\ env' = env /\ Frame /\ back' \subseteq back
      /\ pc' # "failed" => \A p \in back' : p[1] = cfg
  BY SyncJournalEffect
<1>2. /\ cfg.journal = "new_installed" /\ cfg.path = ver /\ env.path = ver
      /\ \A p \in back : p[1] # cfg
  BY SMTT(40), <1>1 DEF Files, Committed
<1>3. Recovered(<<cfg', env'>>) = New'
  BY <1>1, <1>2 DEF Recovered, New, Frame
<1>4. pc' = "forget_cfg" => \A p \in Possible' : Recovered(p) = New'
  <2>1. pc' = "forget_cfg" => back' = {}
    BY ZenonT(40), <1>1, <1>2
  <2> QED
    BY <1>3, <2>1 DEF Possible
<1>5. AtLabel'
  BY <1>1, <1>2, <1>4 DEF AtLabel, InRecovery, InSave, Committed, Frame
<1> QED
  BY <1>1, <1>5 DEF Quiet, Frame

\* After a failed installation the old files are moved back; a roll-back by
\* recovery would do the same at every point of it.
LEMMA UndoSteps ==
  ASSUME TypeOK, Files, ~kept', Undo
  PROVE  Quiet /\ AtLabel'
<1>0. Good(<<cfg, env>>)
  BY SMTT(40), Visible
<1>1. CASE Unlink("undo_cfg", "path", "undo_env")
  <2>1. /\ pc = "undo_cfg" /\ pc' = "undo_env" /\ env' = env /\ Frame
        /\ cfg'.journal = cfg.journal /\ cfg'.had = cfg.had /\ cfg'.backup = cfg.backup
    BY SMTT(40), <1>1, UnlinkEffect
  <2>2. /\ cfg.journal = "old_moved" /\ cfg.had = had
        /\ ~had.cfg \/ cfg.backup # Absent
        /\ ~had.env \/ env.backup # Absent
    BY SMTT(40), <2>1 DEF Files, InSave
  <2>3. Quiet
    BY ZenonT(40), <2>1, <2>2 DEF Quiet, Frame, Recovered, Restored
  <2>4. AtLabel'
    BY SMTT(40), <2>1, <2>2 DEF AtLabel, InRecovery, InSave, Committed, Frame
  <2> QED
    BY <2>3, <2>4
<1>2. CASE RemoveDir("undo_env", "path", "back_cfg")
  <2>1. /\ pc = "undo_env" /\ pc' \in {"undo_env", "back_cfg"} /\ cfg' = cfg /\ Frame
        /\ env'.backup = env.backup
    BY SMTT(40), <1>2, RemoveDirEffect
  <2>2. /\ cfg.journal = "old_moved" /\ cfg.had = had
        /\ ~had.env \/ env.backup # Absent
    BY SMTT(40), <2>1 DEF Files, InSave
  <2>3. Quiet
    BY SMTT(40), <2>1, <2>2 DEF Quiet, Frame, Recovered, Restored
  <2>4. AtLabel'
    BY ZenonT(40), <2>1, <2>2 DEF AtLabel, InRecovery, InSave, Committed, Frame
  <2> QED
    BY <2>3, <2>4
<1>3. CASE had.cfg /\ RenameCfg("back_cfg", "backup", "path", "back_env", "back_env")
  <2>1. /\ pc = "back_cfg" /\ pc' = "back_env" /\ env' = env /\ Frame
        /\ cfg'.journal = cfg.journal /\ cfg'.had = cfg.had
        /\ \/ cfg' = cfg
           \/ cfg.backup # Absent /\ cfg'.path = cfg.backup /\ cfg'.backup = Absent
    BY SMTT(40), <1>3, RenameCfgEffect
  <2>2. cfg.journal = "old_moved" /\ cfg.had = had
    BY SMTT(40), <2>1 DEF Files, InSave
  <2>3. Quiet
    BY SMTT(40), <1>3, <2>1, <2>2 DEF Quiet, Frame, Recovered, Restored
  <2> QED
    BY SMTT(40), <2>1, <2>2, <2>3 DEF AtLabel, InRecovery, InSave, Committed, Frame
<1>4. CASE ~had.cfg /\ Step("back_cfg", cfg, env, "back_env")
  <2>1. pc = "back_cfg" /\ pc' = "back_env" /\ cfg' = cfg /\ env' = env /\ Frame
    BY SMTT(40), <1>4, StepEffect
  <2> QED
    BY ZenonT(40), <2>1 DEF Quiet, Frame, Files, AtLabel, InRecovery, InSave, Committed
<1>5. CASE had.env /\ RenameEnv("back_env", "backup", "path", "untemp", "untemp")
  <2>1. /\ pc = "back_env" /\ pc' = "untemp" /\ cfg' = cfg /\ Frame
        /\ \/ env' = env
           \/ env.backup # Absent /\ env'.path = env.backup /\ env'.backup = Absent
    BY SMTT(40), <1>5, RenameEnvEffect
  <2>2. cfg.journal = "old_moved" /\ cfg.had = had
    BY ZenonT(40), <2>1 DEF Files, InSave
  <2>3. Quiet
    BY ZenonT(40), <1>5, <2>1, <2>2 DEF Quiet, Frame, Recovered, Restored
  <2> QED
    BY SMTT(40), <2>1, <2>3 DEF AtLabel, InRecovery, InSave, Committed
<1>6. CASE ~had.env /\ Step("back_env", cfg, env, "untemp")
  <2>1. pc' = "untemp" /\ cfg' = cfg /\ env' = env /\ Frame
    BY <1>6, StepEffect
  <2> QED
    BY <2>1 DEF Quiet, Frame, AtLabel, InRecovery, InSave, Committed
<1> QED
  BY SMTT(40), <1>1, <1>2, <1>3, <1>4, <1>5, <1>6 DEF Undo

\* The backups and the journal of a decided save are removed: every crash
\* finds the new files.
LEMMA ForgetSteps ==
  ASSUME TypeOK, Files, ~kept', Forget
  PROVE  Files' /\ Narrows /\ UNCHANGED <<ver, base, result>>
<1>0. cfg \in CfgDir
  BY ZenonT(40) DEF TypeOK, Possible
<1>1. CASE Unlink("forget_cfg", "backup", "forget_env")
  <2>1. /\ pc = "forget_cfg" /\ pc' = "forget_env" /\ env' = env /\ Frame
        /\ cfg'.journal = cfg.journal /\ cfg'.had = cfg.had /\ cfg'.path = cfg.path
    BY <1>1, UnlinkEffect
  <2>2. /\ cfg.journal = "new_installed" /\ cfg.path = ver /\ env.path = ver
        /\ \A p \in Possible : Recovered(p) = New
    BY ZenonT(40), <2>1 DEF Files, Committed
  <2>3. Quiet
    BY SMTT(40), <2>1, <2>2 DEF Quiet, Frame, Recovered
  <2>4. \A p \in Possible' : Recovered(p) = New'
    BY ZenonT(40), <2>2, <2>3, QuietAddsNothing DEF Quiet, New
  <2>5. AtLabel'
    BY ZenonT(40), <2>1, <2>2, <2>4 DEF AtLabel, InRecovery, InSave, Committed, Frame
  <2> QED
    BY <2>3, <2>5, QuietKeeps, QuietAddsNothing DEF Quiet, Narrows
<1>2. CASE RemoveDir("forget_env", "backup", "forgotten")
  <2>1. /\ pc = "forget_env" /\ pc' \in {"forget_env", "forgotten"} /\ cfg' = cfg /\ Frame
        /\ env'.path = env.path
    BY <1>2, RemoveDirEffect
  <2>2. /\ cfg.journal = "new_installed" /\ cfg.path = ver /\ env.path = ver
        /\ \A p \in Possible : Recovered(p) = New
    BY ZenonT(40), <2>1 DEF Files, Committed
  <2>3. Quiet
    BY ZenonT(40), <2>1, <2>2 DEF Quiet, Frame, Recovered
  <2>4. \A p \in Possible' : Recovered(p) = New'
    BY <2>2, <2>3, QuietAddsNothing DEF Quiet, New
  <2>5. AtLabel'
    BY SMTT(40), <2>1, <2>2, <2>4 DEF AtLabel, InRecovery, InSave, Committed, Frame
  <2> QED
    BY <2>3, <2>5, QuietKeeps, QuietAddsNothing DEF Quiet, Narrows
<1>3. CASE sync_transaction_directories("forgotten", "unjournal", "failed")
  <2>1. /\ pc = "forgotten" /\ pc' \in {"unjournal", "failed"}
        /\ cfg' = cfg /\ env' = env /\ Frame
    BY ZenonT(40), <1>3, SyncBothEffect
  <2>2. /\ cfg.journal = "new_installed" /\ cfg.path = ver /\ env.path = ver
        /\ \A p \in Possible : Recovered(p) = New
    BY <2>1 DEF Files, Committed
  <2>3. Quiet
    BY ZenonT(40), <2>1 DEF Quiet, Frame
  <2>4. \A p \in Possible' : Recovered(p) = New'
    BY <2>2, <2>3, QuietAddsNothing DEF Quiet, New
  <2>5. AtLabel'
    BY SMTT(40), <2>1, <2>2, <2>4 DEF AtLabel, InRecovery, InSave, Committed, Frame
  <2> QED
    BY <2>3, <2>5, QuietKeeps, QuietAddsNothing DEF Quiet, Narrows
<1>4. CASE Step("unjournal", [cfg EXCEPT !.journal = "none"], env, "unjournaled")
  <2>0. cfg' = [cfg EXCEPT !.journal = "none"]
    BY <1>4, StepEffect
  <2>1. pc = "unjournal" /\ pc' = "unjournaled" /\ env' = env /\ Frame
    BY <1>4, StepEffect
  <2>2. cfg'.journal = "none" /\ cfg'.path = cfg.path
    BY <1>0, <2>0 DEF CfgDir
  <2>3. /\ cfg.path = ver /\ env.path = ver
        /\ \A p \in Possible : Recovered(p) = New
    BY SMTT(40), <2>1 DEF Files, Committed
  <2>4. Recovered(<<cfg', env'>>) = New /\ New = <<cfg'.path, env'.path>>
    BY SMTT(40), <2>1, <2>2, <2>3 DEF Recovered, New
  <2>5. \A p \in Possible' : Recovered(p) = New
    BY SMTT(40), <2>1, <2>3, <2>4 DEF Frame
  <2>6. Good(<<cfg', env'>>)
    BY <2>2, <2>4 DEF Good, Unfinished
  <2>7. Decided'
    BY ZenonT(40), <2>4, <2>5 DEF Decided
  <2>8. AtLabel'
    BY SMTT(40), <2>1, <2>5 DEF AtLabel, InRecovery, InSave, Committed, Frame, New
  <2>9. Narrows
    BY ZenonT(40), <2>3, <2>5 DEF Narrows, Possible
  <2> QED
    BY SMTT(40), <2>1, <2>6, <2>7, <2>8, <2>9, GoodKeeps DEF Frame
<1>5. CASE Fail("remove", "unjournal", "unjournaled") \/ SyncJournal("unjournaled", "saved", "saved")
  <2>1. /\ pc \in {"unjournal", "unjournaled"} /\ pc' \in {"unjournaled", "saved"}
        /\ cfg' = cfg /\ env' = env /\ Frame
    BY <1>5, FailEffect, SyncJournalEffect
  <2>2. \A p \in Possible : Recovered(p) = New
    BY <2>1 DEF Files, Committed
  <2>3. Quiet
    BY <2>1 DEF Quiet, Frame
  <2>4. \A p \in Possible' : Recovered(p) = New'
    BY ZenonT(40), <2>2, <2>3, QuietAddsNothing DEF Quiet, New
  <2>5. AtLabel'
    BY <2>1, <2>2, <2>4 DEF AtLabel, InRecovery, InSave, Committed, Frame
  <2> QED
    BY <2>3, <2>5, QuietKeeps, QuietAddsNothing DEF Quiet, Narrows
<1> QED
  BY SMTT(40), <1>1, <1>2, <1>3, <1>4, <1>5 DEF Forget

\* A save starts when every crash would leave the one version it replaces.
LEMMA BeginStep ==
  ASSUME TypeOK, Files, ~kept', result = "none", Begin
  PROVE  /\ Files'
         /\ \A p \in Possible \cup Possible' : Recovered(p) = base'
<1>0. cfg \in CfgDir /\ env \in EnvDir
  BY ZenonT(40) DEF TypeOK, Possible
<1>1. /\ cfg' = [cfg EXCEPT !.temp = Absent, !.backup = Absent]
      /\ env' = [env EXCEPT !.stage = Absent, !.backup = Absent]
  BY DEF Begin
<1>2. /\ cfg'.journal = cfg.journal /\ cfg'.path = cfg.path /\ env'.path = env.path
      /\ cfg'.backup = Absent /\ env'.backup = Absent
  BY <1>0, <1>1 DEF CfgDir, EnvDir
<1>3. /\ pc = "recovered" /\ pc' = "stage" /\ back' = back /\ result' = result
      /\ base' = <<cfg.path, env.path>>
  BY DEF Begin
<1>4. cfg.journal = "none"
  BY <1>3 DEF Files, InRecovery
<1>5. \A p \in Possible : Recovered(p) = base' /\ Good(p)
  BY <1>3, <1>4 DEF Files, Decided
<1>6. Recovered(<<cfg', env'>>) = base'
  BY <1>2, <1>3, <1>4 DEF Recovered
<1>7. Possible' \subseteq Possible \cup {<<cfg', env'>>}
  BY <1>3 DEF Possible
<1>8. \A p \in Possible' : Recovered(p) = base'
  BY <1>5, <1>6, <1>7
<1>9. \A p \in Possible' : Good(p)'
  <2> SUFFICES ASSUME NEW p \in Possible' PROVE Good(p)'
      OBVIOUS
  <2>1. CASE Unfinished(p[1])
    <3>1. p # <<cfg', env'>>
      BY <1>2, <1>4, <2>1 DEF Unfinished
    <3>2. Good(p) /\ Recovered(p) = base'
      BY <1>5, <1>7, <3>1
    <3>3. base' = base
      BY <2>1, <3>2 DEF Good
    <3> QED
      BY <1>3, <3>2, <3>3 DEF Good
  <2>2. CASE ~Unfinished(p[1])
    BY <1>3, <1>8, <2>2 DEF Good
  <2> QED
    BY <2>1, <2>2
<1>10. Decided'
  BY ZenonT(40), <1>2, <1>3, <1>8 DEF Decided
<1>11. AtLabel'
  <2>1. base'[1] = cfg.path /\ base'[2] = env.path
    BY <1>3
  <2> QED
    BY SMTT(40), <1>2, <1>3, <1>4, <2>1 DEF AtLabel, InRecovery, InSave, Committed
<1> QED
  BY SMTT(40), <1>5, <1>8, <1>9, <1>10, <1>11 DEF Files, AtLabel

\* A save that reports success has left no crash that would undo it.
LEMMA ReportStep ==
  ASSUME TypeOK, Files, ~kept', Report
  PROVE  /\ Files' /\ UNCHANGED <<ver, base>> /\ Possible' = Possible
         /\ result' = "ok" => \A p \in Possible : Recovered(p) = New
<1>1. /\ cfg' = cfg /\ env' = env /\ back' = back /\ ver' = ver /\ base' = base
      /\ \/ pc = "saved" /\ pc' = "ready" /\ result' = "ok"
         \/ pc = "failed" /\ pc' = "ready" /\ result' = "fail"
  BY DEF Report, Return, disk
<1>2. result' = "ok" => \A p \in Possible : Recovered(p) = New
  BY <1>1 DEF Files, Committed
<1>3. Possible' = Possible
  BY <1>1 DEF Possible
<1>4. \A p \in Possible' : Good(p)'
  BY <1>1, <1>2, <1>3 DEF Files, Good, New
<1>5. Decided'
  BY ZenonT(40), <1>1, <1>3 DEF Files, Decided
<1>6. AtLabel'
  BY <1>1 DEF AtLabel, InRecovery, InSave, Committed
<1> QED
  BY SMTT(40), <1>1, <1>2, <1>3, <1>4, <1>5, <1>6 DEF Files, AtLabel

\* A power failure leaves one of the possible contents and nothing else.
LEMMA PowerFailureStep ==
  ASSUME TypeOK, Files, ~kept', PowerFailure
  PROVE  Files' /\ Narrows
<1>1. PICK p \in Possible : cfg' = p[1] /\ env' = p[2] /\ back' = {} /\ pc' = "boot"
  BY DEF PowerFailure, Crash
<1>2. UNCHANGED <<ver, base, result>>
  BY DEF PowerFailure, Crash
<1>3. p = <<cfg', env'>>
  BY <1>1 DEF TypeOK
<1>4. Possible' = {p}
  BY SMTT(40), <1>1, <1>3 DEF Possible
<1>5. \A q \in Possible' : Good(q)'
  BY ZenonT(40), <1>1, <1>2, <1>4 DEF Files, Good, New
<1>6. Decided'
  BY SMTT(40), <1>3, <1>4 DEF Decided, Recovered
<1>7. AtLabel'
  <2>1. InRecovery'
    BY ZenonT(40), <1>1 DEF InRecovery
  <2>2. InSave'
    BY <1>1 DEF InSave
  <2>3. Committed'
    BY <1>1 DEF Committed
  <2> QED
    BY ZenonT(40), <2>1, <2>2, <2>3 DEF AtLabel
<1> QED
  BY SMTT(40), <1>1, <1>4, <1>5, <1>6, <1>7 DEF Files, AtLabel, Narrows

\* Steps of the daemon that touch no file and put no thread in a transaction.
LEMMA ElsewhereStep ==
  ASSUME Files, UNCHANGED <<cfg, env, back, ver, base>>,
         pc' \in {"boot", "ready", "recover"} \/ UNCHANGED <<pc, had, ok>>,
         result' # "ok" \/ UNCHANGED result
  PROVE  Files' /\ Possible' = Possible
<1>1. Possible' = Possible
  BY DEF Possible
<1>2. \A p \in Possible' : Good(p)'
  BY <1>1 DEF Files, Good, New
<1>3. Decided'
  BY <1>1 DEF Files, Decided
<1>4. AtLabel'
  <2>1. CASE pc' \in {"boot", "ready", "recover"}
    <3>1. InRecovery'
      BY <2>1 DEF InRecovery
    <3>2. InSave'
      BY <2>1 DEF InSave
    <3>3. Committed'
      BY ZenonT(40), <2>1 DEF Committed
    <3> QED
      BY <3>1, <3>2, <3>3 DEF AtLabel
  <2>2. CASE UNCHANGED <<pc, had, ok>>
    <3>1. InRecovery'
      BY ZenonT(40), <2>2 DEF Files, InRecovery, CfgRestored, EnvRestored, Unfinished
    <3>2. InSave'
      BY ZenonT(40), <2>2 DEF Files, InSave
    <3>3. Committed'
      BY SMTT(40), <1>1, <2>2 DEF Files, Committed, New
    <3> QED
      BY <3>1, <3>2, <3>3 DEF AtLabel
  <2> QED
    BY SMTT(40), <2>1, <2>2
<1> QED
  BY <1>1, <1>2, <1>3, <1>4 DEF Files, AtLabel

=============================================================================
