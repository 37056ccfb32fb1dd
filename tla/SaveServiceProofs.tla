-------------------------- MODULE SaveServiceProofs --------------------------
(***************************************************************************)
(* Proofs about SaveService, for every set of failing calls and any number *)
(* of saves, crashes and failures: what the flags of the worker guarantee, *)
(* that every instant is recoverable, and that files, journal, worker and  *)
(* client list together implement AtomicStore.                             *)
(***************************************************************************)
EXTENDS SaveTransactionProofs

-----------------------------------------------------------------------------
(* Types, and where the threads are. *)

\* What every call of a transaction leaves well-formed.
Formed ==
  /\ cfg' \in CfgDir /\ env' \in EnvDir /\ had' \in Old /\ ok' \in BOOLEAN
  /\ UNCHANGED <<caller, ver, base, result>>
  /\ Possible' \subseteq Possible \cup {<<cfg', env'>>}
  /\ kept' \in BOOLEAN
  /\ mishaps' = mishaps \/ (mishaps < MaxMishap /\ mishaps' = mishaps + 1)

\* The thread stays in the recovery.
LEMMA RecoveryForms ==
  ASSUME TypeOK, recover_prog_cfg_save
  PROVE  /\ Formed
         /\ pc \in Recovering \ {"boot", "ready"} /\ pc' \in Recovering \ {"boot", "ready"}
<1>0. cfg \in CfgDir /\ env \in EnvDir /\ had \in Old /\ ok \in BOOLEAN /\ kept \in BOOLEAN
  BY ZenonT(40) DEF TypeOK, Possible
<1>1. CASE Recover
  <2>1. cfg.had \in Old
    BY <1>0 DEF CfgDir
  <2>2. Formed
    BY <1>0, <1>1, <2>1 DEF Recover, Formed, disk, Possible
  <2>3. pc = "recover"
        /\ pc' \in {"recovered", "unrecovered", "drop_cfg_backup", "restore_cfg"}
    BY <1>1 DEF Recover
  <2> QED
    BY <2>2, <2>3 DEF Recovering
<1>2. CASE RestoreResult
  <2>1. Formed
    BY <1>0, <1>2 DEF RestoreResult, Formed, disk, Possible
  <2>2. /\ pc \in {"check_cfg", "not_restored_cfg", "check_env", "not_restored_env"}
        /\ pc' \in {"restore_env", "recover_temp"}
    BY SMTT(40), <1>2 DEF RestoreResult
  <2> QED
    BY <2>1, <2>2 DEF Recovering
<1>3. ASSUME NEW at \in Recovering \ {"boot", "ready"}, NEW label \in Recovering \ {"boot", "ready"},
             NEW name \in {"path", "temp", "backup"}, Unlink(at, name, label)
      PROVE  Formed /\ pc = at /\ pc' = label
  BY SMTT(40), <1>0, <1>3, UnlinkEffect DEF Formed, Frame
<1>4. ASSUME NEW at \in Recovering \ {"boot", "ready"}, NEW label \in Recovering \ {"boot", "ready"},
             at # label, NEW name \in {"path", "stage", "backup"}, RemoveDir(at, name, label)
      PROVE  Formed /\ pc = at /\ pc' \in {at, label}
  BY SMTT(40), <1>0, <1>4, RemoveDirEffect DEF Formed, Frame
<1>5. ASSUME NEW at, NEW label, Step(at, cfg, env, label)
      PROVE  Formed /\ pc = at /\ pc' = label
  BY <1>0, <1>5, StepEffect DEF Formed, Frame
<1>6. CASE RestoreFirst
  <2>1. /\ Formed
        /\ pc \in {"restore_cfg", "restore_env"}
        /\ pc' \in {"rename_cfg", "check_cfg", "restore_env", "rename_env", "check_env"}
    <3>1. CASE Unlink("restore_cfg", "path", "rename_cfg")
      BY <3>1, <1>3 DEF Recovering
    <3>2. CASE Unlink("restore_cfg", "path", "check_cfg")
      BY <3>2, <1>3 DEF Recovering
    <3>3. CASE Step("restore_cfg", cfg, env, "check_cfg")
      BY <3>3, <1>5
    <3>4. CASE RemoveDir("restore_env", "path", "rename_env")
      BY <3>4, <1>4 DEF Recovering
    <3>5. CASE RemoveDir("restore_env", "path", "check_env")
      BY <3>5, <1>4 DEF Recovering
    <3>6. CASE Step("restore_env", cfg, env, "check_env")
      BY <3>6, <1>5
    <3> QED
      BY SMTT(40), <1>6, <3>1, <3>2, <3>3, <3>4, <3>5, <3>6 DEF RestoreFirst
  <2> QED
    BY SMTT(40), <2>1 DEF Recovering
<1>7. CASE RestoreSecond
  <2>1. CASE RenameCfg("rename_cfg", "backup", "path", "restore_env", "not_restored_cfg")
    <3>1. /\ cfg' \in CfgDir /\ env' = env /\ ok' = ok /\ Frame
          /\ pc = "rename_cfg" /\ pc' \in {"restore_env", "not_restored_cfg"}
      BY <2>1, RenameCfgEffect
    <3> QED
      BY <1>0, <3>1 DEF Formed, Frame, Recovering
  <2>2. CASE RenameEnv("rename_env", "backup", "path", "recover_temp", "not_restored_env")
    <3>1. /\ env' \in EnvDir /\ cfg' = cfg /\ ok' = ok /\ Frame
          /\ pc = "rename_env" /\ pc' \in {"recover_temp", "not_restored_env"}
      BY <2>2, RenameEnvEffect
    <3> QED
      BY <1>0, <3>1 DEF Formed, Frame, Recovering
  <2> QED
    BY SMTT(40), <1>7, <2>1, <2>2 DEF RestoreSecond
<1>8. CASE DropBackups
  <2>1. /\ Formed
        /\ pc \in {"drop_cfg_backup", "drop_env_backup"}
        /\ pc' \in {"drop_env_backup", "recover_temp"}
    <3>1. CASE Unlink("drop_cfg_backup", "backup", "drop_env_backup")
      BY <3>1, <1>3 DEF Recovering
    <3>2. CASE RemoveDir("drop_env_backup", "backup", "recover_temp")
      BY <3>2, <1>4 DEF Recovering
    <3> QED
      BY <1>8, <3>1, <3>2 DEF DropBackups
  <2> QED
    BY <2>1 DEF Recovering
<1>9. CASE RecoverTail
  <2>1. CASE Unlink("recover_temp", "temp", "recover_stage")
    BY <2>1, <1>3 DEF Recovering
  <2>2. CASE RemoveDir("recover_stage", "stage", IF ok THEN "recover_sync" ELSE "unrecovered")
    <3>1. \/ RemoveDir("recover_stage", "stage", "recover_sync")
          \/ RemoveDir("recover_stage", "stage", "unrecovered")
      BY <2>2
    <3> QED
      BY <3>1, <1>4 DEF Recovering
  <2>3. CASE sync_transaction_directories("recover_sync", "recover_journal", "unrecovered")
    <3>1. /\ cfg' = cfg /\ env' = env /\ ok' = ok /\ Frame
          /\ pc = "recover_sync" /\ pc' \in {"recover_journal", "unrecovered"}
      BY <2>3, SyncBothEffect
    <3> QED
      BY <1>0, <3>1 DEF Formed, Frame, Recovering
  <2>4. CASE Step("recover_journal", [cfg EXCEPT !.journal = "none"], env, "recover_journal_sync")
    <3>1. /\ cfg' = [cfg EXCEPT !.journal = "none"] /\ env' = env /\ ok' = ok /\ Frame
          /\ pc = "recover_journal" /\ pc' = "recover_journal_sync"
      BY <2>4, StepEffect
    <3>2. cfg' \in CfgDir
      BY <1>0, <3>1 DEF CfgDir, JournalStates
    <3> QED
      BY <1>0, <3>1, <3>2 DEF Formed, Frame, Recovering
  <2>5. CASE Fail("remove", "recover_journal", "unrecovered")
    <3>1. /\ cfg' = cfg /\ env' = env /\ ok' = ok /\ Frame
          /\ pc = "recover_journal" /\ pc' = "unrecovered"
      BY <2>5, FailEffect
    <3> QED
      BY <1>0, <3>1 DEF Formed, Frame, Recovering
  <2>6. CASE SyncJournal("recover_journal_sync", "recovered", "unrecovered")
    <3>1. /\ cfg' = cfg /\ env' = env /\ ok' = ok /\ Frame
          /\ pc = "recover_journal_sync" /\ pc' \in {"recovered", "unrecovered"}
      BY <2>6, SyncJournalEffect
    <3> QED
      BY <1>0, <3>1 DEF Formed, Frame, Recovering
  <2> QED
    BY SMTT(40), <1>9, <2>1, <2>2, <2>3, <2>4, <2>5, <2>6 DEF RecoverTail
<1> QED
  BY <1>1, <1>2, <1>6, <1>7, <1>8, <1>9 DEF recover_prog_cfg_save

\* The thread stays in the save until it reports.
LEMMA SaveForms ==
  ASSUME TypeOK, Stage \/ Look \/ MoveOld \/ InstallNew \/ Undo \/ Forget
  PROVE  Formed /\ pc \notin Recovering /\ pc' \notin Recovering
<1>0. /\ cfg \in CfgDir /\ env \in EnvDir /\ had \in Old /\ ok \in BOOLEAN /\ kept \in BOOLEAN
      /\ ver \in 0 .. MaxSave
  BY ZenonT(40) DEF TypeOK, Possible
<1>1. ASSUME NEW at, NEW label, NEW c \in CfgDir, NEW e \in EnvDir, Step(at, c, e, label)
      PROVE  Formed /\ pc = at /\ pc' = label
  BY <1>0, <1>1, StepEffect DEF Formed, Frame
<1>2. ASSUME NEW call, NEW at, NEW label, Fail(call, at, label)
      PROVE  Formed /\ pc = at /\ pc' = label
  BY <1>0, <1>2, FailEffect DEF Formed, Frame
<1>3. ASSUME NEW at, NEW label, NEW name \in {"path", "temp", "backup"}, Unlink(at, name, label)
      PROVE  Formed /\ pc = at /\ pc' = label
  BY <1>0, <1>3, UnlinkEffect DEF Formed, Frame
<1>4. ASSUME NEW at, NEW label, at # label, NEW name \in {"path", "stage", "backup"},
             RemoveDir(at, name, label)
      PROVE  Formed /\ pc = at /\ pc' \in {at, label}
  BY SMTT(40), <1>0, <1>4, RemoveDirEffect DEF Formed, Frame
<1>5. ASSUME NEW at, NEW label, NEW failed, NEW from \in {"path", "temp", "backup"},
             NEW to \in {"path", "temp", "backup"}, from # to, RenameCfg(at, from, to, label, failed)
      PROVE  Formed /\ pc = at /\ pc' \in {label, failed}
  <2>1. cfg' \in CfgDir /\ env' = env /\ ok' = ok /\ Frame /\ pc = at /\ pc' \in {label, failed}
    BY SMTT(40), <1>5, RenameCfgEffect
  <2> QED
    BY <1>0, <2>1 DEF Formed, Frame
<1>6. ASSUME NEW at, NEW label, NEW failed, NEW from \in {"path", "stage", "backup"},
             NEW to \in {"path", "stage", "backup"}, from # to, RenameEnv(at, from, to, label, failed)
      PROVE  Formed /\ pc = at /\ pc' \in {label, failed}
  <2>1. env' \in EnvDir /\ cfg' = cfg /\ ok' = ok /\ Frame /\ pc = at /\ pc' \in {label, failed}
    BY SMTT(40), <1>6, RenameEnvEffect
  <2> QED
    BY <1>0, <2>1 DEF Formed, Frame
<1>7. ASSUME NEW at, NEW label, NEW failed, label # failed,
             sync_transaction_directories(at, label, failed)
      PROVE  Formed /\ pc = at /\ pc' \in {label, failed}
  BY SMTT(40), <1>0, <1>7, SyncBothEffect DEF Formed, Frame
<1>8. ASSUME NEW at, NEW label, NEW failed, SyncJournal(at, label, failed)
      PROVE  Formed /\ pc = at /\ pc' \in {label, failed}
  BY <1>0, <1>8, SyncJournalEffect DEF Formed, Frame
<1>9. ASSUME NEW at, NEW state \in JournalStates, NEW label, write_save_journal(at, state, label)
      PROVE  Formed /\ pc \in {at, state} /\ pc' \in {state, label, "failed"}
  <2>1. CASE Step(at, [cfg EXCEPT !.journal = state, !.had = had], env, state)
    <3>1. [cfg EXCEPT !.journal = state, !.had = had] \in CfgDir
      BY ZenonT(40), <1>0 DEF CfgDir
    <3> QED
      BY SMTT(40), <1>0, <1>1, <2>1, <3>1
  <2>2. CASE Fail("write", at, "failed")
    BY <1>2, <2>2
  <2>3. CASE SyncJournal(state, label, "failed")
    BY <1>8, <2>3
  <2> QED
    BY <1>9, <2>1, <2>2, <2>3 DEF write_save_journal
<1>10. CASE Stage
  <2>1. CASE Step("stage", cfg, [env EXCEPT !.stage = Torn], "fill")
    <3>1. [env EXCEPT !.stage = Torn] \in EnvDir
      BY <1>0 DEF EnvDir, Contents
    <3> QED
      BY SMTT(40), <1>0, <1>1, <2>1, <3>1 DEF Recovering
  <2>2. CASE Fail("write", "stage", "failed")
    BY <1>2, <2>2 DEF Recovering
  <2>3. CASE Step("fill", cfg, [env EXCEPT !.stage = ver], "write")
    <3>1. [env EXCEPT !.stage = ver] \in EnvDir
      BY <1>0 DEF EnvDir, Contents
    <3> QED
      BY SMTT(40), <1>0, <1>1, <2>3, <3>1 DEF Recovering
  <2>4. CASE Fail("write", "fill", "unstage")
    BY <1>2, <2>4 DEF Recovering
  <2>5. CASE Step("write", [cfg EXCEPT !.temp = Torn], env, "flush")
    <3>1. [cfg EXCEPT !.temp = Torn] \in CfgDir
      BY <1>0 DEF CfgDir, Contents, JournalStates
    <3> QED
      BY SMTT(40), <1>0, <1>1, <2>5, <3>1 DEF Recovering
  <2>6. CASE Fail("write", "write", "unstage")
    BY <1>2, <2>6 DEF Recovering
  <2>7. CASE Step("flush", [cfg EXCEPT !.temp = ver], env, "look")
    <3>1. [cfg EXCEPT !.temp = ver] \in CfgDir
      BY <1>0 DEF CfgDir, Contents, JournalStates
    <3> QED
      BY SMTT(40), <1>0, <1>1, <2>7, <3>1 DEF Recovering
  <2>8. CASE Fail("write", "flush", "untemp")
    BY <1>2, <2>8 DEF Recovering
  <2>9. CASE Unlink("untemp", "temp", "unstage")
    BY <1>3, <2>9 DEF Recovering
  <2>10. CASE RemoveDir("unstage", "stage", "failed")
    BY SMTT(40), <1>4, <2>10 DEF Recovering
  <2> QED
    BY <1>10, <2>1, <2>2, <2>3, <2>4, <2>5, <2>6, <2>7, <2>8, <2>9, <2>10 DEF Stage
<1>11. CASE MoveOld
  <2>1. CASE write_save_journal("prepare", "prepared", "move_cfg")
    <3>1. "prepared" \in JournalStates
      BY DEF JournalStates
    <3>2. Formed /\ pc \in {"prepare", "prepared"} /\ pc' \in {"prepared", "move_cfg", "failed"}
      BY SMTT(40), <1>9, <2>1, <3>1
    <3> QED
      BY <3>2 DEF Recovering
  <2>2. CASE RenameCfg("move_cfg", "path", "backup", "move_env", "untemp")
    BY SMTT(40), <1>5, <2>2 DEF Recovering
  <2>3. CASE Step("move_cfg", cfg, env, "move_env")
    BY SMTT(40), <1>0, <1>1, <2>3 DEF Recovering
  <2>4. CASE RenameEnv("move_env", "path", "backup", "moved", "move_cfg_back")
    BY SMTT(40), <1>6, <2>4 DEF Recovering
  <2>5. CASE Step("move_env", cfg, env, "moved")
    BY SMTT(40), <1>0, <1>1, <2>5 DEF Recovering
  <2>6. CASE RenameCfg("move_cfg_back", "backup", "path", "untemp", "untemp")
    BY SMTT(40), <1>5, <2>6 DEF Recovering
  <2>7. CASE Step("move_cfg_back", cfg, env, "untemp")
    BY SMTT(40), <1>0, <1>1, <2>7 DEF Recovering
  <2>8. CASE sync_transaction_directories("moved", "note_moved", "failed")
    BY <1>7, <2>8 DEF Recovering
  <2>9. CASE write_save_journal("note_moved", "old_moved", "install_cfg")
    <3>1. "old_moved" \in JournalStates
      BY DEF JournalStates
    <3>2. Formed /\ pc \in {"note_moved", "old_moved"} /\ pc' \in {"old_moved", "install_cfg", "failed"}
      BY SMTT(40), <1>9, <2>9, <3>1
    <3> QED
      BY <3>2 DEF Recovering
  <2> QED
    BY SMTT(40), <1>11, <2>1, <2>2, <2>3, <2>4, <2>5, <2>6, <2>7, <2>8, <2>9 DEF MoveOld
<1>12. CASE InstallNew
  <2>1. CASE RenameCfg("install_cfg", "temp", "path", "install_env", "undo_cfg")
    BY <1>5, <2>1 DEF Recovering
  <2>2. CASE RenameEnv("install_env", "stage", "path", "installed", "undo_cfg")
    BY SMTT(40), <1>6, <2>2 DEF Recovering
  <2>3. CASE sync_transaction_directories("installed", "note_installed", "failed")
    BY <1>7, <2>3 DEF Recovering
  <2>4. CASE write_save_journal("note_installed", "new_installed", "forget_cfg")
    <3>1. "new_installed" \in JournalStates
      BY DEF JournalStates
    <3>2. Formed /\ pc \in {"note_installed", "new_installed"} /\ pc' \in {"new_installed", "forget_cfg", "failed"}
      BY SMTT(40), <1>9, <2>4, <3>1
    <3> QED
      BY <3>2 DEF Recovering
  <2> QED
    BY SMTT(40), <1>12, <2>1, <2>2, <2>3, <2>4 DEF InstallNew
<1>13. CASE Undo
  <2>1. CASE Unlink("undo_cfg", "path", "undo_env")
    BY SMTT(40), <1>3, <2>1 DEF Recovering
  <2>2. CASE RemoveDir("undo_env", "path", "back_cfg")
    BY SMTT(40), <1>4, <2>2 DEF Recovering
  <2>3. CASE RenameCfg("back_cfg", "backup", "path", "back_env", "back_env")
    BY SMTT(40), <1>5, <2>3 DEF Recovering
  <2>4. CASE Step("back_cfg", cfg, env, "back_env")
    BY SMTT(40), <1>0, <1>1, <2>4 DEF Recovering
  <2>5. CASE RenameEnv("back_env", "backup", "path", "untemp", "untemp")
    BY SMTT(40), <1>6, <2>5 DEF Recovering
  <2>6. CASE Step("back_env", cfg, env, "untemp")
    BY <1>0, <1>1, <2>6 DEF Recovering
  <2> QED
    BY SMTT(40), <1>13, <2>1, <2>2, <2>3, <2>4, <2>5, <2>6 DEF Undo
<1>14. CASE Forget
  <2>1. CASE Unlink("forget_cfg", "backup", "forget_env")
    BY <1>3, <2>1 DEF Recovering
  <2>2. CASE RemoveDir("forget_env", "backup", "forgotten")
    BY <1>4, <2>2 DEF Recovering
  <2>3. CASE sync_transaction_directories("forgotten", "unjournal", "failed")
    BY <1>7, <2>3 DEF Recovering
  <2>4. CASE Step("unjournal", [cfg EXCEPT !.journal = "none"], env, "unjournaled")
    <3>1. [cfg EXCEPT !.journal = "none"] \in CfgDir
      BY <1>0 DEF CfgDir, Contents, JournalStates
    <3> QED
      BY SMTT(40), <1>0, <1>1, <2>4, <3>1 DEF Recovering
  <2>5. CASE Fail("remove", "unjournal", "unjournaled")
    BY <1>2, <2>5 DEF Recovering
  <2>6. CASE SyncJournal("unjournaled", "saved", "saved")
    BY SMTT(40), <1>8, <2>6 DEF Recovering
  <2> QED
    BY SMTT(40), <1>14, <2>1, <2>2, <2>3, <2>4, <2>5, <2>6 DEF Forget
<1>15. CASE Look
  <2>1. Formed
    BY SMTT(40), <1>0, <1>15 DEF Look, Formed, disk, Possible, Old
  <2> QED
    BY SMTT(40), <1>15, <2>1 DEF Look, Recovering
<1> QED
  BY SMTT(40), <1>10, <1>11, <1>12, <1>13, <1>14, <1>15

\* Well-formed steps keep the types.
LEMMA FormedTypes ==
  ASSUME TypeOK, Formed
  PROVE  TypeOK'
<1>1. Possible' \subseteq CfgDir \X EnvDir
  BY DEF TypeOK, Formed
<1>2. mishaps' \in 0 .. MaxMishap
  BY BoundAssumption DEF TypeOK, Formed
<1>3. base' \in Contents \X Contents /\ ver' \in 0 .. MaxSave
  BY DEF TypeOK, Formed
<1>4. had' \in Old /\ ok' \in BOOLEAN /\ kept' \in BOOLEAN
  BY DEF Formed
<1> QED
  BY SMTT(40), <1>1, <1>2, <1>3, <1>4 DEF TypeOK, Formed

\* A call inside a transaction leaves the flags as they are, and they stay true.
LEMMA TransactionThreads ==
  ASSUME ServiceTypeOK, Threads, Transaction
  PROVE  ServiceTypeOK' /\ Threads'
<1>0. TypeOK /\ ver \in 0 .. MaxSave /\ MaxSave \in Nat
  BY BoundAssumption DEF ServiceTypeOK, TypeOK
<1>1. UNCHANGED <<up, running, completed, outcome, waiting, exiting, acked>>
  BY DEF Transaction, service
<1>2. TypeOK' => ServiceTypeOK'
  BY <1>1 DEF ServiceTypeOK
<1>3. CASE recover_prog_cfg_save
  <2>1. /\ Formed
        /\ pc \in Recovering /\ pc \notin {"boot", "ready"}
        /\ pc' \in Recovering /\ pc' \notin {"boot", "ready"}
    BY <1>0, <1>3, RecoveryForms
  <2>2. TypeOK'
    BY SMTT(40), <1>0, <2>1, FormedTypes
  <2>3. Threads'
    BY SMTT(40), <1>1, <2>1 DEF Threads, Formed, busy
  <2> QED
    BY <1>2, <2>2, <2>3
<1>4. CASE Stage \/ Look \/ MoveOld \/ InstallNew \/ Undo \/ Forget
  <2>1. Formed /\ pc \notin Recovering /\ pc' \notin Recovering
    BY SMTT(40), <1>0, <1>4, SaveForms
  <2>2. TypeOK'
    BY SMTT(40), <1>0, <2>1, FormedTypes
  <2>3. pc \notin {"boot", "ready"} /\ pc' \notin {"boot", "ready"}
    BY SMTT(40), <2>1 DEF Recovering
  <2>4. Threads'
    BY SMTT(40), <1>1, <2>1, <2>3 DEF Threads, Formed, busy
  <2> QED
    BY <1>2, <2>2, <2>4
<1>5. CASE Begin
  <2>1. /\ pc = "recovered" /\ pc' = "stage" /\ caller = "save" /\ caller' = caller
        /\ ver' = ver + 1 /\ back' = back /\ base' = <<cfg.path, env.path>>
        /\ UNCHANGED <<had, ok, result, kept, mishaps>>
    BY <1>5 DEF Begin
  <2>2. pc \in Recovering /\ pc' \notin Recovering
    BY SMTT(40), <2>1 DEF Recovering
  <2>3. ver < MaxSave /\ waiting = {ver + 1} /\ running /\ result = "none"
    BY SMTT(40), <2>1, <2>2 DEF Threads
  <2>4. cfg \in CfgDir /\ env \in EnvDir /\ back \subseteq CfgDir \X EnvDir
    BY ZenonT(40), <1>0 DEF TypeOK, Possible
  <2>5. cfg' \in CfgDir /\ env' \in EnvDir
    BY ZenonT(40), <1>5, <2>4 DEF Begin, CfgDir, EnvDir, Contents
  <2>6. base' \in Contents \X Contents
    BY <2>1, <2>4 DEF CfgDir, EnvDir
  <2>7. ver' \in 0 .. MaxSave /\ ver' > 0
    BY SMTT(40), <1>0, <2>1, <2>3
  <2>8. TypeOK'
    BY SMTT(40), <1>0, <2>1, <2>4, <2>5, <2>6, <2>7 DEF TypeOK, Possible
  <2>9. Threads'
    BY SMTT(40), <1>1, <2>1, <2>2, <2>3, <2>7 DEF Threads, busy
  <2> QED
    BY <1>2, <2>8, <2>9
<1>6. CASE Report
  <2>1. /\ pc \in {"saved", "failed"} /\ pc' = "ready" /\ caller = "save" /\ result' \in {"ok", "fail"}
        /\ UNCHANGED <<caller, cfg, env, back, had, ok, ver, base, kept, mishaps>>
    BY <1>6 DEF Report, Return, disk
  <2>2. pc \notin Recovering /\ pc' \in Recovering
    BY <2>1 DEF Recovering
  <2>3. running /\ waiting = {ver}
    BY SMTT(40), <2>1, <2>2 DEF Threads
  <2>4. TypeOK'
    BY SMTT(40), <1>0, <2>1 DEF TypeOK, Possible
  <2>5. Threads'
    BY SMTT(40), <1>1, <2>1, <2>2, <2>3 DEF Threads, busy
  <2> QED
    BY <1>2, <2>4, <2>5
<1> QED
  BY SMTT(40), <1>3, <1>4, <1>5, <1>6 DEF Transaction, save_prog_cfg

\* Starting, loading and answering a load.
LEMMA LoadThreads ==
  ASSUME ServiceTypeOK, Threads, Start \/ Loaded \/ ReloadCommand
  PROVE  ServiceTypeOK' /\ Threads'
<1>0. /\ TypeOK /\ {up, running, completed} \subseteq BOOLEAN
      /\ outcome \in {"ok", "fail"} /\ exiting \in {"no", "quit", "reload"}
      /\ waiting \subseteq 1 .. MaxSave /\ acked \in 0 .. MaxSave
  BY DEF ServiceTypeOK
<1>1. "recover" \in Recovering /\ "ready" \in Recovering /\ "boot" \in Recovering
      /\ "recovered" \in Recovering /\ "unrecovered" \in Recovering
  BY SMTT(40) DEF Recovering
<1>2. CASE Start \/ ReloadCommand
  <2>1. /\ pc' = "recover" /\ caller' = "load"
        /\ UNCHANGED <<cfg, env, back, had, ok, ver, base, result, kept, mishaps>>
        /\ UNCHANGED <<up, running, completed, outcome, waiting, exiting, acked>>
    BY <1>2 DEF Start, ReloadCommand, load_prog_cfg, Call, service, disk
  <2>2. ~busy
    BY SMTT(40), <1>2 DEF Start, ReloadCommand, Threads, busy
  <2>3. TypeOK'
    BY SMTT(40), <1>0, <2>1 DEF TypeOK, Possible
  <2>4. Threads'
    BY SMTT(40), <1>1, <2>1, <2>2 DEF Threads, busy
  <2> QED
    BY SMTT(40), <1>0, <2>1, <2>3, <2>4 DEF ServiceTypeOK
<1>3. CASE Loaded /\ caller = "load"
  <2>1. /\ pc \in {"recovered", "unrecovered"} /\ pc' \in {"ready", "boot"} /\ caller' = caller
        /\ pc' = "boot" => ~up'
        /\ UNCHANGED <<cfg, env, back, had, ok, ver, base, result, kept, mishaps>>
        /\ UNCHANGED <<running, completed, outcome, waiting, acked>>
        /\ up' \in BOOLEAN /\ exiting' \in {"no", "quit", "reload"}
    <3>1. CASE Return("recovered", "load", "ready") /\ up' = TRUE
      BY <1>0, <1>3, <3>1 DEF Loaded, Return, service, disk
    <3>2. CASE Return("unrecovered", "load", IF up THEN "ready" ELSE "boot") /\ UNCHANGED <<result, service>>
      BY SMTT(40), <1>0, <1>3, <3>2 DEF Return, service, disk
    <3> QED
      BY ZenonT(40), <1>3, <3>1, <3>2 DEF Loaded, Return
  <2>2. ~busy
    BY SMTT(40), <1>3, <2>1 DEF Threads, busy
  <2>3. TypeOK'
    BY SMTT(40), <1>0, <2>1 DEF TypeOK, Possible
  <2>4. Threads'
    BY SMTT(40), <1>1, <1>3, <2>1, <2>2 DEF Threads, busy
  <2> QED
    BY SMTT(40), <1>0, <2>1, <2>3, <2>4 DEF ServiceTypeOK
<1>4. CASE Loaded /\ caller # "load"
  <2>1. /\ pc = "unrecovered" /\ pc' = "ready" /\ caller' = caller /\ caller = "save"
        /\ result' = "fail"
        /\ UNCHANGED <<cfg, env, back, had, ok, ver, base, kept, mishaps>>
        /\ UNCHANGED <<up, running, completed, outcome, waiting, exiting, acked>>
    BY SMTT(40), <1>4 DEF Loaded, Return, service, disk
  <2>2. running /\ ver < MaxSave /\ waiting = {ver + 1}
    BY SMTT(40), <1>1, <2>1 DEF Threads
  <2>3. TypeOK'
    BY SMTT(40), <1>0, <2>1 DEF TypeOK, Possible
  <2>4. Threads'
    BY <1>1, <2>1, <2>2 DEF Threads, busy
  <2> QED
    BY SMTT(40), <1>0, <2>1, <2>3, <2>4 DEF ServiceTypeOK
<1> QED
  BY SMTT(40), <1>2, <1>3, <1>4

\* The worker and the commands that use it.
LEMMA WorkerThreads ==
  ASSUME ServiceTypeOK, Threads, ThreadEnds \/ SaveCommand \/ QuitCommand
  PROVE  ServiceTypeOK' /\ Threads'
<1>0. /\ TypeOK /\ {up, running, completed} \subseteq BOOLEAN
      /\ outcome \in {"ok", "fail"} /\ exiting \in {"no", "quit", "reload"}
      /\ waiting \subseteq 1 .. MaxSave /\ acked \in 0 .. MaxSave
      /\ ver \in 0 .. MaxSave /\ result \in {"none", "ok", "fail"}
  BY DEF ServiceTypeOK, TypeOK
<1>1. "recover" \in Recovering /\ "ready" \in Recovering
  BY DEF Recovering
<1>2. CASE ThreadEnds
  <2>1. /\ running /\ caller = "save" /\ pc = "ready"
        /\ running' = FALSE /\ completed' = TRUE /\ outcome' = result
        /\ UNCHANGED <<pc, caller, cfg, env, back, had, ok, ver, base, result, kept, mishaps>>
        /\ UNCHANGED <<up, waiting, exiting, acked>>
    BY <1>2 DEF ThreadEnds, vars
  <2>2. TypeOK'
    BY <1>0, <2>1 DEF TypeOK, Possible
  <2>3. Threads'
    BY SMTT(40), <1>1, <2>1 DEF Threads, busy
  <2>4. result # "none"
    BY SMTT(40), <2>1 DEF Threads
  <2> QED
    BY ZenonT(40), <1>0, <2>1, <2>2, <2>3, <2>4 DEF ServiceTypeOK
<1>3. CASE SaveCommand
  <2>1. /\ Listening /\ ~busy /\ running' = TRUE /\ outcome' = "fail" /\ completed' = completed
        /\ ver < MaxSave /\ pc' = "recover" /\ caller' = "save" /\ result' = "none"
        /\ waiting' = waiting \cup {ver + 1}
        /\ UNCHANGED <<cfg, env, back, had, ok, ver, base, kept, mishaps>>
        /\ UNCHANGED <<up, exiting, acked>>
    BY SMTT(40), <1>3 DEF SaveCommand, submit, Save, Call, disk
  <2>2. waiting = {} /\ ~completed /\ up
    BY <2>1 DEF Threads, busy, Listening
  <2>3. waiting' = {ver + 1} /\ ver + 1 \in 1 .. MaxSave
    <3>1. ver + 1 \in 1 .. MaxSave
      BY SMTT(40), <1>0, <2>1, BoundAssumption
    <3> QED
      BY SMTT(40), <2>1, <2>2, <3>1
  <2>4. TypeOK'
    BY SMTT(40), <1>0, <2>1 DEF TypeOK, Possible
  <2>5. Threads'
    BY SMTT(40), <1>1, <2>1, <2>2, <2>3 DEF Threads, busy
  <2> QED
    BY SMTT(40), <1>0, <2>1, <2>3, <2>4, <2>5 DEF ServiceTypeOK
<1>4. CASE QuitCommand
  <2>1. /\ exiting' = "quit"
        /\ UNCHANGED <<pc, caller, cfg, env, back, had, ok, ver, base, result, kept, mishaps>>
        /\ UNCHANGED <<up, running, completed, outcome, waiting, acked>>
    BY SMTT(40), <1>4 DEF QuitCommand, vars
  <2>2. TypeOK'
    BY SMTT(40), <1>0, <2>1 DEF TypeOK, Possible
  <2>3. Threads'
    BY <2>1 DEF Threads, busy
  <2> QED
    BY SMTT(40), <1>0, <2>1, <2>2, <2>3 DEF ServiceTypeOK
<1> QED
  BY SMTT(40), <1>2, <1>3, <1>4

\* The pass of the loop: it tells the client of a finished save the truth, and
\* leaves only when the worker is free.
LEMMA PassEffect ==
  ASSUME ServiceTypeOK, Threads, check_quit_or_reload
  PROVE  /\ UNCHANGED <<caller, cfg, env, back, had, ok, ver, base, result, kept, mishaps>>
         /\ UNCHANGED <<running, outcome>> /\ exiting' \in {"no", "quit", "reload"}
         /\ \/ completed /\ ~running /\ waiting' = {} /\ acked' = (IF result = "ok" THEN ver ELSE acked)
            \/ ~completed /\ UNCHANGED <<waiting, acked>>
         /\ completed' = FALSE
         /\ \/ UNCHANGED <<pc, up>>
            \/ ~running /\ pc = "ready" /\ pc' = "boot" /\ up' = FALSE
<1>0. ver \in Int /\ exiting \in {"no", "quit", "reload"} /\ {running, completed} \subseteq BOOLEAN
  BY DEF ServiceTypeOK, TypeOK
<1>1. /\ UNCHANGED <<caller, cfg, env, back, had, ok, ver, base, result, kept, mishaps>>
      /\ UNCHANGED <<running, outcome>> /\ Listening /\ poll /\ Leave
  BY DEF check_quit_or_reload, disk
<1>2. exiting' \in {"no", "quit", "reload"}
  BY <1>0, <1>1 DEF Leave
<1>3. CASE completed
  <2>1. ~running /\ outcome = result /\ pc = "ready"
    BY <1>3 DEF Threads
  <2>2. result = "ok" => waiting = {ver}
    BY <1>3 DEF Threads, busy
  <2>3. acked' = IF result = "ok" THEN ver ELSE acked
    BY SMTT(40), <1>1, <1>3, <2>1, <2>2 DEF poll
  <2>4. completed' = FALSE /\ waiting' = {}
    BY SMTT(40), <1>1, <1>3 DEF poll
  <2>5. UNCHANGED <<pc, up>> \/ (pc' = "boot" /\ up' = FALSE)
    BY SMTT(40), <1>1 DEF Leave
  <2> QED
    BY <1>1, <1>2, <1>3, <2>1, <2>3, <2>4, <2>5
<1>4. CASE ~completed
  <2>1. UNCHANGED <<completed, waiting, acked>>
    BY SMTT(40), <1>1, <1>4 DEF poll
  <2>2. UNCHANGED <<pc, up>> \/ (~busy' /\ pc' = "boot" /\ up' = FALSE)
    BY <1>1 DEF Leave
  <2>3. ~busy' => ~running /\ ~busy
    BY SMTT(40), <1>1, <1>4, <2>1 DEF busy
  <2>4. ~busy => pc = "ready"
    BY <1>1 DEF Threads, Listening, busy, Recovering, ServiceTypeOK, TypeOK
  <2>5. completed' = FALSE
    BY <1>0, <1>4, <2>1
  <2> QED
    BY SMTT(40), <1>1, <1>2, <1>4, <2>1, <2>2, <2>3, <2>4, <2>5
<1> QED
  BY ZenonT(40), <1>3, <1>4

\* The pass and the end of the process.
LEMMA PassThreads ==
  ASSUME ServiceTypeOK, Threads, check_quit_or_reload \/ Dies
  PROVE  ServiceTypeOK' /\ Threads'
<1>0. /\ TypeOK /\ {up, running, completed} \subseteq BOOLEAN
      /\ outcome \in {"ok", "fail"} /\ exiting \in {"no", "quit", "reload"}
      /\ waiting \subseteq 1 .. MaxSave /\ acked \in 0 .. MaxSave
      /\ ver \in 0 .. MaxSave
  BY DEF ServiceTypeOK, TypeOK
<1>1. "boot" \in Recovering /\ "ready" \in Recovering
  BY SMTT(40) DEF Recovering
<1>2. CASE check_quit_or_reload
  <2>1. /\ UNCHANGED <<caller, cfg, env, back, had, ok, ver, base, result, kept, mishaps>>
        /\ UNCHANGED <<running, outcome>> /\ exiting' \in {"no", "quit", "reload"}
        /\ \/ completed /\ ~running /\ waiting' = {} /\ acked' = (IF result = "ok" THEN ver ELSE acked)
           \/ ~completed /\ UNCHANGED <<waiting, acked>>
        /\ completed' = FALSE
        /\ \/ UNCHANGED <<pc, up>>
           \/ ~running /\ pc = "ready" /\ pc' = "boot" /\ up' = FALSE
    BY ZenonT(40), <1>2, PassEffect
  <2>2. TypeOK'
    BY <1>0, <2>1 DEF TypeOK, Possible
  <2>3. waiting' \subseteq 1 .. MaxSave /\ acked' \in 0 .. MaxSave /\ up' \in BOOLEAN
    BY ZenonT(40), <1>0, <2>1
  <2>4. Threads'
    <3>1. CASE UNCHANGED <<pc, up>>
      BY <1>1, <2>1, <3>1 DEF Threads, busy
    <3>2. CASE ~running /\ pc = "ready" /\ pc' = "boot" /\ up' = FALSE
      BY SMTT(40), <1>1, <2>1, <3>2 DEF Threads, busy
    <3> QED
      BY ZenonT(40), <2>1, <3>1, <3>2
  <2> QED
    BY ZenonT(40), <1>0, <2>1, <2>2, <2>3, <2>4 DEF ServiceTypeOK
<1>3. CASE Dies
  <2>1. /\ pc' = "boot" /\ UNCHANGED <<caller, had, ok, ver, base, result, kept>>
        /\ mishaps < MaxMishap /\ mishaps' = mishaps + 1
        /\ up' = FALSE /\ running' = FALSE /\ completed' = FALSE /\ outcome' = "fail"
        /\ waiting' = {} /\ exiting' = "no" /\ acked' = acked
    BY <1>3 DEF Dies, Kill, PowerFailure, Crash, Mishap
  <2>2. Possible' \subseteq Possible
    <3>1. CASE Kill
      BY <3>1 DEF Kill, disk, Possible
    <3>2. CASE PowerFailure
      <4>1. PICK p \in Possible : cfg' = p[1] /\ env' = p[2] /\ back' = {}
        BY <3>2 DEF PowerFailure
      <4>2. p = <<cfg', env'>>
        BY SMTT(40), <1>0, <4>1 DEF TypeOK
      <4> QED
        BY <4>1, <4>2 DEF Possible
    <3> QED
      BY <1>3, <3>1, <3>2 DEF Dies
  <2>3. mishaps' \in 0 .. MaxMishap
    BY SMTT(40), <1>0, <2>1, BoundAssumption DEF TypeOK
  <2>4. TypeOK'
    BY SMTT(40), <1>0, <2>1, <2>2, <2>3 DEF TypeOK
  <2>5. Threads'
    BY <1>1, <2>1 DEF Threads, busy
  <2> QED
    BY ZenonT(40), <1>0, <2>1, <2>4, <2>5 DEF ServiceTypeOK
<1> QED
  BY SMTT(40), <1>2, <1>3

-----------------------------------------------------------------------------
(* The invariant. *)

\* Every step of the daemon keeps the types and what the flags say.
LEMMA NextThreads ==
  ASSUME ServiceTypeOK, Threads, [ServiceNext]_allvars
  PROVE  ServiceTypeOK' /\ Threads'
<1>1. CASE UNCHANGED allvars
  <2>1. /\ UNCHANGED <<pc, caller, cfg, env, back, had, ok, ver, base, result, kept, mishaps>>
        /\ UNCHANGED <<up, running, completed, outcome, waiting, exiting, acked>>
    BY <1>1 DEF allvars, vars, service
  <2>2. TypeOK'
    BY <2>1 DEF ServiceTypeOK, TypeOK, Possible
  <2>3. ServiceTypeOK'
    BY <2>1, <2>2 DEF ServiceTypeOK
  <2>4. Threads'
    BY <2>1 DEF Threads, busy
  <2> QED
    BY <2>3, <2>4
<1>2. CASE ServiceNext
  BY SMTT(40), <1>2, TransactionThreads, LoadThreads, WorkerThreads, PassThreads DEF ServiceNext
<1> QED
  BY SMTT(40), <1>1, <1>2

\* The daemon before its first start.
LEMMA InitInv == ServiceInit => Inv
<1> SUFFICES ASSUME ServiceInit PROVE Inv
    OBVIOUS
<1>1. PICK c \in {Absent, 0}, e \in {Absent, 0} :
         /\ cfg = [path |-> c, temp |-> Absent, backup |-> Absent, journal |-> "none",
                   had |-> [cfg |-> FALSE, env |-> FALSE]]
         /\ env = [path |-> e, stage |-> Absent, backup |-> Absent]
         /\ base = <<c, e>>
  BY ZenonT(40) DEF ServiceInit, Init
<1>2. /\ pc = "boot" /\ caller = "load" /\ back = {} /\ ok = TRUE
      /\ had = [cfg |-> FALSE, env |-> FALSE]
      /\ ver = 0 /\ result = "none" /\ kept = FALSE /\ mishaps = 0
      /\ up = FALSE /\ running = FALSE /\ completed = FALSE /\ outcome = "fail"
      /\ waiting = {} /\ exiting = "no" /\ acked = 0
  BY DEF ServiceInit, Init
<1>3. Absent \in Contents /\ 0 \in Contents /\ 0 \in 0 .. MaxSave /\ 0 \in 0 .. MaxMishap
  BY BoundAssumption DEF Contents
<1>4. cfg \in CfgDir /\ env \in EnvDir
  BY <1>1, <1>3 DEF CfgDir, EnvDir, Old, JournalStates
<1>5. Possible = {<<cfg, env>>}
  BY SMTT(40), <1>2 DEF Possible
<1>6. base \in Contents \X Contents
  BY SMTT(40), <1>1, <1>3
<1>7. ServiceTypeOK
  <2>1. Possible \subseteq CfgDir \X EnvDir /\ had \in Old
    BY <1>2, <1>4, <1>5 DEF Old
  <2>2. TypeOK
    BY ZenonT(40), <1>2, <1>3, <1>6, <2>1 DEF TypeOK
  <2> QED
    BY ZenonT(40), <1>2, <1>3, <2>2 DEF ServiceTypeOK
<1>8. Threads
  BY <1>2 DEF Threads, busy, Recovering
<1>9. cfg.journal = "none" /\ cfg.path = c /\ env.path = e
  BY SMTT(40), <1>1
<1>10. Recovered(<<cfg, env>>) = <<cfg.path, env.path>> /\ Recovered(<<cfg, env>>) = base
  BY ZenonT(40), <1>1, <1>9 DEF Recovered
<1>11. \A p \in Possible : Good(p)
  BY SMTT(40), <1>2, <1>5, <1>9, <1>10 DEF Good, Unfinished
<1>12. Decided
  BY SMTT(40), <1>5, <1>10 DEF Decided
<1>13. AtLabel
  <2>1. InRecovery
    BY <1>2 DEF InRecovery
  <2>2. InSave
    BY <1>2 DEF InSave
  <2>3. Committed
    BY <1>2 DEF Committed
  <2> QED
    BY <2>1, <2>2, <2>3 DEF AtLabel
<1> QED
  BY SMTT(40), <1>7, <1>8, <1>11, <1>12, <1>13 DEF Inv, Files, AtLabel

\* A removal that mattered and failed is not forgotten.
LEMMA KeptStays ==
  ASSUME ServiceTypeOK, [ServiceNext]_allvars, kept
  PROVE  kept'
<1>1. CASE recover_prog_cfg_save \/ Stage \/ Look \/ MoveOld \/ InstallNew \/ Undo \/ Forget
  BY ZenonT(40), <1>1 DEF recover_prog_cfg_save, Recover, RestoreFirst, RestoreSecond, RestoreResult, DropBackups,
     RecoverTail, Stage, Look, MoveOld, InstallNew, Undo, Forget, Unlink, RemoveDir, RenameCfg,
     RenameEnv, write_save_journal, SyncJournal, sync_transaction_directories, Step, Goto, Fail
<1>2. CASE Begin \/ Report
  BY ZenonT(40), <1>2 DEF Begin, Report, Return
<1>3. CASE \/ Start \/ Loaded \/ ThreadEnds \/ SaveCommand \/ ReloadCommand \/ QuitCommand
           \/ check_quit_or_reload \/ Dies \/ UNCHANGED allvars
  BY ZenonT(40), <1>3 DEF Start, Loaded, ThreadEnds, SaveCommand, ReloadCommand, QuitCommand,
     check_quit_or_reload, Dies, Kill, PowerFailure, Crash, submit, Save, load_prog_cfg, Call,
     Return, vars, allvars
<1> QED
  BY ZenonT(40), <1>1, <1>2, <1>3 DEF ServiceNext, Transaction, save_prog_cfg

\* One more save call: what the disk may hold before and after it.
LEMMA SaveCallKeepsFiles ==
  ASSUME TypeOK, Files, ~kept', result = "none",
         Stage \/ Look \/ MoveOld \/ InstallNew \/ Undo \/ Forget
  PROVE  Files' /\ UNCHANGED <<ver, base, result>>
<1>1. CASE Step("prepare", [cfg EXCEPT !.journal = "prepared", !.had = had], env, "prepared")
  BY <1>1, PrepareStep
<1>2. CASE Step("note_moved", [cfg EXCEPT !.journal = "old_moved", !.had = had], env, "old_moved")
  BY <1>2, NoteMovedStep
<1>3. CASE Step("note_installed", [cfg EXCEPT !.journal = "new_installed", !.had = had], env,
                "new_installed")
  BY <1>3, NoteInstalledStep
<1>4. CASE Forget
  BY SMTT(40), <1>4, ForgetSteps
<1>5. CASE SyncJournal("new_installed", "forget_cfg", "failed")
  BY SMTT(40), <1>5, SyncInstalledStep, QuietKeeps DEF Quiet
<1>6. ASSUME ~Step("prepare", [cfg EXCEPT !.journal = "prepared", !.had = had], env, "prepared"),
             ~Step("note_moved", [cfg EXCEPT !.journal = "old_moved", !.had = had], env, "old_moved"),
             ~Step("note_installed", [cfg EXCEPT !.journal = "new_installed", !.had = had], env,
                   "new_installed"),
             ~SyncJournal("new_installed", "forget_cfg", "failed"), ~Forget
      PROVE  Files' /\ UNCHANGED <<ver, base, result>>
  <2>1. Quiet /\ AtLabel'
    BY SMTT(40), <1>6, StageSteps, LookStep, MoveOldSteps, InstallNewSteps, UndoSteps
  <2> QED
    BY <2>1, QuietKeeps DEF Quiet
<1> QED
  BY SMTT(40), <1>1, <1>2, <1>3, <1>4, <1>5, <1>6

\* The steps of the daemon outside a transaction leave the files alone.
LEMMA OutsideKeepsFiles ==
  ASSUME ServiceTypeOK, Threads, Files, ~kept',
         \/ Start \/ Loaded \/ ThreadEnds \/ SaveCommand \/ ReloadCommand \/ QuitCommand
         \/ check_quit_or_reload \/ UNCHANGED allvars
  PROVE  Files' /\ Possible' = Possible /\ UNCHANGED <<ver, base>>
<1> DEFINE Aside == /\ UNCHANGED <<cfg, env, back, ver, base>>
                    /\ pc' \in {"boot", "ready", "recover"} \/ UNCHANGED <<pc, had, ok>>
                    /\ result' # "ok" \/ UNCHANGED result
<1>a. ASSUME Start PROVE Aside
  BY ZenonT(40), <1>a DEF Start, load_prog_cfg, Call, Return, Leave, disk
<1>b. ASSUME Loaded PROVE Aside
  BY <1>b DEF Loaded, Call, Return, Leave, disk, vars
<1>c. ASSUME ThreadEnds PROVE Aside
  BY <1>c DEF ThreadEnds, vars, disk
<1>d. ASSUME SaveCommand PROVE Aside
  BY <1>d DEF SaveCommand, submit, Save, Call, vars, disk
<1>e. ASSUME ReloadCommand PROVE Aside
  BY <1>e DEF ReloadCommand, vars, disk, load_prog_cfg, Call
<1>f. ASSUME QuitCommand PROVE Aside
  BY <1>f DEF QuitCommand, vars, disk
<1>g. ASSUME check_quit_or_reload PROVE Aside
  BY <1>g DEF check_quit_or_reload, vars, disk, load_prog_cfg, Call, Return, Leave
<1>h. ASSUME UNCHANGED allvars PROVE Aside
  BY <1>h DEF allvars, vars
<1>1. Aside
  BY <1>a, <1>b, <1>c, <1>d, <1>e, <1>f, <1>g, <1>h
<1> QED
  BY SMTT(40), <1>1, ElsewhereStep

\* Every step keeps the invariant.
LEMMA NextInv ==
  ASSUME Inv, [ServiceNext]_allvars
  PROVE  Inv'
<1>0. ServiceTypeOK /\ Threads /\ TypeOK /\ ServiceTypeOK' /\ Threads'
  BY NextThreads DEF Inv, ServiceTypeOK
<1> SUFFICES ASSUME ~kept' PROVE Files'
    BY <1>0 DEF Inv
<1>1. ~kept /\ Files
  BY <1>0, KeptStays DEF Inv
<1>2. CASE recover_prog_cfg_save
  BY SMTT(40), <1>0, <1>1, <1>2, RecoveryKeepsFiles
<1>3. CASE Stage \/ Look \/ MoveOld \/ InstallNew \/ Undo \/ Forget
  <2>1. pc \notin Recovering
    BY SMTT(40), <1>0, <1>3, SaveForms
  <2>2. result = "none"
    BY SMTT(40), <1>0, <2>1 DEF Threads, Recovering
  <2> QED
    BY SMTT(40), <1>0, <1>1, <1>3, <2>2, SaveCallKeepsFiles
<1>4. CASE Begin
  <2>1. result = "none"
    BY SMTT(40), <1>0, <1>4 DEF Threads, Begin
  <2> QED
    BY SMTT(40), <1>0, <1>1, <1>4, <2>1, BeginStep
<1>5. CASE Report
  BY SMTT(40), <1>0, <1>1, <1>5, ReportStep
<1>6. CASE \/ Start \/ Loaded \/ ThreadEnds \/ SaveCommand \/ ReloadCommand \/ QuitCommand
           \/ check_quit_or_reload \/ UNCHANGED allvars
  BY SMTT(40), <1>0, <1>1, <1>6, OutsideKeepsFiles
<1>7. CASE Dies
  <2>1. CASE Kill
    <3>1. UNCHANGED <<cfg, env, back, ver, base, result>> /\ pc' = "boot"
      BY <2>1 DEF Kill, Crash, disk
    <3> QED
      BY SMTT(40), <1>1, <3>1, ElsewhereStep
  <2>2. CASE PowerFailure
    BY SMTT(40), <1>0, <1>1, <2>2, PowerFailureStep
  <2> QED
    BY SMTT(40), <1>7, <2>1, <2>2 DEF Dies
<1> QED
  BY SMTT(40), <1>2, <1>3, <1>4, <1>5, <1>6, <1>7 DEF ServiceNext, Transaction, save_prog_cfg

\* The inductive invariant holds throughout.
THEOREM ServiceInductive == ServiceSpec => []Inv
<1>1. Inv /\ [ServiceNext]_allvars => Inv'
  BY NextInv
<1> QED
  BY InitInv, <1>1, PTL DEF ServiceSpec

\* Type correctness of the service and of the files.
THEOREM TypeCorrect == ServiceSpec => []ServiceTypeOK
<1>1. Inv => ServiceTypeOK
  BY SMTT(40) DEF Inv
<1> QED
  BY <1>1, ServiceInductive, PTL

\* Whenever the loop may take a command and the worker says it is free, no
\* thread is in the files: the two flags of persistence_worker and the place of
\* the loop together exclude a second writer.
THEOREM FilesAreExclusive == ServiceSpec => []FreeMeansAlone
<1>1. Inv => FreeMeansAlone
  <2> SUFFICES ASSUME Inv, Listening, ~busy PROVE pc = "ready"
      BY DEF FreeMeansAlone
  <2>1. Threads /\ caller \in {"load", "save"}
    BY SMTT(40) DEF Inv, ServiceTypeOK, TypeOK
  <2> QED
    BY <2>1 DEF Threads, Listening, busy, Recovering
<1> QED
  BY <1>1, ServiceInductive, PTL

\* One client waits for each save, and none without one.
THEOREM OneClientPerSave == ServiceSpec => []OneSaveOneClient
<1>1. Inv => OneSaveOneClient
  <2> SUFFICES ASSUME Inv PROVE OneSaveOneClient
      OBVIOUS
  <2>1. CASE busy
    <3>1. waiting = {ver} \/ waiting = {ver + 1}
      BY <2>1 DEF Inv, Threads
    <3> QED
      BY <2>1, <3>1 DEF OneSaveOneClient
  <2>2. CASE ~busy
    <3>1. waiting = {}
      BY <2>2 DEF Inv, Threads
    <3> QED
      BY <2>2, <3>1 DEF OneSaveOneClient
  <2> QED
    BY SMTT(40), <2>1, <2>2
<1> QED
  BY <1>1, ServiceInductive, PTL

-----------------------------------------------------------------------------
(* What a failed save leaves. *)

\* Until the journal of a save is removed again, a disk without a journal is
\* one that the save has not replaced anything on.
Open == pc \notin Recovering \cup {"unjournaled", "saved"}
Untouched == ~kept /\ Open => \A p \in Possible : p[1].journal = "none" => Recovered(p) = base

\* The call that a save makes leaves the contents without a journal as they
\* are, writes a journal, or comes after the commit.
LEMMA SaveCallUntouched ==
  ASSUME TypeOK, Files, ~kept', result = "none", Files', Open',
         Stage \/ Look \/ MoveOld \/ InstallNew \/ Undo \/ Forget
  PROVE  \/ cfg'.journal # "none"
         \/ cfg'.journal = cfg.journal /\ Recovered(<<cfg', env'>>) = Recovered(<<cfg, env>>)
<1>1. CASE Step("prepare", [cfg EXCEPT !.journal = "prepared", !.had = had], env, "prepared")
  BY SMTT(40), <1>1, JournalEffect DEF JournalStates
<1>2. CASE Step("note_moved", [cfg EXCEPT !.journal = "old_moved", !.had = had], env, "old_moved")
  BY SMTT(40), <1>2, JournalEffect DEF JournalStates
<1>3. CASE Step("note_installed", [cfg EXCEPT !.journal = "new_installed", !.had = had], env,
                "new_installed")
  BY SMTT(40), <1>3, JournalEffect DEF JournalStates
<1>4. CASE Forget
  <2>1. CASE pc' \in {"forget_env", "forgotten", "unjournal"}
    BY SMTT(40), <2>1 DEF Files, Committed
  <2>2. CASE pc' \notin {"forget_env", "forgotten", "unjournal"}
    <3>1. pc' # "unjournaled" /\ pc' # "saved"
      BY SMTT(40) DEF Open
    <3>2. sync_transaction_directories("forgotten", "unjournal", "failed")
      BY ZenonT(40), <1>4, <2>2, <3>1
         DEF Forget, Unlink, RemoveDir, SyncJournal, Step, Goto, Fail
    <3>3. cfg' = cfg /\ env' = env
      BY ZenonT(40), <3>2 DEF sync_transaction_directories, sync_directory
    <3> QED
      BY <3>3
  <2> QED
    BY <2>1, <2>2
<1>5. CASE SyncJournal("new_installed", "forget_cfg", "failed")
  BY SMTT(40), <1>5, SyncInstalledStep DEF Quiet
<1>6. ASSUME ~Step("prepare", [cfg EXCEPT !.journal = "prepared", !.had = had], env, "prepared"),
             ~Step("note_moved", [cfg EXCEPT !.journal = "old_moved", !.had = had], env, "old_moved"),
             ~Step("note_installed", [cfg EXCEPT !.journal = "new_installed", !.had = had], env,
                   "new_installed"),
             ~SyncJournal("new_installed", "forget_cfg", "failed"), ~Forget
      PROVE  cfg'.journal = cfg.journal /\ Recovered(<<cfg', env'>>) = Recovered(<<cfg, env>>)
  <2>1. Quiet
    BY SMTT(40), <1>6, StageSteps, LookStep, MoveOldSteps, InstallNewSteps, UndoSteps
  <2> QED
    BY <2>1 DEF Quiet
<1> QED
  BY SMTT(40), <1>1, <1>2, <1>3, <1>4, <1>5, <1>6

\* Only the last two calls of a save come after the removal of its journal.
LEMMA OpenBefore ==
  ASSUME Stage \/ Look \/ MoveOld \/ InstallNew \/ Undo \/ Forget, pc \in {"unjournaled", "saved"}
  PROVE  pc' \in {"unjournaled", "saved"}
  BY ZenonT(40) DEF Stage, Look, MoveOld, InstallNew, Undo, Forget, Unlink, RemoveDir, RenameCfg,
     RenameEnv, write_save_journal, SyncJournal, sync_transaction_directories, Step, Goto, Fail

\* Every step keeps it.
LEMMA NextUntouched ==
  ASSUME Inv, Inv', Untouched, [ServiceNext]_allvars
  PROVE  Untouched'
<1> SUFFICES ASSUME ~kept', Open'
             PROVE  \A p \in Possible' : p[1].journal = "none" => Recovered(p) = base'
    BY DEF Untouched
<1>0. ServiceTypeOK /\ Threads /\ TypeOK
  BY SMTT(40) DEF Inv, ServiceTypeOK
<1>1. ~kept /\ Files /\ Files'
  BY <1>0, KeptStays DEF Inv
<1>2. CASE recover_prog_cfg_save
  <2>1. pc' \in Recovering
    BY SMTT(40), <1>0, <1>2, RecoveryForms
  <2> QED
    BY <2>1 DEF Open
<1>3. CASE Stage \/ Look \/ MoveOld \/ InstallNew \/ Undo \/ Forget
  <2>1. /\ pc \notin Recovering /\ base' = base
        /\ Possible' \subseteq Possible \cup {<<cfg', env'>>}
    BY SMTT(40), <1>0, <1>3, SaveForms DEF Formed
  <2>2. result = "none"
    BY SMTT(40), <1>0, <2>1 DEF Threads, Recovering
  <2>3. Open
    BY SMTT(40), <1>3, <2>1, OpenBefore DEF Open
  <2>4. <<cfg, env>> \in Possible /\ \A p \in Possible : p[1].journal = "none" => Recovered(p) = base
    BY ZenonT(40), <1>1, <2>3 DEF Untouched, Possible
  <2>5. cfg'.journal = "none" => Recovered(<<cfg', env'>>) = base
    BY SMTT(40), <1>0, <1>1, <1>3, <2>2, <2>4, SaveCallUntouched
  <2> QED
    BY SMTT(40), <2>1, <2>4, <2>5
<1>4. CASE Begin
  <2>1. result = "none"
    BY SMTT(40), <1>0, <1>4 DEF Threads, Begin
  <2> QED
    BY SMTT(40), <1>0, <1>1, <1>4, <2>1, BeginStep
<1>5. CASE Report
  <2>1. pc' = "ready"
    BY <1>5 DEF Report, Return
  <2> QED
    BY <2>1 DEF Open, Recovering
<1>6. CASE \/ Start \/ Loaded \/ ThreadEnds \/ SaveCommand \/ ReloadCommand \/ QuitCommand
           \/ check_quit_or_reload \/ UNCHANGED allvars
  <2>1. pc' \in {"boot", "ready", "recover"} \/ UNCHANGED pc
    <3>1. CASE Start \/ Loaded \/ UNCHANGED allvars
      BY ZenonT(40), <3>1 DEF Start, Loaded, load_prog_cfg, Call, Return, Leave, vars, allvars
    <3>2. CASE ThreadEnds \/ SaveCommand \/ QuitCommand
      BY ZenonT(40), <3>2 DEF ThreadEnds, SaveCommand, QuitCommand, submit, Save, Call, vars
    <3>3. CASE ReloadCommand \/ check_quit_or_reload
      BY ZenonT(40), <3>3 DEF ReloadCommand, check_quit_or_reload, load_prog_cfg, Call, Return, Leave,
         vars
    <3> QED
      BY <1>6, <3>1, <3>2, <3>3
  <2>2. Open
    BY SMTT(40), <2>1 DEF Open, Recovering
  <2>3. Possible' = Possible /\ base' = base
    BY SMTT(40), <1>0, <1>1, <1>6, OutsideKeepsFiles
  <2> QED
    BY SMTT(40), <1>1, <2>2, <2>3 DEF Untouched
<1>7. CASE Dies
  <2>1. pc' = "boot"
    BY <1>7 DEF Dies, Kill, PowerFailure, Crash
  <2> QED
    BY <2>1 DEF Open, Recovering
<1> QED
  BY SMTT(40), <1>2, <1>3, <1>4, <1>5, <1>6, <1>7 DEF ServiceNext, Transaction, save_prog_cfg

\* Whatever call failed and whenever the daemon is killed or the power fails,
\* recovery finds the old pair of files or the new one, the new one once the
\* save was reported successful, and the old one when it is about to be reported
\* failed, unless the journal already says new_installed.
THEOREM CrashesAreRecoverable == ServiceSpec => []EveryCrashIsRecoverable
<1>1. ServiceInit => Untouched
  BY ZenonT(40) DEF ServiceInit, Init, Untouched, Open, Recovering
<1>2. Inv /\ Inv' /\ Untouched /\ [ServiceNext]_allvars => Untouched'
  BY NextUntouched
<1>3. Inv /\ Untouched => EveryCrashIsRecoverable
  <2> SUFFICES ASSUME Inv, Untouched, ~kept, NEW p \in Possible
               PROVE  /\ Recovered(p) \in {base, New}
                      /\ result = "ok" => Recovered(p) = New
                      /\ pc = "failed" => Recovered(p) = base \/ p[1].journal = "new_installed"
      BY DEF EveryCrashIsRecoverable
  <2>1. Good(p)
    BY DEF Inv, Files
  <2>2. p[1] \in CfgDir
    BY SMTT(40) DEF Inv, ServiceTypeOK, TypeOK
  <2>3. p[1].journal \in {"none", "new_installed"} \/ Unfinished(p[1])
    BY SMTT(40), <2>2 DEF CfgDir, JournalStates, Unfinished
  <2>4. pc = "failed" => Open
    BY DEF Open, Recovering
  <2> QED
    BY SMTT(40), <2>1, <2>3, <2>4 DEF Good, Untouched
<1> QED
  BY <1>1, <1>2, <1>3, ServiceInductive, PTL DEF ServiceSpec

-----------------------------------------------------------------------------
(* The service implements an atomic store. *)

Lasting == {Version(Recovered(p)) : p \in Possible}
Saving == pc \notin Recovering
Done == result = "ok" /\ busy

\* A step that adds no outcome adds no version, and one is always left.
LEMMA FewerVersions ==
  /\ Narrows => Lasting' \subseteq Lasting
  /\ Lasting # {} /\ Lasting' # {}
<1>1. <<cfg, env>> \in Possible /\ <<cfg', env'>> \in Possible'
  BY DEF Possible
<1>2. Lasting # {} /\ Lasting' # {}
  BY <1>1 DEF Lasting
<1>3. ASSUME Narrows PROVE Lasting' \subseteq Lasting
  BY SMTT(40), <1>3 DEF Narrows, Lasting
<1> QED
  BY SMTT(40), <1>2, <1>3

\* A step that leaves the save's numbers, flags and phase alone and adds no
\* outcome is a step of the store.
LEMMA SettleStep ==
  ASSUME Narrows, UNCHANGED <<ver, base, acked, kept>>, Saving' = Saving, Done' = Done
  PROVE  Store!Settle
  BY SMTT(40), FewerVersions DEF Store!Settle, Lasting, Saving, Done

\* The daemon before its first start has version 0.
LEMMA StoreInit == ServiceInit => Store!Init
<1> SUFFICES ASSUME ServiceInit PROVE Store!Init
    OBVIOUS
<1>1. PICK c \in {Absent, 0}, e \in {Absent, 0} :
         /\ cfg = [path |-> c, temp |-> Absent, backup |-> Absent, journal |-> "none",
                   had |-> [cfg |-> FALSE, env |-> FALSE]]
         /\ env = [path |-> e, stage |-> Absent, backup |-> Absent]
         /\ base = <<c, e>>
  BY ZenonT(40) DEF ServiceInit, Init
<1>2. /\ pc = "boot" /\ back = {} /\ ver = 0 /\ result = "none" /\ kept = FALSE /\ acked = 0
  BY SMTT(40) DEF ServiceInit, Init
<1>3. cfg.journal = "none" /\ cfg.path = c /\ env.path = e
  BY <1>1
<1>4. Recovered(<<cfg, env>>) = base
  BY SMTT(40), <1>1, <1>3 DEF Recovered
<1>5. Version(base) = 0
  <2>1. base[1] = c /\ base[2] = e
    BY <1>1
  <2>2. {base[1], base[2]} \subseteq {Absent, 0} /\ ~(base[1] > 0)
    BY <2>1 DEF Absent
  <2> QED
    BY SMTT(40), <2>2 DEF Version
<1>6. Possible = {<<cfg, env>>}
  BY SMTT(40), <1>2 DEF Possible
<1>7. Lasting = {0}
  BY SMTT(40), <1>4, <1>5, <1>6 DEF Lasting
<1> QED
  BY ZenonT(40), <1>2, <1>5, <1>7 DEF Store!Init, Lasting, Recovering

\* The pair a save writes is loaded as the version of that save.
LEMMA NewVersion == ver \in Nat /\ ver > 0 => Version(New) = ver
<1>1. New[1] = ver /\ New[2] = ver
  BY DEF New
<1>2. ver \in Nat /\ ver > 0 => ~({New[1], New[2]} \subseteq {Absent, 0})
  BY <1>1 DEF Absent
<1> QED
  BY <1>1, <1>2 DEF Version

\* The calls of a save take the store from one version to the next.
LEMMA SaveStores ==
  ASSUME Inv, Inv', ~kept', ~kept, Transaction, ~recover_prog_cfg_save
  PROVE  Store!Next
<1>0. /\ TypeOK /\ TypeOK' /\ Threads /\ Threads' /\ Files /\ Files'
      /\ kept' = kept /\ ver \in Nat /\ ver' \in Nat
      /\ {running, completed} \subseteq BOOLEAN
  BY DEF Inv, ServiceTypeOK, TypeOK
<1>1. acked' = acked /\ running' = running /\ completed' = completed /\ save_prog_cfg
  BY DEF Transaction, service
<1>2. CASE Stage \/ Look \/ MoveOld \/ InstallNew \/ Undo \/ Forget
  <2>1. pc \notin Recovering /\ pc' \notin Recovering /\ UNCHANGED <<ver, base, result>>
    BY SMTT(40), <1>0, <1>2, SaveForms DEF Formed
  <2>2. ver > 0
    BY SMTT(40), <1>0, <2>1 DEF Threads
  <2>3. Lasting' \subseteq {Version(base), ver}
    <3>1. Version(New) = ver
      BY SMTT(40), <1>0, <2>2, NewVersion
    <3>2. \A p \in Possible' : Recovered(p) = base \/ Recovered(p) = New
      BY SMTT(40), <1>0, <2>1 DEF Files, Good, New
    <3> QED
      BY SMTT(40), <3>1, <3>2 DEF Lasting
  <2>4. Done' = Done
    BY SMTT(40), <1>1, <2>1 DEF Done, busy
  <2>5. Store!Progress
    BY SMTT(40), <1>0, <1>1, <2>1, <2>3, <2>4, FewerVersions DEF Store!Progress, Lasting, Saving, Done
  <2> QED
    BY SMTT(40), <2>5 DEF Store!Next
<1>3. CASE Begin
  <2>1. /\ pc = "recovered" /\ pc' = "stage" /\ caller = "save" /\ ver' = ver + 1
        /\ result' = result
    BY ZenonT(40), <1>3 DEF Begin
  <2>2. result = "none" /\ pc \in Recovering /\ pc' \notin Recovering
    BY SMTT(40), <1>0, <2>1 DEF Threads, Recovering
  <2>3. \A p \in Possible \cup Possible' : Recovered(p) = base'
    BY SMTT(40), <1>0, <1>3, <2>2, BeginStep
  <2>4. Lasting = {Version(base')} /\ Lasting' = {Version(base')}
    BY SMTT(40), <2>3, FewerVersions DEF Lasting
  <2>5. Store!Begin
    BY SMTT(40), <1>0, <1>1, <2>1, <2>2, <2>4 DEF Store!Begin, Lasting
  <2> QED
    BY <2>5 DEF Store!Next
<1>4. CASE Report
  <2>1. /\ UNCHANGED <<ver, base>> /\ Possible' = Possible
        /\ result' = "ok" => \A p \in Possible : Recovered(p) = New
    BY SMTT(40), <1>0, <1>4, ReportStep
  <2>2. pc \in {"saved", "failed"} /\ pc' = "ready" /\ result' \in {"ok", "fail"}
    BY <1>4 DEF Report, Return
  <2>3. pc \notin Recovering /\ pc' \in Recovering
    BY SMTT(40), <2>2 DEF Recovering
  <2>4. running /\ running' /\ ver > 0
    BY SMTT(40), <1>0, <1>1, <2>2, <2>3 DEF Threads
  <2>5. Lasting' = Lasting
    BY <2>1 DEF Lasting
  <2>6. CASE result' = "ok"
    <3>1. Version(New) = ver
      BY SMTT(40), <1>0, <2>4, NewVersion
    <3>2. Lasting = {ver}
      BY ZenonT(40), <2>1, <2>6, <3>1, FewerVersions DEF Lasting
    <3>3. Store!Succeed
      BY SMTT(40), <1>0, <1>1, <2>1, <2>3, <2>4, <2>5, <2>6, <3>2 DEF Store!Succeed, Lasting, busy
    <3> QED
      BY <3>3 DEF Store!Next
  <2>7. CASE result' # "ok"
    <3>1. Store!Fail
      BY SMTT(40), <1>0, <1>1, <2>1, <2>3, <2>5, <2>7, FewerVersions DEF Store!Fail, Lasting
    <3> QED
      BY SMTT(40), <3>1 DEF Store!Next
  <2> QED
    BY SMTT(40), <2>6, <2>7
<1> QED
  BY SMTT(40), <1>1, <1>2, <1>3, <1>4 DEF save_prog_cfg

\* Everything else settles between the versions, tells the client, or cuts the
\* save off.
LEMMA OthersStore ==
  ASSUME Inv, Inv', ~kept', ~kept, ServiceNext, ~Transaction \/ recover_prog_cfg_save
  PROVE  Store!Next
<1>0. /\ ServiceTypeOK /\ TypeOK /\ Threads /\ Threads' /\ Files /\ Files'
      /\ kept' = kept /\ ver \in Nat
      /\ {running, completed} \subseteq BOOLEAN
  BY SMTT(40) DEF Inv, ServiceTypeOK, TypeOK
<1>1. "boot" \in Recovering /\ "ready" \in Recovering /\ "recover" \in Recovering
      /\ "recovered" \in Recovering /\ "unrecovered" \in Recovering
  BY SMTT(40) DEF Recovering
<1>2. CASE Transaction
  <2>1. acked' = acked /\ running' = running /\ completed' = completed /\ recover_prog_cfg_save
    BY SMTT(40), <1>2 DEF Transaction, service
  <2>2. Narrows /\ UNCHANGED <<ver, base, result>>
    BY SMTT(40), <1>0, <2>1, RecoveryKeepsFiles
  <2>3. pc \in Recovering /\ pc' \in Recovering
    BY SMTT(40), <1>0, <2>1, RecoveryForms
  <2>4. Saving' = Saving /\ Done' = Done
    BY SMTT(40), <2>1, <2>2, <2>3 DEF Saving, Done, busy
  <2> QED
    BY SMTT(40), <1>0, <2>1, <2>2, <2>4, SettleStep DEF Store!Next
<1>3. CASE Dies
  <2>1. /\ pc' = "boot" /\ UNCHANGED <<ver, base, result, acked>>
        /\ running' = FALSE /\ completed' = FALSE
    BY <1>3 DEF Dies, Kill, PowerFailure, Crash
  <2>2. Narrows
    <3>1. CASE Kill
      BY <3>1 DEF Kill, disk, Narrows, Possible
    <3>2. CASE PowerFailure
      BY SMTT(40), <1>0, <3>2, PowerFailureStep
    <3> QED
      BY SMTT(40), <1>3, <3>1, <3>2 DEF Dies
  <2>3. ~busy'
    BY SMTT(40), <2>1 DEF busy
  <2>4. Store!Fail
    BY SMTT(40), <1>0, <1>1, <2>1, <2>2, <2>3, FewerVersions DEF Store!Fail, Lasting
  <2> QED
    BY SMTT(40), <2>4 DEF Store!Next
<1>4. CASE Start \/ Loaded \/ ThreadEnds \/ SaveCommand \/ ReloadCommand \/ QuitCommand
  <2>1. Possible' = Possible /\ UNCHANGED <<ver, base>>
    BY SMTT(40), <1>0, <1>4, OutsideKeepsFiles
  <2>2. Narrows
    BY SMTT(40), <2>1 DEF Narrows
  <2>3. acked' = acked
    BY <1>4 DEF Start, Loaded, ThreadEnds, SaveCommand, ReloadCommand, QuitCommand, service
  <2>4. Saving' = Saving
    <3>1. pc' = pc \/ (pc \in Recovering /\ pc' \in Recovering)
      <4>1. CASE Start \/ Loaded \/ ThreadEnds \/ QuitCommand
        BY SMTT(40), <1>1, <4>1 DEF Start, Loaded, ThreadEnds, QuitCommand, load_prog_cfg, Call, Return, vars
      <4>2. CASE SaveCommand \/ ReloadCommand
        <5>1. Listening /\ ~busy /\ pc' = "recover"
          BY ZenonT(40), <4>2 DEF SaveCommand, ReloadCommand, submit, Save, load_prog_cfg, Call
        <5>2. pc = "ready"
          BY SMTT(40), <1>0, <5>1 DEF Threads, Listening, busy, Recovering, TypeOK
        <5> QED
          BY SMTT(40), <1>1, <5>1, <5>2
      <4> QED
        BY ZenonT(40), <1>4, <4>1, <4>2
    <3> QED
      BY <3>1 DEF Saving
  <2>5. Done' = Done
    <3>1. CASE Start \/ ReloadCommand \/ QuitCommand
      BY SMTT(40), <3>1 DEF Start, ReloadCommand, QuitCommand, load_prog_cfg, vars, service, Done, busy
    <3>2. CASE ThreadEnds
      BY <3>2 DEF ThreadEnds, vars, Done, busy
    <3>3. CASE SaveCommand
      BY <3>3 DEF SaveCommand, submit, Save, Done, busy
    <3>4. CASE Loaded
      <4>1. running' = running /\ completed' = completed
        BY SMTT(40), <3>4 DEF Loaded, service
      <4>2. result' = result \/ (result' = "fail" /\ pc = "unrecovered" /\ caller = "save")
        BY ZenonT(40), <3>4 DEF Loaded, Return
      <4>3. pc = "unrecovered" /\ caller = "save" => result = "none"
        BY <1>0 DEF Threads
      <4> QED
        BY SMTT(40), <4>1, <4>2, <4>3 DEF Done, busy
    <3> QED
      BY SMTT(40), <1>4, <3>1, <3>2, <3>3, <3>4
  <2> QED
    BY SMTT(40), <1>0, <2>1, <2>2, <2>3, <2>4, <2>5, SettleStep DEF Store!Next
<1>5. CASE check_quit_or_reload
  <2>1. Possible' = Possible /\ UNCHANGED <<ver, base>>
    BY SMTT(40), <1>0, <1>5, OutsideKeepsFiles
  <2>2. /\ UNCHANGED <<running, result>> /\ completed' = FALSE
        /\ \/ completed /\ ~running /\ acked' = (IF result = "ok" THEN ver ELSE acked)
           \/ ~completed /\ UNCHANGED acked
        /\ \/ UNCHANGED pc
           \/ pc = "ready" /\ pc' = "boot"
    BY ZenonT(40), <1>0, <1>5, PassEffect
  <2>3. Saving' = Saving
    BY <1>1, <2>2 DEF Saving
  <2>4. Lasting' = Lasting
    BY <2>1 DEF Lasting
  <2>5. CASE completed /\ result = "ok"
    <3>1. Done /\ ~Done' /\ acked' = ver
      BY SMTT(40), <2>2, <2>5 DEF Done, busy
    <3>2. Store!Tell
      BY SMTT(40), <1>0, <2>1, <2>3, <2>4, <3>1 DEF Store!Tell, Lasting, Saving, Done
    <3> QED
      BY <3>2 DEF Store!Next
  <2>6. CASE ~(completed /\ result = "ok")
    <3>1. Done' = Done /\ acked' = acked
      BY SMTT(40), <1>0, <2>2, <2>6 DEF Done, busy
    <3>2. Narrows
      BY <2>1 DEF Narrows
    <3> QED
      BY SMTT(40), <1>0, <2>1, <2>3, <3>1, <3>2, SettleStep DEF Store!Next
  <2> QED
    BY SMTT(40), <2>5, <2>6
<1> QED
  BY ZenonT(40), <1>2, <1>3, <1>4, <1>5 DEF ServiceNext, Transaction

\* Files, journal, renames and syncs, recovery, worker flags and client list
\* together are one store that is replaced atomically.
THEOREM ServiceIsAtomic == ServiceSpec => StoreIsAtomic
<1>1. Inv /\ Inv' /\ [ServiceNext]_allvars => [Store!Next]_(Store!vars)
  <2> SUFFICES ASSUME Inv, Inv', [ServiceNext]_allvars PROVE [Store!Next]_(Store!vars)
      BY ZenonT(40)
  <2>1. CASE UNCHANGED allvars
    BY <2>1 DEF allvars, vars, service, Store!vars, Possible, busy
  <2>2. CASE kept'
    BY <2>2 DEF Store!Next, Store!Excuse
  <2>3. CASE ServiceNext /\ ~kept'
    <3>1. ~kept
      BY ZenonT(40), <2>3, KeptStays DEF Inv
    <3> QED
      BY SMTT(40), <2>3, <3>1, SaveStores, OthersStore
  <2> QED
    BY SMTT(40), <2>1, <2>2, <2>3
<1> QED
  BY <1>1, StoreInit, ServiceInductive, PTL DEF ServiceSpec, StoreIsAtomic, Store!Spec

\* A store that moves on by its steps keeps what was acknowledged.
LEMMA StoreStep ==
  ASSUME Store!IInv, Store!Next \/ UNCHANGED Store!vars
  PROVE  Store!IInv'
<1> SUFFICES ASSUME ~kept' PROVE Store!IInv'
    BY ZenonT(40) DEF Store!IInv
<1>0. ~kept /\ kept' = kept
  BY SMTT(40), SMTT(41) DEF Store!Next, Store!vars, Store!Excuse, Store!Begin, Store!Progress, Store!Succeed,
         Store!Fail, Store!Tell, Store!Settle
<1>1. /\ ver \in Nat /\ Version(base) \in Nat /\ acked \in Nat /\ Lasting \subseteq 0 .. ver
      /\ \A v \in Lasting : v >= acked
      /\ Saving => acked <= Version(base) /\ Version(base) < ver /\ ~Done
      /\ Done => Lasting = {ver}
  BY ZenonT(40), <1>0 DEF Store!IInv, Lasting, Saving, Done
<1> DEFINE L == Lasting
           V == Version(base)
           G == /\ ver' \in Nat /\ V' \in Nat /\ acked' \in Nat /\ L' \subseteq 0 .. ver'
                /\ \A v \in L' : v >= acked'
                /\ Saving' => acked' <= V' /\ V' < ver' /\ ~Done'
                /\ Done' => L' = {ver'}
<1>2. SUFFICES G
  BY DEF Store!IInv, Lasting, Saving, Done
<1>3. CASE Store!Begin
  <2>1. /\ ~Saving /\ ~Done /\ Saving' /\ L = {V'} /\ ver' = ver + 1
        /\ L' = L /\ Done' = Done /\ acked' = acked
    BY <1>3 DEF Store!Begin, Lasting, Saving, Done
  <2> HIDE DEF L, V
  <2>2. V' \in 0 .. ver /\ V' >= acked
    BY <1>1, <2>1 DEF L
  <2> QED
    BY <1>1, <2>1, <2>2 DEF L
<1>4. CASE Store!Progress
  <2>1. /\ Saving /\ L' \subseteq {V, ver} /\ ver' = ver /\ V' = V /\ Saving' = Saving
        /\ Done' = Done /\ acked' = acked
    BY <1>4 DEF Store!Progress, Lasting, Saving, Done
  <2> HIDE DEF L, V
  <2> QED
    BY <1>1, <2>1 DEF L, V
<1>5. CASE Store!Succeed
  <2>1. /\ Saving /\ L = {ver} /\ ~Saving' /\ Done' /\ L' = L /\ ver' = ver /\ V' = V
        /\ acked' = acked
    BY <1>5 DEF Store!Succeed, Lasting, Saving, Done
  <2> QED
    BY <1>1, <2>1 DEF L, V
<1>6. CASE Store!Fail
  <2>1. ~Saving' /\ ~Done' /\ L' \subseteq L /\ ver' = ver /\ V' = V /\ acked' = acked
    BY <1>6 DEF Store!Fail, Lasting, Saving, Done
  <2> QED
    BY <1>1, <2>1 DEF L, V
<1>7. CASE Store!Tell
  <2>1. /\ Done /\ ~Done' /\ acked' = ver /\ L' = L /\ ver' = ver /\ V' = V /\ Saving' = Saving
    BY <1>7 DEF Store!Tell, Lasting, Saving, Done
  <2> QED
    BY <1>1, <2>1 DEF L, V
<1>8. CASE Store!Settle
  <2>1. /\ L' \subseteq L /\ L' # {} /\ ver' = ver /\ V' = V /\ Saving' = Saving /\ Done' = Done
        /\ acked' = acked
    BY <1>8 DEF Store!Settle, Lasting, Saving, Done
  <2> QED
    BY ZenonT(40), <1>1, <2>1 DEF L, V
<1>9. CASE UNCHANGED Store!vars
  <2>1. /\ L' = L /\ ver' = ver /\ V' = V /\ Saving' = Saving /\ Done' = Done /\ acked' = acked
    BY <1>9 DEF Store!vars, Lasting, Saving, Done
  <2> QED
    BY <1>1, <2>1 DEF L, V
<1> QED
  BY ZenonT(40), <1>0, <1>3, <1>4, <1>5, <1>6, <1>7, <1>8, <1>9 DEF Store!Next, Store!Excuse

\* What a client was told is saved is loaded after every later crash, or a later
\* version is; one failing removal of a file that did not exist before excepted.
THEOREM AcknowledgedSavesLast == ServiceSpec => []Store!AckedIsKept
<1>1. Store!Init => Store!IInv
  BY DEF Store!Init, Store!IInv
<1>2. Store!IInv /\ [Store!Next]_(Store!vars) => Store!IInv'
  BY StoreStep
<1>3. Store!IInv => Store!AckedIsKept
  BY DEF Store!IInv, Store!AckedIsKept
<1> QED
  BY <1>1, <1>2, <1>3, ServiceIsAtomic, PTL DEF StoreIsAtomic, Store!Spec

=============================================================================
