--------------------------- MODULE StorageProofs ---------------------------
(***************************************************************************)
(* Proofs about what survives a reboot (MCStorage), for every set of       *)
(* updater tools, every number of attempts, losses of power, configuration *)
(* requests, releases, rollback slots, settings, credentials and faults:   *)
(*                                                                         *)
(*   RecoveryIsKept  an installation can be started or taken back wherever *)
(*                   it is cut off (install.sh and its dispatcher),        *)
(*   CommitIsKept    an installation that closed its journal stays until   *)
(*                   the owner asks for a restore,                         *)
(*   LockIsSound     the lock of the configuration pages (web_config.sh),  *)
(*   UpgradeIsSafe   an upgrade on the card that fails is undone, and one  *)
(*                   that is cut off leaves what the bootstrap wants       *)
(*                   (fw_upgrade.sh, Factory/config.sh),                   *)
(*   SettingsAreKept  while starts are not cut off, the two homes of the   *)
(*                   configuration are whole and the owner's settings give *)
(*                   way only to whole ones; and never to the defaults     *)
(*                   (flash_storage.sh, flash_config_sync.sh),             *)
(*   CredentialsAreKept  the Wi-Fi credentials are saved before they are   *)
(*                   given up, and the camera is reached                   *)
(*                   (configure_wifi.sh).                                  *)
(*                                                                         *)
(* Each follows from an inductive invariant that says what is on the       *)
(* storage at each step of the script: FlashInv, LockInv, CardInv,         *)
(* HomesInv, ProvisionInv.  The instances of one module with other         *)
(* constants (Clean and Sound beside Vendor) take no step that the first   *)
(* does not take, which CleanSteps and SoundSteps show, so that FlashInv   *)
(* is proved once.                                                         *)
(***************************************************************************)
EXTENDS MCStorage, TLAPS

\* Both filesystems hold the same firmware; no image is staged on the card.
Images(v) == img["rootfs"] = v /\ img["home"] = v
NoTrigger == sd.trig["rootfs"] = "none" /\ sd.trig["home"] = "none"

\* The types of what the installer writes.
FlashTypes ==
    /\ kind \in {"vendor", "clean"}
    /\ kern \in {"other", "stock", "patched", "unknown", "torn"}
    /\ bk \in [files: SUBSET Vendor!BackupFiles, tools: [Tools -> {"whole", "torn", "gone"}]]
    /\ sd \in [files: SUBSET Vendor!CardFiles, trig: [Vendor!Parts -> {"none", "prev", "new"}],
               saved: [Tools -> {"none", "torn", "whole"}], attempts: 0..MaxAttempts]
    /\ img \in [Vendor!Parts -> {"prev", "new", "torn"}]

\* What holds wherever the installer is: nothing is replaced before the
\* dispatcher is in place over a complete backup, an image is staged only under
\* an open journal or a restore, and a closed journal means the new images.
FlashGlobal ==
    /\ "dispatcher" \notin bk.files => Images("prev")
    /\ \A p \in {"rootfs", "home"} :
        /\ sd.trig[p] = "new" => "dispatcher" \in bk.files /\ "pending" \in bk.files /\ "RESTORE" \notin sd.files
        /\ sd.trig[p] = "prev" => "RESTORE" \in sd.files
    /\ "pending" \in bk.files \/ "dispatcher" \in bk.files => "manifest" \in sd.files
    /\ "manifest" \in sd.files => "recovery" \in sd.files
    /\ "release" \in bk.files => "pending" \in bk.files
    /\ \A t \in Tools : bk.tools[t] = "gone" => sd.saved[t] = "whole"
    /\ "dispatcher" \in bk.files /\ "pending" \notin bk.files /\ "RESTORE" \notin sd.files
        => \/ Images("new") /\ "core" \in bk.files
           \/ kind = "clean" /\ Images("prev") /\ "CLEAN_INSTALL" \in sd.files
    /\ kind = "vendor" => "clean.conf" \notin sd.files /\ ("RESTORE" \in sd.files => inserted)
    /\ kind = "clean" => /\ inserted
                         /\ "clean.conf" \in sd.files \/ "CLEAN_INSTALL" \in sd.files
                         /\ "manifest" \in sd.files \/ "dispatcher" \in bk.files \/ "pending" \in bk.files
                                => "clean.conf" \in sd.files
    /\ kern = "torn" => /\ "manifest" \in sd.files /\ "stockKernel" \in sd.files
                        /\ Images("prev") /\ "pending" \notin bk.files

\* The steps of the installer by what they may rely on.
Early   == {"backup", "manifest", "save"}
Patching == {"kernel", "write kernel", "read kernel"}
Staging == {"stage", "settings", "dispatcher", "activate", "journal", "release", "forget", "rename"} \cup Patching
Closing == {"retire", "unhook", "commit"}
Trying  == {"attempt", "rootfs", "home"}
Undoing == {"restoreTools", "restoreFiles", "restoreInit", "rmPending", "rmTriggers", "rmRestore"}
Preparing == {"prepareConf", "prepareManifest", "prepareStage", "prepareRename"}

\* What a step of the installer relies on and the steps before it have made
\* true: n is the value of pc.
FlashAt(n) ==
    /\ n = "install" => /\ inserted
                        /\ kind = "vendor" => "pending" \in bk.files \/ "dispatcher" \notin bk.files
                        /\ kind = "clean" => "clean.conf" \in sd.files /\ "dispatcher" \in bk.files
    /\ n \in Early \cup Staging \cup Closing \cup Trying \cup {"resume", "repair"}
        => inserted /\ "RESTORE" \notin sd.files
    /\ n \in Early => kind = "vendor" /\ "dispatcher" \notin bk.files /\ "pending" \notin bk.files
    /\ n \in Staging \cup {"save"} => "manifest" \in sd.files /\ Images("prev")
    /\ n = "manifest" => "recovery" \in sd.files
    /\ n \in Staging => /\ kind = "vendor" => "dispatcher" \notin bk.files
                        /\ kind = "clean" => "dispatcher" \in bk.files /\ "clean.conf" \in sd.files
    /\ n \in {"stage", "settings", "dispatcher", "activate", "journal"} \cup Patching => "pending" \notin bk.files
    /\ n \in {"write kernel", "read kernel"} => "stockKernel" \in sd.files
    /\ n \in {"release", "forget", "rename", "resume", "repair"} \cup Closing \cup Trying => "pending" \in bk.files
    /\ n \in Closing \cup Trying => "dispatcher" \in bk.files
    /\ n \in Closing => Images("new") /\ "core" \in bk.files
    /\ n \in {"unhook", "commit"} => NoTrigger
    /\ n = "prepare" => (kind = "vendor" => "dispatcher" \in bk.files)
                        /\ (kind = "clean" => "clean.conf" \notin sd.files /\ "CLEAN_INSTALL" \in sd.files)
    /\ n \in Preparing => /\ kind = "clean" /\ "dispatcher" \notin bk.files /\ "pending" \notin bk.files
                          /\ "CLEAN_INSTALL" \in sd.files /\ "recovery" \in sd.files
    /\ n \in {"prepareManifest", "prepareStage", "prepareRename"} => "clean.conf" \in sd.files
    /\ n \in {"prepareStage", "prepareRename"} => "manifest" \in sd.files
    /\ n \in Undoing \cup {"restore"} => "RESTORE" \in sd.files
    /\ n \in Undoing => Images("prev") /\ "manifest" \in sd.files
    /\ n \in {"rmPending", "rmTriggers", "rmRestore", "rmHook", "rollback", "rollbackTools", "rollbackHook"}
        => "dispatcher" \notin bk.files
    /\ n \in {"rmTriggers", "rmRestore"} => "pending" \notin bk.files
    /\ n = "rmRestore" => NoTrigger
    /\ n = "flash rootfs" => "dispatcher" \in bk.files /\ sd.trig["rootfs"] # "none"
    /\ n = "flash home" => "dispatcher" \in bk.files /\ sd.trig["home"] # "none"
    /\ n = "runs prev" => Images("prev")
    /\ n = "runs new" => Images("new") /\ "core" \in bk.files /\ "dispatcher" \in bk.files
    /\ n \in Early \cup (Staging \ {"read kernel"}) \cup Closing \cup Trying \cup Preparing
             \cup {"install", "prepare", "resume", "repair", "runs prev", "runs new"} => kern # "torn"

FlashInv == FlashTypes /\ FlashGlobal /\ FlashAt(pc)

\* The writes of a first run, from the staged startup to the renamed one.
LEMMA StagingKeeps ==
  ASSUME FlashInv,
         Vendor!StageStartup \/ Vendor!StageDispatcher \/ Vendor!Activate \/
         Vendor!Journal \/ Vendor!ForgetRequest \/ Vendor!Rename
  PROVE  FlashInv'
<1> USE DEF Images, NoTrigger, Early, Patching, Staging, Closing, Trying, Undoing, Preparing
<1>1. CASE Vendor!StageStartup
  <2>1. FlashTypes' BY <1>1 DEF FlashInv, FlashTypes, Vendor!StageStartup, Vendor!Write, Vendor!BackupFiles, Vendor!CardFiles, Vendor!Parts
  <2>2. FlashGlobal' BY <1>1 DEF FlashInv, FlashTypes, FlashGlobal, FlashAt, Vendor!StageStartup, Vendor!Write
  <2>3. FlashAt(pc)' BY <1>1 DEF FlashInv, FlashTypes, FlashGlobal, FlashAt, Vendor!StageStartup, Vendor!Write
  <2>4. QED BY <2>1, <2>2, <2>3 DEF FlashInv
<1>2. CASE Vendor!StageDispatcher
  <2>1. FlashTypes' BY <1>2 DEF FlashInv, FlashTypes, Vendor!StageDispatcher, Vendor!Write, Vendor!BackupFiles, Vendor!CardFiles, Vendor!Parts
  <2>2. FlashGlobal' BY <1>2 DEF FlashInv, FlashTypes, FlashGlobal, FlashAt, Vendor!StageDispatcher, Vendor!Write
  <2>3. FlashAt(pc)' BY <1>2 DEF FlashInv, FlashTypes, FlashGlobal, FlashAt, Vendor!StageDispatcher, Vendor!Write
  <2>4. QED BY <2>1, <2>2, <2>3 DEF FlashInv
<1>3. CASE Vendor!Activate
  <2>1. FlashTypes' BY <1>3 DEF FlashInv, FlashTypes, Vendor!Activate, Vendor!Write, Vendor!BackupFiles, Vendor!CardFiles, Vendor!Parts
  <2>2. FlashGlobal' BY <1>3 DEF FlashInv, FlashTypes, FlashGlobal, FlashAt, Vendor!Activate, Vendor!Write
  <2>3. FlashAt(pc)' BY <1>3 DEF FlashInv, FlashTypes, FlashGlobal, FlashAt, Vendor!Activate, Vendor!Write
  <2>4. QED BY <2>1, <2>2, <2>3 DEF FlashInv
<1>4. CASE Vendor!Journal
  <2>1. CASE pc = "journal"
    <3>1. FlashTypes' BY <1>4, <2>1 DEF FlashInv, FlashTypes, Vendor!Journal, Vendor!Write, Vendor!BackupFiles, Vendor!CardFiles, Vendor!Parts
    <3>2. FlashGlobal' BY <1>4, <2>1 DEF FlashInv, FlashTypes, FlashGlobal, FlashAt, Vendor!Journal, Vendor!Write
    <3>3. FlashAt(pc)' BY <1>4, <2>1 DEF FlashInv, FlashTypes, FlashGlobal, FlashAt, Vendor!Journal, Vendor!Write
    <3>4. QED BY <3>1, <3>2, <3>3 DEF FlashInv
  <2>2. CASE pc = "release"
    <3>1. FlashTypes' BY <1>4, <2>2 DEF FlashInv, FlashTypes, Vendor!Journal, Vendor!Write, Vendor!BackupFiles, Vendor!CardFiles, Vendor!Parts
    <3>2. FlashGlobal' BY <1>4, <2>2 DEF FlashInv, FlashTypes, FlashGlobal, FlashAt, Vendor!Journal, Vendor!Write
    <3>3. FlashAt(pc)' BY <1>4, <2>2 DEF FlashInv, FlashTypes, FlashGlobal, FlashAt, Vendor!Journal, Vendor!Write
    <3>4. QED BY <3>1, <3>2, <3>3 DEF FlashInv
  <2>3. QED BY <1>4, <2>1, <2>2 DEF Vendor!Journal
<1>5. CASE Vendor!ForgetRequest
  <2>1. FlashTypes' BY <1>5 DEF FlashInv, FlashTypes, Vendor!ForgetRequest, Vendor!CardWrite, Vendor!BackupFiles, Vendor!CardFiles, Vendor!Parts
  <2>2. FlashGlobal' BY <1>5 DEF FlashInv, FlashTypes, FlashGlobal, FlashAt, Vendor!ForgetRequest, Vendor!CardWrite
  <2>3. FlashAt(pc)' BY <1>5 DEF FlashInv, FlashTypes, FlashGlobal, FlashAt, Vendor!ForgetRequest, Vendor!CardWrite
  <2>4. QED BY <2>1, <2>2, <2>3 DEF FlashInv
<1>6. CASE Vendor!Rename
  <2>1. FlashTypes' BY <1>6 DEF FlashInv, FlashTypes, Vendor!Rename, Vendor!Write, Vendor!BackupFiles, Vendor!CardFiles, Vendor!Parts
  <2>2. FlashGlobal' BY <1>6 DEF FlashInv, FlashTypes, FlashGlobal, FlashAt, Vendor!Rename, Vendor!Write
  <2>3. FlashAt(pc)' BY <1>6 DEF FlashInv, FlashTypes, FlashGlobal, FlashAt, Vendor!Rename, Vendor!Write
  <2>4. QED BY <2>1, <2>2, <2>3 DEF FlashInv
<1>7. QED BY <1>1, <1>2, <1>3, <1>4, <1>5, <1>6

\* The kernel of a y623, between the settings and the dispatcher.
LEMMA PatchingKeeps ==
  ASSUME FlashInv,
         Vendor!KeepStockKernel \/ Vendor!WriteKernel \/ Vendor!ReadKernelBack
  PROVE  FlashInv'
<1> USE DEF Images, NoTrigger, Early, Patching, Staging, Closing, Trying, Undoing, Preparing
<1>1. CASE pc = "kernel" /\ kern = "stock" /\ Vendor!CardWrite(sd.files \cup {"stockKernel"}, "write kernel")
  <2>1. FlashTypes' BY <1>1 DEF FlashInv, FlashTypes, Vendor!CardWrite, Vendor!CardFiles
  <2>2. FlashGlobal' BY <1>1 DEF FlashInv, FlashTypes, FlashGlobal, FlashAt, Vendor!CardWrite
  <2>3. FlashAt(pc)' BY <1>1 DEF FlashInv, FlashTypes, FlashGlobal, FlashAt, Vendor!CardWrite
  <2>4. QED BY <2>1, <2>2, <2>3 DEF FlashInv
<1>2. CASE pc = "kernel" /\ kern \in {"other", "patched"} /\ Vendor!Goto("dispatcher")
  BY <1>2 DEF FlashInv, FlashTypes, FlashGlobal, FlashAt, Vendor!Goto
<1>3. CASE Vendor!WriteKernel
  BY <1>3 DEF FlashInv, FlashTypes, FlashGlobal, FlashAt, Vendor!WriteKernel
<1>4. CASE Vendor!ReadKernelBack
  BY <1>4 DEF FlashInv, FlashTypes, FlashGlobal, FlashAt, Vendor!ReadKernelBack
<1>5. QED BY <1>1, <1>2, <1>3, <1>4 DEF Vendor!KeepStockKernel

\* The backup before anything is changed.
LEMMA BackupKeeps ==
  ASSUME FlashInv,
         \/ Vendor!RefuseCard \/ Vendor!Manifest \/ Vendor!Reclaimed
         \/ pc = "backup" /\ Vendor!CardWrite(sd.files \cup {"recovery"}, "manifest")
  PROVE  FlashInv'
<1> USE DEF Images, NoTrigger, Early, Patching, Staging, Closing, Trying, Undoing, Preparing
<1>1. CASE Vendor!RefuseCard
  <2>1. FlashTypes' BY <1>1 DEF FlashInv, FlashTypes, Vendor!RefuseCard, Vendor!CardWrite, Vendor!BackupFiles, Vendor!CardFiles, Vendor!Parts
  <2>2. FlashGlobal' BY <1>1 DEF FlashInv, FlashTypes, FlashGlobal, FlashAt, Vendor!RefuseCard, Vendor!CardWrite
  <2>3. FlashAt(pc)' BY <1>1 DEF FlashInv, FlashTypes, FlashGlobal, FlashAt, Vendor!RefuseCard, Vendor!CardWrite
  <2>4. QED BY <2>1, <2>2, <2>3 DEF FlashInv
<1>2. CASE pc = "backup" /\ Vendor!CardWrite(sd.files \cup {"recovery"}, "manifest")
  <2>1. FlashTypes' BY <1>2 DEF FlashInv, FlashTypes, Vendor!CardWrite, Vendor!CardFiles
  <2>2. FlashGlobal' BY <1>2 DEF FlashInv, FlashTypes, FlashGlobal, FlashAt, Vendor!CardWrite
  <2>3. FlashAt(pc)' BY <1>2 DEF FlashInv, FlashTypes, FlashGlobal, FlashAt, Vendor!CardWrite
  <2>4. QED BY <2>1, <2>2, <2>3 DEF FlashInv
<1>3. CASE Vendor!Manifest
  <2>1. FlashTypes' BY <1>3 DEF FlashInv, FlashTypes, Vendor!Manifest, Vendor!CardWrite, Vendor!BackupFiles, Vendor!CardFiles, Vendor!Parts
  <2>2. FlashGlobal' BY <1>3 DEF FlashInv, FlashTypes, FlashGlobal, FlashAt, Vendor!Manifest, Vendor!CardWrite
  <2>3. FlashAt(pc)' BY <1>3 DEF FlashInv, FlashTypes, FlashGlobal, FlashAt, Vendor!Manifest, Vendor!CardWrite
  <2>4. QED BY <2>1, <2>2, <2>3 DEF FlashInv
<1>4. CASE Vendor!Reclaimed
  <2>1. FlashTypes' BY <1>4 DEF FlashInv, FlashTypes, Vendor!Reclaimed, Vendor!BackupFiles, Vendor!CardFiles, Vendor!Parts
  <2>2. FlashGlobal' BY <1>4 DEF FlashInv, FlashTypes, FlashGlobal, FlashAt, Vendor!Reclaimed
  <2>3. FlashAt(pc)' BY <1>4 DEF FlashInv, FlashTypes, FlashGlobal, FlashAt, Vendor!Reclaimed
  <2>4. QED BY <2>1, <2>2, <2>3 DEF FlashInv
<1>5. QED BY <1>1, <1>2, <1>3, <1>4

\* The end of an installation, and the attempts before it.
LEMMA ClosingKeeps ==
  ASSUME FlashInv,
         Vendor!Repair \/ Vendor!RetireTriggers \/ Vendor!RetireHook \/ Vendor!Commit
  PROVE  FlashInv'
<1> USE DEF Images, NoTrigger, Early, Patching, Staging, Closing, Trying, Undoing, Preparing
<1>1. CASE Vendor!Repair
  <2>1. FlashTypes' BY <1>1 DEF FlashInv, FlashTypes, Vendor!Repair, Vendor!Write, Vendor!BackupFiles, Vendor!CardFiles, Vendor!Parts
  <2>2. FlashGlobal' BY <1>1 DEF FlashInv, FlashTypes, FlashGlobal, FlashAt, Vendor!Repair, Vendor!Write
  <2>3. FlashAt(pc)' BY <1>1 DEF FlashInv, FlashTypes, FlashGlobal, FlashAt, Vendor!Repair, Vendor!Write
  <2>4. QED BY <2>1, <2>2, <2>3 DEF FlashInv
<1>2. CASE Vendor!RetireTriggers
  <2>1. FlashTypes' BY <1>2 DEF FlashInv, FlashTypes, Vendor!RetireTriggers, Vendor!Unstage, Vendor!Parts, Vendor!BackupFiles, Vendor!CardFiles, Vendor!Parts
  <2>2. FlashGlobal' BY <1>2 DEF FlashInv, FlashTypes, FlashGlobal, FlashAt, Vendor!RetireTriggers, Vendor!Unstage, Vendor!Parts
  <2>3. FlashAt(pc)' BY <1>2 DEF FlashInv, FlashTypes, FlashGlobal, FlashAt, Vendor!RetireTriggers, Vendor!Unstage, Vendor!Parts
  <2>4. QED BY <2>1, <2>2, <2>3 DEF FlashInv
<1>3. CASE Vendor!RetireHook
  <2>1. FlashTypes' BY <1>3 DEF FlashInv, FlashTypes, Vendor!RetireHook, Vendor!CardWrite, Vendor!BackupFiles, Vendor!CardFiles, Vendor!Parts
  <2>2. FlashGlobal' BY <1>3 DEF FlashInv, FlashTypes, FlashGlobal, FlashAt, Vendor!RetireHook, Vendor!CardWrite
  <2>3. FlashAt(pc)' BY <1>3 DEF FlashInv, FlashTypes, FlashGlobal, FlashAt, Vendor!RetireHook, Vendor!CardWrite
  <2>4. QED BY <2>1, <2>2, <2>3 DEF FlashInv
<1>4. CASE Vendor!Commit
  <2>1. FlashTypes' BY <1>4 DEF FlashInv, FlashTypes, Vendor!Commit, Vendor!Write, Vendor!BackupFiles, Vendor!CardFiles, Vendor!Parts
  <2>2. FlashGlobal' BY <1>4 DEF FlashInv, FlashTypes, FlashGlobal, FlashAt, Vendor!Commit, Vendor!Write
  <2>3. FlashAt(pc)' BY <1>4 DEF FlashInv, FlashTypes, FlashGlobal, FlashAt, Vendor!Commit, Vendor!Write
  <2>4. QED BY <2>1, <2>2, <2>3 DEF FlashInv
<1>5. QED BY <1>1, <1>2, <1>3, <1>4

\* The preparation of a clean reinstallation.
LEMMA PrepareKeeps ==
  ASSUME FlashInv,
         Vendor!PrepareConf \/ Vendor!PrepareManifest \/ Vendor!PrepareStage \/
         Vendor!PrepareRename
  PROVE  FlashInv'
<1> USE DEF Images, NoTrigger, Early, Patching, Staging, Closing, Trying, Undoing, Preparing
<1>1. CASE Vendor!PrepareConf
  <2>1. FlashTypes' BY <1>1 DEF FlashInv, FlashTypes, Vendor!PrepareConf, Vendor!CardWrite, Vendor!BackupFiles, Vendor!CardFiles, Vendor!Parts
  <2>2. FlashGlobal' BY <1>1 DEF FlashInv, FlashTypes, FlashGlobal, FlashAt, Vendor!PrepareConf, Vendor!CardWrite
  <2>3. FlashAt(pc)' BY <1>1 DEF FlashInv, FlashTypes, FlashGlobal, FlashAt, Vendor!PrepareConf, Vendor!CardWrite
  <2>4. QED BY <2>1, <2>2, <2>3 DEF FlashInv
<1>2. CASE Vendor!PrepareManifest
  <2>1. FlashTypes' BY <1>2 DEF FlashInv, FlashTypes, Vendor!PrepareManifest, Vendor!CardWrite, Vendor!BackupFiles, Vendor!CardFiles, Vendor!Parts
  <2>2. FlashGlobal' BY <1>2 DEF FlashInv, FlashTypes, FlashGlobal, FlashAt, Vendor!PrepareManifest, Vendor!CardWrite
  <2>3. FlashAt(pc)' BY <1>2 DEF FlashInv, FlashTypes, FlashGlobal, FlashAt, Vendor!PrepareManifest, Vendor!CardWrite
  <2>4. QED BY <2>1, <2>2, <2>3 DEF FlashInv
<1>3. CASE Vendor!PrepareStage
  <2>1. FlashTypes' BY <1>3 DEF FlashInv, FlashTypes, Vendor!PrepareStage, Vendor!Write, Vendor!BackupFiles, Vendor!CardFiles, Vendor!Parts
  <2>2. FlashGlobal' BY <1>3 DEF FlashInv, FlashTypes, FlashGlobal, FlashAt, Vendor!PrepareStage, Vendor!Write
  <2>3. FlashAt(pc)' BY <1>3 DEF FlashInv, FlashTypes, FlashGlobal, FlashAt, Vendor!PrepareStage, Vendor!Write
  <2>4. QED BY <2>1, <2>2, <2>3 DEF FlashInv
<1>4. CASE Vendor!PrepareRename
  <2>1. FlashTypes' BY <1>4 DEF FlashInv, FlashTypes, Vendor!PrepareRename, Vendor!Write, Vendor!BackupFiles, Vendor!CardFiles, Vendor!Parts
  <2>2. FlashGlobal' BY <1>4 DEF FlashInv, FlashTypes, FlashGlobal, FlashAt, Vendor!PrepareRename, Vendor!Write
  <2>3. FlashAt(pc)' BY <1>4 DEF FlashInv, FlashTypes, FlashGlobal, FlashAt, Vendor!PrepareRename, Vendor!Write
  <2>4. QED BY <2>1, <2>2, <2>3 DEF FlashInv
<1>5. QED BY <1>1, <1>2, <1>3, <1>4

\* The restore, in the order of its writes.
LEMMA RestoreKeeps ==
  ASSUME FlashInv,
         Vendor!Restore \/ Vendor!RestoreTools \/ Vendor!RestoreFiles \/
         Vendor!RestoreInit \/ Vendor!RemovePending \/ Vendor!RemoveTriggers \/
         Vendor!RemoveRestore \/ Vendor!RemoveHook
  PROVE  FlashInv'
<1> USE DEF Images, NoTrigger, Early, Patching, Staging, Closing, Trying, Undoing, Preparing
<1>1. CASE Vendor!Restore
  <2>1. FlashTypes' BY <1>1 DEF FlashInv, FlashTypes, Vendor!Restore, Vendor!Write, Vendor!Goto, Vendor!All, Vendor!Parts, Vendor!Card, Vendor!BackupFiles, Vendor!CardFiles, Vendor!Parts
  <2>2. FlashGlobal' BY <1>1 DEF FlashInv, FlashTypes, FlashGlobal, FlashAt, Vendor!Restore, Vendor!Write, Vendor!Goto, Vendor!All, Vendor!Parts, Vendor!Card
  <2>3. FlashAt(pc)' BY <1>1 DEF FlashInv, FlashTypes, FlashGlobal, FlashAt, Vendor!Restore, Vendor!Write, Vendor!Goto, Vendor!All, Vendor!Parts, Vendor!Card
  <2>4. QED BY <2>1, <2>2, <2>3 DEF FlashInv
<1>2. CASE Vendor!RestoreTools
  <2>1. FlashTypes' BY <1>2 DEF FlashInv, FlashTypes, Vendor!RestoreTools, Vendor!PutBackTools, Vendor!BackupFiles, Vendor!CardFiles, Vendor!Parts
  <2>2. FlashGlobal' BY <1>2 DEF FlashInv, FlashTypes, FlashGlobal, FlashAt, Vendor!RestoreTools, Vendor!PutBackTools
  <2>3. FlashAt(pc)' BY <1>2 DEF FlashInv, FlashTypes, FlashGlobal, FlashAt, Vendor!RestoreTools, Vendor!PutBackTools
  <2>4. QED BY <2>1, <2>2, <2>3 DEF FlashInv
<1>3. CASE Vendor!RestoreFiles
  <2>1. FlashTypes' BY <1>3 DEF FlashInv, FlashTypes, Vendor!RestoreFiles, Vendor!Card, Vendor!BackupFiles, Vendor!CardFiles, Vendor!Parts
  <2>2. FlashGlobal' BY <1>3 DEF FlashInv, FlashTypes, FlashGlobal, FlashAt, Vendor!RestoreFiles, Vendor!Card
  <2>3. FlashAt(pc)' BY <1>3 DEF FlashInv, FlashTypes, FlashGlobal, FlashAt, Vendor!RestoreFiles, Vendor!Card
  <2>4. QED BY <2>1, <2>2, <2>3 DEF FlashInv
<1>4. CASE Vendor!RestoreInit
  <2>1. FlashTypes' BY <1>4 DEF FlashInv, FlashTypes, Vendor!RestoreInit, Vendor!Write, Vendor!BackupFiles, Vendor!CardFiles, Vendor!Parts
  <2>2. FlashGlobal' BY <1>4 DEF FlashInv, FlashTypes, FlashGlobal, FlashAt, Vendor!RestoreInit, Vendor!Write
  <2>3. FlashAt(pc)' BY <1>4 DEF FlashInv, FlashTypes, FlashGlobal, FlashAt, Vendor!RestoreInit, Vendor!Write
  <2>4. QED BY <2>1, <2>2, <2>3 DEF FlashInv
<1>5. CASE Vendor!RemovePending
  <2>1. FlashTypes' BY <1>5 DEF FlashInv, FlashTypes, Vendor!RemovePending, Vendor!Write, Vendor!BackupFiles, Vendor!CardFiles, Vendor!Parts
  <2>2. FlashGlobal' BY <1>5 DEF FlashInv, FlashTypes, FlashGlobal, FlashAt, Vendor!RemovePending, Vendor!Write
  <2>3. FlashAt(pc)' BY <1>5 DEF FlashInv, FlashTypes, FlashGlobal, FlashAt, Vendor!RemovePending, Vendor!Write
  <2>4. QED BY <2>1, <2>2, <2>3 DEF FlashInv
<1>6. CASE Vendor!RemoveTriggers
  <2>1. FlashTypes' BY <1>6 DEF FlashInv, FlashTypes, Vendor!RemoveTriggers, Vendor!Unstage, Vendor!Parts, Vendor!BackupFiles, Vendor!CardFiles, Vendor!Parts
  <2>2. FlashGlobal' BY <1>6 DEF FlashInv, FlashTypes, FlashGlobal, FlashAt, Vendor!RemoveTriggers, Vendor!Unstage, Vendor!Parts
  <2>3. FlashAt(pc)' BY <1>6 DEF FlashInv, FlashTypes, FlashGlobal, FlashAt, Vendor!RemoveTriggers, Vendor!Unstage, Vendor!Parts
  <2>4. QED BY <2>1, <2>2, <2>3 DEF FlashInv
<1>7. CASE Vendor!RemoveRestore
  <2>1. FlashTypes' BY <1>7 DEF FlashInv, FlashTypes, Vendor!RemoveRestore, Vendor!CardWrite, Vendor!BackupFiles, Vendor!CardFiles, Vendor!Parts
  <2>2. FlashGlobal' BY <1>7 DEF FlashInv, FlashTypes, FlashGlobal, FlashAt, Vendor!RemoveRestore, Vendor!CardWrite
  <2>3. FlashAt(pc)' BY <1>7 DEF FlashInv, FlashTypes, FlashGlobal, FlashAt, Vendor!RemoveRestore, Vendor!CardWrite
  <2>4. QED BY <2>1, <2>2, <2>3 DEF FlashInv
<1>8. CASE Vendor!RemoveHook
  <2>1. FlashTypes' BY <1>8 DEF FlashInv, FlashTypes, Vendor!RemoveHook, Vendor!CardWrite, Vendor!BackupFiles, Vendor!CardFiles, Vendor!Parts
  <2>2. FlashGlobal' BY <1>8 DEF FlashInv, FlashTypes, FlashGlobal, FlashAt, Vendor!RemoveHook, Vendor!CardWrite
  <2>3. FlashAt(pc)' BY <1>8 DEF FlashInv, FlashTypes, FlashGlobal, FlashAt, Vendor!RemoveHook, Vendor!CardWrite
  <2>4. QED BY <2>1, <2>2, <2>3 DEF FlashInv
<1>9. QED BY <1>1, <1>2, <1>3, <1>4, <1>5, <1>6, <1>7, <1>8

\* The rollback of a first installation.
LEMMA RollbackKeeps ==
  ASSUME FlashInv,
         Vendor!Rollback \/ Vendor!RollbackTools \/ Vendor!RollbackHook
  PROVE  FlashInv'
<1> USE DEF Images, NoTrigger, Early, Patching, Staging, Closing, Trying, Undoing, Preparing
<1>1. CASE Vendor!Rollback
  <2>1. FlashTypes' BY <1>1 DEF FlashInv, FlashTypes, Vendor!Rollback, Vendor!BackupFiles, Vendor!CardFiles, Vendor!Parts
  <2>2. FlashGlobal' BY <1>1 DEF FlashInv, FlashTypes, FlashGlobal, FlashAt, Vendor!Rollback
  <2>3. FlashAt(pc)' BY <1>1 DEF FlashInv, FlashTypes, FlashGlobal, FlashAt, Vendor!Rollback
  <2>4. QED BY <2>1, <2>2, <2>3 DEF FlashInv
<1>2. CASE Vendor!RollbackTools
  <2>1. FlashTypes' BY <1>2 DEF FlashInv, FlashTypes, Vendor!RollbackTools, Vendor!PutBackTools, Vendor!BackupFiles, Vendor!CardFiles, Vendor!Parts
  <2>2. FlashGlobal' BY <1>2 DEF FlashInv, FlashTypes, FlashGlobal, FlashAt, Vendor!RollbackTools, Vendor!PutBackTools
  <2>3. FlashAt(pc)' BY <1>2 DEF FlashInv, FlashTypes, FlashGlobal, FlashAt, Vendor!RollbackTools, Vendor!PutBackTools
  <2>4. QED BY <2>1, <2>2, <2>3 DEF FlashInv
<1>3. CASE Vendor!RollbackHook
  <2>1. FlashTypes' BY <1>3 DEF FlashInv, FlashTypes, Vendor!RollbackHook, Vendor!CardWrite, Vendor!BackupFiles, Vendor!CardFiles, Vendor!Parts
  <2>2. FlashGlobal' BY <1>3 DEF FlashInv, FlashTypes, FlashGlobal, FlashAt, Vendor!RollbackHook, Vendor!CardWrite
  <2>3. FlashAt(pc)' BY <1>3 DEF FlashInv, FlashTypes, FlashGlobal, FlashAt, Vendor!RollbackHook, Vendor!CardWrite
  <2>4. QED BY <2>1, <2>2, <2>3 DEF FlashInv
<1>4. QED BY <1>1, <1>2, <1>3

\* Attempt counts a run of the bootloader, and stages the images again or gives up.
LEMMA AttemptKeeps ==
  ASSUME FlashInv, Vendor!Attempt PROVE FlashInv'
<1> USE DEF Images, NoTrigger, Early, Patching, Staging, Closing, Trying, Undoing, Preparing
<1>1. UNCHANGED <<kind, kern, bk, inserted, img>> BY DEF Vendor!Attempt
<1>2. CASE sd' = [sd EXCEPT !.attempts = @ + 1] /\ pc' = "rootfs" /\ sd.attempts < MaxAttempts
  <2>1. sd.attempts \in 0..MaxAttempts /\ MaxAttempts \in Nat
    BY FlashConstants DEF FlashInv, FlashTypes, Vendor!FlashAssumption
  <2>2. sd.attempts + 1 \in 0..MaxAttempts BY <1>2, <2>1
  <2>3. FlashTypes' BY <1>1, <1>2, <2>2 DEF FlashInv, FlashTypes
  <2>4. FlashGlobal' BY <1>1, <1>2 DEF FlashInv, FlashTypes, FlashGlobal
  <2>5. FlashAt(pc)' BY <1>1, <1>2, pc = "attempt" DEF FlashInv, FlashTypes, FlashAt, Vendor!Attempt
  <2>6. QED BY <2>3, <2>4, <2>5 DEF FlashInv
<1>3. CASE /\ sd' = [sd EXCEPT !.trig = [p \in Vendor!Parts |-> "none"], !.files = @ \cup {"automatic", "RESTORE"}]
           /\ pc' = "restore"
  <2>1. FlashTypes' BY <1>1, <1>3 DEF FlashInv, FlashTypes, Vendor!CardFiles, Vendor!Parts
  <2>2. FlashGlobal' BY <1>1, <1>3 DEF FlashInv, FlashTypes, FlashGlobal, FlashAt, Vendor!Attempt, Vendor!Parts
  <2>3. FlashAt(pc)' BY <1>1, <1>3 DEF FlashInv, FlashTypes, FlashAt
  <2>4. QED BY <2>1, <2>2, <2>3 DEF FlashInv
<1>4. CASE /\ sd' = [sd EXCEPT !.trig = [p \in Vendor!Parts |-> "none"], !.files = @] /\ pc' = "stuck"
  <2>1. FlashTypes' BY <1>1, <1>4 DEF FlashInv, FlashTypes, Vendor!CardFiles, Vendor!Parts
  <2>2. FlashGlobal' BY <1>1, <1>4 DEF FlashInv, FlashTypes, FlashGlobal, FlashAt, Vendor!Attempt, Vendor!Parts
  <2>3. FlashAt(pc)' BY <1>1, <1>4 DEF FlashInv, FlashTypes, FlashAt
  <2>4. QED BY <2>1, <2>2, <2>3 DEF FlashInv
<1>5. QED
  <2>1. CASE Vendor!All("prev") BY <2>1, <1>2, <1>3 DEF Vendor!Attempt
  <2>2. CASE ~Vendor!All("prev") BY <2>2, <1>2, <1>4 DEF Vendor!Attempt
  <2>3. QED BY <2>1, <2>2

\* Prepare begins a clean reinstallation, or removes what an earlier one left.
LEMMA PrepareStarts ==
  ASSUME FlashInv, Vendor!Prepare PROVE FlashInv'
<1> USE DEF Images, NoTrigger, Early, Patching, Staging, Closing, Trying, Undoing, Preparing
<1>1. CASE Vendor!Goto("stuck")
  BY <1>1 DEF FlashInv, FlashTypes, FlashGlobal, FlashAt, Vendor!Goto
<1>2. CASE /\ Vendor!CardWrite(sd.files \cup {"recovery"}, "prepareConf")
           /\ bk.files \cap {"pending", "initNew", "coreNew"} = {}
           /\ "recovery" \notin sd.files
  <2>1. pc = "prepare" /\ "dispatcher" \notin bk.files /\ "pending" \notin bk.files
    BY <1>2 DEF FlashInv, FlashGlobal, Vendor!Prepare
  <2>2. kind = "clean" /\ "CLEAN_INSTALL" \in sd.files
    BY <2>1 DEF FlashInv, FlashTypes, FlashAt
  <2>3. FlashTypes' BY <1>2 DEF FlashInv, FlashTypes, Vendor!CardWrite, Vendor!CardFiles
  <2>4. FlashGlobal' BY <1>2 DEF FlashInv, FlashTypes, FlashGlobal, Vendor!CardWrite
  <2>5. FlashAt(pc)' BY <1>2, <2>1, <2>2 DEF FlashInv, FlashTypes, FlashAt, Vendor!CardWrite
  <2>6. QED BY <2>3, <2>4, <2>5 DEF FlashInv
<1>3. QED BY <1>1, <1>2 DEF Vendor!Prepare, Vendor!Card

\* The camera is switched on, and the bootloader starts the kernel.
LEMMA StartKeeps ==
  ASSUME FlashInv, Vendor!PowerOn \/ Vendor!Kernel PROVE FlashInv'
<1> USE DEF Vendor!PowerOn, Vendor!Kernel
<1>1. FlashTypes' BY DEF FlashInv, FlashTypes
<1>2. FlashGlobal' BY DEF FlashInv, FlashGlobal, Images
<1>3. FlashAt(pc)'
  BY DEF FlashInv, FlashGlobal, FlashAt, Images, NoTrigger, Early, Patching, Staging, Closing, Trying, Undoing, Preparing
<1>4. QED BY <1>1, <1>2, <1>3 DEF FlashInv

\* Resume and Repair take up an installation that the journal shows open.
LEMMA ResumeKeeps ==
  ASSUME FlashInv, Vendor!Resume PROVE FlashInv'
<1> USE DEF Images, NoTrigger, Early, Patching, Staging, Closing, Trying, Undoing, Preparing
<1>1. pc = "resume" /\ "pending" \in bk.files BY DEF FlashInv, FlashAt, Vendor!Resume
<1>2. CASE Vendor!Write(bk.files \cup {"initNew"}, "repair")
  <2>1. FlashTypes' BY <1>2 DEF FlashInv, FlashTypes, Vendor!Write, Vendor!BackupFiles
  <2>2. FlashGlobal' BY <1>2 DEF FlashInv, FlashTypes, FlashGlobal, Vendor!Write
  <2>3. FlashAt(pc)' BY <1>1, <1>2 DEF FlashInv, FlashTypes, FlashAt, Vendor!Write
  <2>4. QED BY <2>1, <2>2, <2>3 DEF FlashInv
<1>3. CASE /\ "dispatcher" \in bk.files /\ Vendor!All("new") /\ "core" \in bk.files
           /\ Vendor!Goto("retire")
  BY <1>1, <1>3 DEF FlashInv, FlashTypes, FlashGlobal, FlashAt, Vendor!Goto, Vendor!All, Vendor!Parts
<1>4. CASE "dispatcher" \in bk.files /\ Vendor!Goto("attempt")
  BY <1>1, <1>4 DEF FlashInv, FlashTypes, FlashGlobal, FlashAt, Vendor!Goto
<1>5. CASE Vendor!FailWith(ready)
  <2>1. pc' = "stuck" /\ UNCHANGED <<kind, kern, bk, sd, inserted, img>>
    BY <1>1, <1>5 DEF Vendor!FailWith, Vendor!FailLeaving, Vendor!Refused, Vendor!Flash
  <2>2. QED BY <2>1 DEF FlashInv, FlashTypes, FlashGlobal, FlashAt
<1>6. QED BY <1>2, <1>3, <1>4, <1>5 DEF Vendor!Resume, Vendor!Flash

\* An error sends the installer to where its rollback starts; one in the write
\* of the kernel may leave that torn.
LEMMA FailKeeps ==
  ASSUME FlashInv, NEW b, NEW k, Vendor!FailLeaving(k, b), k = kern \/ (pc = "read kernel" /\ k \in {"stock", "torn"})
  PROVE  FlashInv'
<1> USE DEF Images, NoTrigger, Early, Patching, Staging, Closing, Trying, Undoing, Preparing
<1>1. UNCHANGED <<kind, bk, inserted, img>> /\ pc' = Vendor!Refused(b) /\ kern' = k BY DEF Vendor!FailLeaving
<1>2. /\ kern' \in {"other", "stock", "patched", "unknown", "torn"}
      /\ kern' = "torn" => /\ "manifest" \in sd.files /\ "stockKernel" \in sd.files
                           /\ Images("prev") /\ "pending" \notin bk.files
  BY <1>1 DEF FlashInv, FlashTypes, FlashGlobal, FlashAt
<1>3. CASE Vendor!Refused(b) = "restore"
  <2>1. "pending" \notin bk.files /\ "clean.conf" \in sd.files
    BY <1>3 DEF Vendor!Refused, Vendor!Flash, Vendor!Card
  <2>2. sd' = [sd EXCEPT !.files = @ \cup {"RESTORE"}] BY <1>3 DEF Vendor!FailLeaving
  <2>3. FlashTypes' BY <1>1, <1>2, <2>2 DEF FlashInv, FlashTypes, Vendor!CardFiles
  <2>4. FlashGlobal' BY <1>1, <1>2, <2>1, <2>2 DEF FlashInv, FlashTypes, FlashGlobal
  <2>5. FlashAt(pc)' BY <1>1, <1>3, <2>2 DEF FlashInv, FlashTypes, FlashAt
  <2>6. QED BY <2>3, <2>4, <2>5 DEF FlashInv
<1>4. CASE Vendor!Refused(b) # "restore"
  <2>1. sd' = sd BY <1>4 DEF Vendor!FailLeaving
  <2>2. \/ pc' = "stuck"
        \/ pc' = "rollback" /\ "dispatcher" \notin bk.files
    BY <1>1, <1>4 DEF Vendor!Refused, Vendor!Flash
  <2>3. FlashAt(pc)' BY <1>1, <2>1, <2>2 DEF FlashAt
  <2>4. FlashGlobal' BY <1>1, <1>2, <2>1 DEF FlashInv, FlashGlobal
  <2>5. QED BY <1>1, <1>2, <2>1, <2>3, <2>4 DEF FlashInv, FlashTypes
<1>5. QED BY <1>3, <1>4

\* The kernel is unknown to the script, or a step meets an error.
LEMMA BackupRefused ==
  ASSUME FlashInv, Vendor!Backup PROVE FlashInv'
BY BackupKeeps, FailKeeps DEF Vendor!Backup, Vendor!FailWith

LEMMA FailsKeeps ==
  ASSUME FlashInv, Vendor!Fails PROVE FlashInv'
<1>1. CASE Vendor!FailWith(ready) BY <1>1, FailKeeps DEF Vendor!FailWith
<1>2. CASE Vendor!KernelWriteFails BY <1>2, FailKeeps DEF Vendor!KernelWriteFails
<1>3. CASE Vendor!Goto("stuck")
  BY <1>3 DEF FlashInv, FlashTypes, FlashGlobal, FlashAt, Vendor!Goto, Images, NoTrigger,
     Early, Patching, Staging, Closing, Trying, Undoing, Preparing
<1>4. QED BY <1>1, <1>2, <1>3 DEF Vendor!Fails

\* StageSettings copies the settings with the startup.
LEMMA SettingsKeeps ==
  ASSUME FlashInv, Vendor!StageSettings PROVE FlashInv'
<1> USE DEF Images, NoTrigger, Early, Patching, Staging, Closing, Trying, Undoing, Preparing
<1>1. CASE Vendor!FailWith(ready) BY <1>1, FailKeeps DEF Vendor!FailWith
<1>2. CASE ~Vendor!FailWith(ready)
  <2>1. /\ sd' = [sd EXCEPT !.files = @ \cup {"config"}]
        /\ bk' = [bk EXCEPT !.files = @ \cup {"config"}]
        /\ pc = "settings" /\ pc' = "kernel" /\ UNCHANGED <<kind, kern, inserted, img>>
    BY <1>2 DEF Vendor!StageSettings
  <2>2. FlashTypes' BY <2>1 DEF FlashInv, FlashTypes, Vendor!BackupFiles, Vendor!CardFiles
  <2>3. FlashGlobal' BY <2>1 DEF FlashInv, FlashTypes, FlashGlobal
  <2>4. FlashAt(pc)' BY <2>1 DEF FlashInv, FlashTypes, FlashAt
  <2>5. QED BY <2>2, <2>3, <2>4 DEF FlashInv
<1>3. QED BY <1>1, <1>2

\* Enter decides between resuming, refusing and a first run.
LEMMA EnterKeeps ==
  ASSUME FlashInv, Vendor!Enter PROVE FlashInv'
<1> USE DEF Images, NoTrigger, Early, Patching, Staging, Closing, Trying, Undoing, Preparing
<1>1. pc = "install" BY DEF Vendor!Enter
<1>2. CASE "RESTORE" \in sd.files /\ Vendor!Goto("restore")
  BY <1>2 DEF FlashInv, FlashTypes, FlashGlobal, FlashAt, Vendor!Goto
<1>3. CASE Vendor!FailWith(Vendor!RollbackReady) BY <1>3, FailKeeps DEF Vendor!FailWith
<1>4. CASE /\ "RESTORE" \notin sd.files /\ UNCHANGED <<kind, kern, bk, sd, inserted, img>>
           /\ "release" \in bk.files \/ ("pending" \notin bk.files /\ Vendor!Fresh)
           /\ pc' = IF "pending" \in bk.files THEN "resume"
                    ELSE IF "clean.conf" \in sd.files THEN "stage" ELSE "backup"
  <2>1. inserted /\ kern # "torn"
    BY <1>1 DEF FlashInv, FlashAt
  <2>2. CASE "pending" \in bk.files
    BY <1>4, <2>1, <2>2 DEF FlashInv, FlashTypes, FlashGlobal, FlashAt
  <2>3. CASE "pending" \notin bk.files
    <3>1. Images("prev")
      BY <1>4, <2>3 DEF FlashInv, FlashGlobal, Vendor!Fresh, Vendor!All, Vendor!Parts
    <3>2. CASE kind = "clean"
      <4>1. pc' = "stage" /\ "clean.conf" \in sd.files /\ "dispatcher" \in bk.files
        BY <1>1, <1>4, <2>3, <3>2 DEF FlashInv, FlashAt
      <4>2. QED BY <1>4, <2>1, <2>3, <3>1, <3>2, <4>1 DEF FlashInv, FlashTypes, FlashGlobal, FlashAt
    <3>3. CASE kind = "vendor"
      <4>1. pc' = "backup" /\ "dispatcher" \notin bk.files
        BY <1>1, <1>4, <2>3, <3>3 DEF FlashInv, FlashGlobal, FlashAt
      <4>2. QED BY <1>4, <2>1, <2>3, <3>1, <3>3, <4>1 DEF FlashInv, FlashTypes, FlashGlobal, FlashAt
    <3>4. QED BY <3>2, <3>3 DEF FlashInv, FlashTypes
  <2>4. QED BY <2>2, <2>3
<1>5. QED BY <1>2, <1>3, <1>4 DEF Vendor!Enter, Vendor!Card, Vendor!Flash, Vendor!RollbackReady

\* SaveTool moves one updater tool of the vendor to the card.
LEMMA ToolKeeps ==
  ASSUME FlashInv, NEW t \in Tools, Vendor!SaveTool(t) PROVE FlashInv'
<1> USE DEF Images, NoTrigger, Early, Patching, Staging, Closing, Trying, Undoing, Preparing
<1>1. pc = "save" /\ UNCHANGED <<kind, kern, inserted, img, pc>> BY DEF Vendor!SaveTool
<1>2. CASE /\ sd.saved[t] # "whole" /\ UNCHANGED bk
           /\ sd' = [sd EXCEPT !.saved[t] = IF @ = "none" THEN "torn" ELSE "whole"]
  <2>1. FlashTypes' BY <1>1, <1>2 DEF FlashInv, FlashTypes
  <2>2. FlashGlobal' BY <1>1, <1>2 DEF FlashInv, FlashTypes, FlashGlobal
  <2>3. FlashAt(pc)' BY <1>1, <1>2 DEF FlashInv, FlashTypes, FlashAt
  <2>4. QED BY <2>1, <2>2, <2>3 DEF FlashInv
<1>3. CASE sd.saved[t] = "whole" /\ bk' = [bk EXCEPT !.tools[t] = "gone"] /\ UNCHANGED sd
  <2>1. FlashTypes' BY <1>1, <1>3 DEF FlashInv, FlashTypes
  <2>2. FlashGlobal' BY <1>1, <1>3 DEF FlashInv, FlashTypes, FlashGlobal
  <2>3. FlashAt(pc)' BY <1>1, <1>3 DEF FlashInv, FlashTypes, FlashAt
  <2>4. QED BY <2>1, <2>2, <2>3 DEF FlashInv
<1>4. QED BY <1>2, <1>3 DEF Vendor!SaveTool

\* StageImage puts the image of one filesystem where the bootloader finds it.
LEMMA ImageKeeps ==
  ASSUME FlashInv, NEW p \in Vendor!Parts, Vendor!StageImage(p) PROVE FlashInv'
<1> USE DEF Images, NoTrigger, Early, Patching, Staging, Closing, Trying, Undoing, Preparing, Vendor!Parts
<1>1. FlashTypes' BY DEF FlashInv, FlashTypes, Vendor!StageImage
<1>2. FlashGlobal' BY DEF FlashInv, FlashTypes, FlashGlobal, FlashAt, Vendor!StageImage
<1>3. FlashAt(pc)' BY DEF FlashInv, FlashTypes, FlashAt, Vendor!StageImage
<1>4. QED BY <1>1, <1>2, <1>3 DEF FlashInv

\* The bootloader erases a filesystem and writes the staged image of it.
LEMMA UBootKeeps ==
  ASSUME FlashInv, NEW p \in Vendor!Parts, Vendor!UBootErase(p) \/ Vendor!UBootWrite(p) PROVE FlashInv'
<1> USE DEF Images, NoTrigger, Early, Patching, Staging, Closing, Trying, Undoing, Preparing, Vendor!Parts
<1>1. CASE Vendor!UBootErase(p)
  <2>1. FlashTypes' BY <1>1 DEF FlashInv, FlashTypes, Vendor!UBootErase
  <2>2. /\ sd.trig[p] # "none" /\ sd.trig[p] # img[p] /\ sd.trig[p] \in {"none", "prev", "new"}
        /\ img' = [img EXCEPT ![p] = "torn"]
        /\ UNCHANGED <<kind, kern, bk, sd, inserted>>
        /\ pc' = IF p = "home" THEN "flash home" ELSE "flash rootfs"
    BY <1>1 DEF FlashInv, FlashTypes, Vendor!UBootErase, Vendor!Staged
  <2>3. /\ "dispatcher" \in bk.files
        /\ "pending" \in bk.files \/ "RESTORE" \in sd.files
    BY <2>2 DEF FlashInv, FlashTypes, FlashGlobal
  <2>4. FlashGlobal' BY <2>2, <2>3 DEF FlashInv, FlashTypes, FlashGlobal
  <2>5. FlashAt(pc)' BY <2>2, <2>3 DEF FlashInv, FlashTypes, FlashAt
  <2>6. QED BY <2>1, <2>4, <2>5 DEF FlashInv
<1>2. CASE Vendor!UBootWrite(p)
  <2>1. /\ img' = [img EXCEPT ![p] = sd.trig[p]] /\ pc' = "uboot" /\ UNCHANGED <<kind, kern, bk, sd, inserted>>
        /\ sd.trig[p] # "none" /\ sd.trig[p] \in {"none", "prev", "new"} /\ "dispatcher" \in bk.files
    BY <1>2 DEF FlashInv, FlashTypes, FlashAt, Vendor!UBootWrite
  <2>2. "pending" \in bk.files \/ "RESTORE" \in sd.files
    BY <2>1 DEF FlashInv, FlashGlobal
  <2>3. FlashTypes' BY <2>1 DEF FlashInv, FlashTypes
  <2>4. FlashGlobal' BY <2>1, <2>2 DEF FlashInv, FlashTypes, FlashGlobal
  <2>5. FlashAt(pc)' BY <2>1 DEF FlashAt
  <2>6. QED BY <2>3, <2>4, <2>5 DEF FlashInv
<1>3. QED BY <1>1, <1>2

\* Boot: what the dispatcher hands over to finds what it relies on.
LEMMA BootKeeps ==
  ASSUME FlashInv, Vendor!Boot PROVE FlashInv'
<1> USE DEF Images, NoTrigger, Early, Patching, Staging, Closing, Trying, Undoing, Preparing
<1>1. UNCHANGED <<kind, kern, bk, sd, inserted, img>> /\ pc' = Vendor!StartupWith(inserted)
  BY DEF Vendor!Boot
<1>2. SUFFICES FlashAt(pc)' BY <1>1 DEF FlashInv, FlashTypes, FlashGlobal
<1>3. CASE pc' = "stuck" BY <1>1, <1>3 DEF FlashAt
<1>3a. pc' = "stuck" \/ kern' # "torn" BY <1>1 DEF Vendor!StartupWith
<1>4. CASE kind = "vendor" /\ "dispatcher" \notin bk.files
  <2>1. pc' \in {"stuck", "runs prev"} \/ (pc' = "install" /\ inserted)
    BY <1>1, <1>4 DEF Vendor!StartupWith, Vendor!VendorInitWith, Vendor!Flash
  <2>2. Images("prev") BY <1>4 DEF FlashInv, FlashGlobal
  <2>3. QED BY <1>1, <1>3a, <1>4, <2>1, <2>2 DEF FlashAt
<1>5. CASE ~(kind = "vendor" /\ "dispatcher" \notin bk.files) /\ pc' # "stuck"
  <2>1. pc' = Vendor!DispatcherWith(inserted)
    BY <1>1, <1>5 DEF Vendor!StartupWith, Vendor!Flash
  <2>2. /\ "pending" \in bk.files => inserted
        /\ inserted /\ "clean.conf" \in sd.files => "dispatcher" \in bk.files /\ "manifest" \in sd.files
    BY <1>5, <2>1 DEF Vendor!DispatcherWith, Vendor!Flash, Vendor!Card
  <2>3. CASE inserted /\ "RESTORE" \in sd.files
    <3>1. pc' = "restore" BY <1>5, <2>1, <2>3 DEF Vendor!DispatcherWith, Vendor!Card
    <3>2. QED BY <1>1, <2>3, <3>1 DEF FlashAt
  <2>4. CASE ~(inserted /\ "RESTORE" \in sd.files)
    <3>1. pc' = Vendor!HandOver(inserted)
      BY <1>5, <2>1, <2>4 DEF Vendor!DispatcherWith, Vendor!Card
    <3>2. "RESTORE" \notin sd.files BY <2>4 DEF FlashInv, FlashTypes, FlashGlobal
    <3>3. CASE "pending" \in bk.files
      <4>1. pc' = "install" BY <3>1, <3>3 DEF Vendor!HandOver, Vendor!Flash
      <4>2. QED BY <1>1, <1>3a, <2>2, <3>3, <4>1 DEF FlashInv, FlashGlobal, FlashAt
    <3>4. CASE "pending" \notin bk.files /\ inserted /\ "CLEAN_INSTALL" \in sd.files
      <4>1. pc' = IF "clean.conf" \in sd.files THEN "install" ELSE "prepare"
        BY <3>1, <3>4 DEF Vendor!HandOver, Vendor!Flash, Vendor!Card
      <4>2. QED BY <1>1, <1>3a, <1>5, <2>2, <3>4, <4>1 DEF FlashInv, FlashTypes, FlashGlobal, FlashAt
    <3>5. CASE "pending" \notin bk.files /\ ~(inserted /\ "CLEAN_INSTALL" \in sd.files)
      <4>1. "dispatcher" \in bk.files /\ Images("new") /\ "core" \in bk.files
        BY <1>5, <2>2, <3>2, <3>5 DEF FlashInv, FlashTypes, FlashGlobal
      <4>2. pc' = "runs new" BY <3>1, <3>5, <4>1 DEF Vendor!HandOver, Vendor!Flash, Vendor!Card
      <4>3. QED BY <1>1, <1>3a, <4>1, <4>2 DEF FlashAt
    <3>6. QED BY <3>3, <3>4, <3>5
  <2>5. QED BY <2>3, <2>4
<1>6. QED BY <1>3, <1>4, <1>5

\* Power goes: what is in the flash and on the card stays as it is.
LEMMA PowerKeeps ==
  ASSUME FlashInv, pc' = "off", UNCHANGED <<kind, kern, bk, sd, inserted, img>> PROVE FlashInv'
<1>1. FlashTypes' BY DEF FlashInv, FlashTypes
<1>2. FlashGlobal' BY DEF FlashInv, FlashGlobal, Images
<1>3. FlashAt(pc)' BY DEF FlashAt, Early, Patching, Staging, Closing, Trying, Undoing, Preparing
<1>4. QED BY <1>1, <1>2, <1>3 DEF FlashInv

\* The owner asks for a restore, or takes the card out and puts it back.
LEMMA OwnerKeeps ==
  ASSUME FlashInv, Vendor!RequestRestore \/ (kind = "vendor" /\ Vendor!MoveCard) PROVE FlashInv'
<1> USE DEF Images, NoTrigger, Early, Patching, Staging, Closing, Trying, Undoing, Preparing, Vendor!Card, Vendor!Parts
<1>1. CASE Vendor!RequestRestore
  <2>1. FlashTypes' BY <1>1 DEF FlashInv, FlashTypes, Vendor!RequestRestore, Vendor!CardFiles
  <2>2. FlashGlobal' BY <1>1 DEF FlashInv, FlashTypes, FlashGlobal, Vendor!RequestRestore
  <2>3. FlashAt(pc)' BY <1>1 DEF FlashAt, Vendor!RequestRestore
  <2>4. QED BY <2>1, <2>2, <2>3 DEF FlashInv
<1>2. CASE kind = "vendor" /\ Vendor!MoveCard
  BY <1>2 DEF FlashInv, FlashTypes, FlashGlobal, FlashAt, Vendor!MoveCard
<1>3. QED BY <1>1, <1>2

\* Every step of the camera keeps the invariant.
LEMMA MachineKeeps ==
  ASSUME FlashInv, Vendor!Machine PROVE FlashInv'
<1>1. CASE Vendor!InstallNext
  BY <1>1, EnterKeeps, BackupKeeps, BackupRefused, ToolKeeps, StagingKeeps, SettingsKeeps,
     PatchingKeeps, ResumeKeeps, ClosingKeeps,
     AttemptKeeps, ImageKeeps, PrepareStarts, PrepareKeeps, RollbackKeeps DEF Vendor!InstallNext
<1>2. CASE Vendor!RestoreNext BY <1>2, RestoreKeeps DEF Vendor!RestoreNext
<1>3. QED BY <1>1, <1>2, StartKeeps, BootKeeps, UBootKeeps DEF Vendor!Machine

\* A clean installation steps as one over the vendor's firmware may, the card left in.
LEMMA CleanSteps ==
  Clean!Next => \/ Vendor!Machine \/ Vendor!Fails \/ Vendor!RequestRestore
                \/ pc' = "off" /\ UNCHANGED <<kind, kern, bk, sd, inserted, img>>
<1>1. Clean!PowerOff => pc' = "off" /\ UNCHANGED <<kind, kern, bk, sd, inserted, img>> BY DEF Clean!PowerOff
<1>2. ~Clean!MoveCard BY DEF Clean!MoveCard
<1>3. Clean!RequestRestore => Vendor!RequestRestore
  BY DEF Clean!RequestRestore, Vendor!RequestRestore, Clean!Card, Vendor!Card, Clean!Parts, Vendor!Parts
<1>4. Clean!Fails => Vendor!Fails
  BY DEF Clean!Fails, Vendor!Fails, Clean!KernelWriteFails, Vendor!KernelWriteFails, Clean!FailWith, Clean!FailLeaving, Vendor!FailWith, Vendor!FailLeaving, Clean!Refused, Vendor!Refused, Clean!Goto, Vendor!Goto,
     Clean!Flash, Vendor!Flash, Clean!Card, Vendor!Card, Clean!All, Vendor!All, Clean!Parts, Vendor!Parts
<1>5. Clean!Machine => Vendor!Machine
  <2>0. /\ (\E t \in Tools : Clean!SaveTool(t)) => \E t \in Tools : Vendor!SaveTool(t)
        /\ (\E p \in Clean!Parts : Clean!StageImage(p)) => \E p \in Vendor!Parts : Vendor!StageImage(p)
        /\ (\E p \in Clean!Parts : Clean!UBootErase(p) \/ Clean!UBootWrite(p))
               => \E p \in Vendor!Parts : Vendor!UBootErase(p) \/ Vendor!UBootWrite(p)
    <3>1. ASSUME NEW t PROVE Clean!SaveTool(t) => Vendor!SaveTool(t) BY DEF Clean!SaveTool, Vendor!SaveTool
    <3>2. ASSUME NEW p PROVE Clean!StageImage(p) => Vendor!StageImage(p) BY DEF Clean!StageImage, Vendor!StageImage
    <3>3. ASSUME NEW p PROVE /\ Clean!UBootErase(p) => Vendor!UBootErase(p)
                             /\ Clean!UBootWrite(p) => Vendor!UBootWrite(p)
      BY DEF Clean!UBootErase, Vendor!UBootErase, Clean!UBootWrite, Vendor!UBootWrite, Clean!Staged,
       Vendor!Staged
    <3>4. Clean!Parts = Vendor!Parts BY DEF Clean!Parts, Vendor!Parts
    <3>5. QED BY <3>1, <3>2, <3>3, <3>4
  <2>1. /\ Clean!PowerOn => Vendor!PowerOn
        /\ Clean!Kernel => Vendor!Kernel
    BY DEF Clean!PowerOn, Vendor!PowerOn, Clean!Kernel, Vendor!Kernel, Clean!Staged, Vendor!Staged,
       Clean!Parts, Vendor!Parts
  <2>2. Clean!Boot => Vendor!Boot
    BY DEF Clean!Boot, Vendor!Boot, Clean!StartupWith, Vendor!StartupWith, Clean!VendorInitWith,
       Vendor!VendorInitWith, Clean!DispatcherWith, Vendor!DispatcherWith, Clean!HandOver,
       Vendor!HandOver, Clean!Flash, Vendor!Flash, Clean!Card, Vendor!Card, Clean!Parts,
       Vendor!Parts
  <2>3. Clean!Enter => Vendor!Enter
    BY DEF Clean!Enter, Vendor!Enter, Clean!Goto, Vendor!Goto, Clean!RollbackReady,
       Vendor!RollbackReady, Clean!Fresh, Vendor!Fresh, Clean!FailWith, Vendor!FailWith, Clean!FailLeaving, Vendor!FailLeaving,
       Clean!Refused, Vendor!Refused, Clean!All, Vendor!All, Clean!Flash, Vendor!Flash, Clean!Card,
       Vendor!Card, Clean!Parts, Vendor!Parts
  <2>4. /\ Clean!RefuseCard => Vendor!RefuseCard
        /\ Clean!Manifest => Vendor!Manifest
        /\ Clean!ForgetRequest => Vendor!ForgetRequest
        /\ Clean!RetireHook => Vendor!RetireHook
        /\ Clean!RemoveRestore => Vendor!RemoveRestore
        /\ Clean!RemoveHook => Vendor!RemoveHook
        /\ Clean!PrepareConf => Vendor!PrepareConf
        /\ Clean!PrepareManifest => Vendor!PrepareManifest
        /\ Clean!RollbackHook => Vendor!RollbackHook
    BY DEF Clean!RefuseCard, Vendor!RefuseCard, Clean!Manifest,
       Vendor!Manifest, Clean!ForgetRequest, Vendor!ForgetRequest, Clean!RetireHook,
       Vendor!RetireHook, Clean!RemoveRestore, Vendor!RemoveRestore, Clean!RemoveHook,
       Vendor!RemoveHook, Clean!PrepareConf, Vendor!PrepareConf, Clean!PrepareManifest,
       Vendor!PrepareManifest, Clean!RollbackHook, Vendor!RollbackHook, Clean!CardWrite,
       Vendor!CardWrite
  <2>4a. Clean!Backup => Vendor!Backup
    BY DEF Clean!Backup, Vendor!Backup, Clean!CardWrite, Vendor!CardWrite, Clean!KernelKnown, Vendor!KernelKnown,
       Clean!FailWith, Vendor!FailWith, Clean!FailLeaving, Vendor!FailLeaving, Clean!Refused, Vendor!Refused,
       Clean!All, Vendor!All, Clean!Flash, Vendor!Flash, Clean!Card, Vendor!Card, Clean!Parts, Vendor!Parts
  <2>4b. /\ Clean!KeepStockKernel => Vendor!KeepStockKernel
         /\ Clean!WriteKernel => Vendor!WriteKernel
         /\ Clean!ReadKernelBack => Vendor!ReadKernelBack
    BY DEF Clean!KeepStockKernel, Vendor!KeepStockKernel, Clean!WriteKernel, Vendor!WriteKernel,
       Clean!ReadKernelBack, Vendor!ReadKernelBack, Clean!CardWrite, Vendor!CardWrite, Clean!Goto, Vendor!Goto
  <2>5. /\ Clean!StageStartup => Vendor!StageStartup
        /\ Clean!StageDispatcher => Vendor!StageDispatcher
        /\ Clean!Activate => Vendor!Activate
        /\ Clean!Journal => Vendor!Journal
        /\ Clean!Rename => Vendor!Rename
        /\ Clean!Repair => Vendor!Repair
        /\ Clean!Commit => Vendor!Commit
        /\ Clean!PrepareStage => Vendor!PrepareStage
        /\ Clean!PrepareRename => Vendor!PrepareRename
        /\ Clean!RestoreInit => Vendor!RestoreInit
        /\ Clean!RemovePending => Vendor!RemovePending
    BY DEF Clean!StageStartup, Vendor!StageStartup, Clean!StageDispatcher, Vendor!StageDispatcher,
       Clean!Activate, Vendor!Activate, Clean!Journal, Vendor!Journal, Clean!Rename, Vendor!Rename,
       Clean!Repair, Vendor!Repair, Clean!Commit, Vendor!Commit, Clean!PrepareStage,
       Vendor!PrepareStage, Clean!PrepareRename, Vendor!PrepareRename, Clean!RestoreInit,
       Vendor!RestoreInit, Clean!RemovePending, Vendor!RemovePending, Clean!Write, Vendor!Write
  <2>6. Clean!StageSettings => Vendor!StageSettings
    BY DEF Clean!StageSettings, Vendor!StageSettings, Clean!FailWith, Vendor!FailWith, Clean!FailLeaving, Vendor!FailLeaving,
       Clean!Refused, Vendor!Refused, Clean!All, Vendor!All, Clean!Flash, Vendor!Flash, Clean!Card,
       Vendor!Card, Clean!Parts, Vendor!Parts
  <2>7. Clean!Resume => Vendor!Resume
    BY DEF Clean!Resume, Vendor!Resume, Clean!Write, Vendor!Write, Clean!Goto, Vendor!Goto,
       Clean!FailWith, Vendor!FailWith, Clean!FailLeaving, Vendor!FailLeaving, Clean!Refused, Vendor!Refused, Clean!All, Vendor!All,
       Clean!Flash, Vendor!Flash, Clean!Card, Vendor!Card, Clean!Parts, Vendor!Parts
  <2>8. /\ Clean!Reclaimed => Vendor!Reclaimed
        /\ Clean!Attempt => Vendor!Attempt
        /\ Clean!RetireTriggers => Vendor!RetireTriggers
        /\ Clean!RemoveTriggers => Vendor!RemoveTriggers
        /\ Clean!Rollback => Vendor!Rollback
        /\ Clean!RestoreFiles => Vendor!RestoreFiles
    BY DEF Clean!Reclaimed, Vendor!Reclaimed, Clean!Attempt, Vendor!Attempt, Clean!RetireTriggers,
       Vendor!RetireTriggers, Clean!RemoveTriggers, Vendor!RemoveTriggers, Clean!Rollback,
       Vendor!Rollback, Clean!RestoreFiles, Vendor!RestoreFiles, Clean!Unstage, Vendor!Unstage,
       Clean!All, Vendor!All, Clean!Card, Vendor!Card, Clean!Parts, Vendor!Parts
  <2>9. /\ Clean!RestoreTools => Vendor!RestoreTools
        /\ Clean!RollbackTools => Vendor!RollbackTools
    BY DEF Clean!RestoreTools, Vendor!RestoreTools, Clean!RollbackTools, Vendor!RollbackTools,
       Clean!PutBackTools, Vendor!PutBackTools
  <2>10. /\ Clean!Prepare => Vendor!Prepare
         /\ Clean!Restore => Vendor!Restore
    BY DEF Clean!Prepare, Vendor!Prepare, Clean!KernelKnown, Vendor!KernelKnown, Clean!Restore, Vendor!Restore, Clean!Write, Vendor!Write,
       Clean!CardWrite, Vendor!CardWrite, Clean!Goto, Vendor!Goto, Clean!All, Vendor!All,
       Clean!Flash, Vendor!Flash, Clean!Card, Vendor!Card, Clean!Parts, Vendor!Parts
  <2>11. Clean!InstallNext => Vendor!InstallNext
    BY <2>0, <2>3, <2>4, <2>4a, <2>4b, <2>5, <2>6, <2>7, <2>8, <2>9, <2>10 DEF Clean!InstallNext, Vendor!InstallNext
  <2>12. Clean!RestoreNext => Vendor!RestoreNext
    BY <2>4, <2>5, <2>8, <2>9, <2>10 DEF Clean!RestoreNext, Vendor!RestoreNext
  <2>13. QED BY <2>0, <2>1, <2>2, <2>11, <2>12 DEF Clean!Machine, Vendor!Machine
<1>6. QED BY <1>1, <1>2, <1>3, <1>4, <1>5 DEF Clean!Next

\* So does one with sound power and storage.
LEMMA SoundSteps ==
  Sound!Next => \/ Vendor!Machine
                \/ pc # "read kernel" /\ pc' = "off" /\ UNCHANGED <<kind, kern, bk, sd, inserted, img>>
<1>1. Sound!PowerOff => pc # "read kernel" /\ pc' = "off" /\ UNCHANGED <<kind, kern, bk, sd, inserted, img>>
  BY DEF Sound!PowerOff, Sound!Rest, Sound!Running
<1>2. ~Sound!MoveCard /\ ~Sound!RequestRestore /\ ~Sound!Fails
  BY DEF Sound!MoveCard, Sound!RequestRestore, Sound!Fails
<1>3. Sound!Machine => Vendor!Machine
  <2>0. /\ (\E t \in Tools : Sound!SaveTool(t)) => \E t \in Tools : Vendor!SaveTool(t)
        /\ (\E p \in Sound!Parts : Sound!StageImage(p)) => \E p \in Vendor!Parts : Vendor!StageImage(p)
        /\ (\E p \in Sound!Parts : Sound!UBootErase(p) \/ Sound!UBootWrite(p))
               => \E p \in Vendor!Parts : Vendor!UBootErase(p) \/ Vendor!UBootWrite(p)
    <3>1. ASSUME NEW t PROVE Sound!SaveTool(t) => Vendor!SaveTool(t) BY DEF Sound!SaveTool, Vendor!SaveTool
    <3>2. ASSUME NEW p PROVE Sound!StageImage(p) => Vendor!StageImage(p) BY DEF Sound!StageImage, Vendor!StageImage
    <3>3. ASSUME NEW p PROVE /\ Sound!UBootErase(p) => Vendor!UBootErase(p)
                             /\ Sound!UBootWrite(p) => Vendor!UBootWrite(p)
      BY DEF Sound!UBootErase, Vendor!UBootErase, Sound!UBootWrite, Vendor!UBootWrite, Sound!Staged,
       Vendor!Staged
    <3>4. Sound!Parts = Vendor!Parts BY DEF Sound!Parts, Vendor!Parts
    <3>5. QED BY <3>1, <3>2, <3>3, <3>4
  <2>1. /\ Sound!PowerOn => Vendor!PowerOn
        /\ Sound!Kernel => Vendor!Kernel
    BY DEF Sound!PowerOn, Vendor!PowerOn, Sound!Kernel, Vendor!Kernel, Sound!Staged, Vendor!Staged,
       Sound!Parts, Vendor!Parts
  <2>2. Sound!Boot => Vendor!Boot
    BY DEF Sound!Boot, Vendor!Boot, Sound!StartupWith, Vendor!StartupWith, Sound!VendorInitWith,
       Vendor!VendorInitWith, Sound!DispatcherWith, Vendor!DispatcherWith, Sound!HandOver,
       Vendor!HandOver, Sound!Flash, Vendor!Flash, Sound!Card, Vendor!Card, Sound!Parts,
       Vendor!Parts
  <2>3. Sound!Enter => Vendor!Enter
    BY DEF Sound!Enter, Vendor!Enter, Sound!Goto, Vendor!Goto, Sound!RollbackReady,
       Vendor!RollbackReady, Sound!Fresh, Vendor!Fresh, Sound!FailWith, Vendor!FailWith, Sound!FailLeaving, Vendor!FailLeaving,
       Sound!Refused, Vendor!Refused, Sound!All, Vendor!All, Sound!Flash, Vendor!Flash, Sound!Card,
       Vendor!Card, Sound!Parts, Vendor!Parts
  <2>4. /\ Sound!RefuseCard => Vendor!RefuseCard
        /\ Sound!Manifest => Vendor!Manifest
        /\ Sound!ForgetRequest => Vendor!ForgetRequest
        /\ Sound!RetireHook => Vendor!RetireHook
        /\ Sound!RemoveRestore => Vendor!RemoveRestore
        /\ Sound!RemoveHook => Vendor!RemoveHook
        /\ Sound!PrepareConf => Vendor!PrepareConf
        /\ Sound!PrepareManifest => Vendor!PrepareManifest
        /\ Sound!RollbackHook => Vendor!RollbackHook
    BY DEF Sound!RefuseCard, Vendor!RefuseCard, Sound!Manifest,
       Vendor!Manifest, Sound!ForgetRequest, Vendor!ForgetRequest, Sound!RetireHook,
       Vendor!RetireHook, Sound!RemoveRestore, Vendor!RemoveRestore, Sound!RemoveHook,
       Vendor!RemoveHook, Sound!PrepareConf, Vendor!PrepareConf, Sound!PrepareManifest,
       Vendor!PrepareManifest, Sound!RollbackHook, Vendor!RollbackHook, Sound!CardWrite,
       Vendor!CardWrite
  <2>4a. Sound!Backup => Vendor!Backup
    BY DEF Sound!Backup, Vendor!Backup, Sound!CardWrite, Vendor!CardWrite, Sound!KernelKnown, Vendor!KernelKnown,
       Sound!FailWith, Vendor!FailWith, Sound!FailLeaving, Vendor!FailLeaving, Sound!Refused, Vendor!Refused,
       Sound!All, Vendor!All, Sound!Flash, Vendor!Flash, Sound!Card, Vendor!Card, Sound!Parts, Vendor!Parts
  <2>4b. /\ Sound!KeepStockKernel => Vendor!KeepStockKernel
         /\ Sound!WriteKernel => Vendor!WriteKernel
         /\ Sound!ReadKernelBack => Vendor!ReadKernelBack
    BY DEF Sound!KeepStockKernel, Vendor!KeepStockKernel, Sound!WriteKernel, Vendor!WriteKernel,
       Sound!ReadKernelBack, Vendor!ReadKernelBack, Sound!CardWrite, Vendor!CardWrite, Sound!Goto, Vendor!Goto
  <2>5. /\ Sound!StageStartup => Vendor!StageStartup
        /\ Sound!StageDispatcher => Vendor!StageDispatcher
        /\ Sound!Activate => Vendor!Activate
        /\ Sound!Journal => Vendor!Journal
        /\ Sound!Rename => Vendor!Rename
        /\ Sound!Repair => Vendor!Repair
        /\ Sound!Commit => Vendor!Commit
        /\ Sound!PrepareStage => Vendor!PrepareStage
        /\ Sound!PrepareRename => Vendor!PrepareRename
        /\ Sound!RestoreInit => Vendor!RestoreInit
        /\ Sound!RemovePending => Vendor!RemovePending
    BY DEF Sound!StageStartup, Vendor!StageStartup, Sound!StageDispatcher, Vendor!StageDispatcher,
       Sound!Activate, Vendor!Activate, Sound!Journal, Vendor!Journal, Sound!Rename, Vendor!Rename,
       Sound!Repair, Vendor!Repair, Sound!Commit, Vendor!Commit, Sound!PrepareStage,
       Vendor!PrepareStage, Sound!PrepareRename, Vendor!PrepareRename, Sound!RestoreInit,
       Vendor!RestoreInit, Sound!RemovePending, Vendor!RemovePending, Sound!Write, Vendor!Write
  <2>6. Sound!StageSettings => Vendor!StageSettings
    BY DEF Sound!StageSettings, Vendor!StageSettings, Sound!FailWith, Vendor!FailWith, Sound!FailLeaving, Vendor!FailLeaving,
       Sound!Refused, Vendor!Refused, Sound!All, Vendor!All, Sound!Flash, Vendor!Flash, Sound!Card,
       Vendor!Card, Sound!Parts, Vendor!Parts
  <2>7. Sound!Resume => Vendor!Resume
    BY DEF Sound!Resume, Vendor!Resume, Sound!Write, Vendor!Write, Sound!Goto, Vendor!Goto,
       Sound!FailWith, Vendor!FailWith, Sound!FailLeaving, Vendor!FailLeaving, Sound!Refused, Vendor!Refused, Sound!All, Vendor!All,
       Sound!Flash, Vendor!Flash, Sound!Card, Vendor!Card, Sound!Parts, Vendor!Parts
  <2>8. /\ Sound!Reclaimed => Vendor!Reclaimed
        /\ Sound!Attempt => Vendor!Attempt
        /\ Sound!RetireTriggers => Vendor!RetireTriggers
        /\ Sound!RemoveTriggers => Vendor!RemoveTriggers
        /\ Sound!Rollback => Vendor!Rollback
        /\ Sound!RestoreFiles => Vendor!RestoreFiles
    BY DEF Sound!Reclaimed, Vendor!Reclaimed, Sound!Attempt, Vendor!Attempt, Sound!RetireTriggers,
       Vendor!RetireTriggers, Sound!RemoveTriggers, Vendor!RemoveTriggers, Sound!Rollback,
       Vendor!Rollback, Sound!RestoreFiles, Vendor!RestoreFiles, Sound!Unstage, Vendor!Unstage,
       Sound!All, Vendor!All, Sound!Card, Vendor!Card, Sound!Parts, Vendor!Parts
  <2>9. /\ Sound!RestoreTools => Vendor!RestoreTools
        /\ Sound!RollbackTools => Vendor!RollbackTools
    BY DEF Sound!RestoreTools, Vendor!RestoreTools, Sound!RollbackTools, Vendor!RollbackTools,
       Sound!PutBackTools, Vendor!PutBackTools
  <2>10. /\ Sound!Prepare => Vendor!Prepare
         /\ Sound!Restore => Vendor!Restore
    BY DEF Sound!Prepare, Vendor!Prepare, Sound!KernelKnown, Vendor!KernelKnown, Sound!Restore, Vendor!Restore, Sound!Write, Vendor!Write,
       Sound!CardWrite, Vendor!CardWrite, Sound!Goto, Vendor!Goto, Sound!All, Vendor!All,
       Sound!Flash, Vendor!Flash, Sound!Card, Vendor!Card, Sound!Parts, Vendor!Parts
  <2>11. Sound!InstallNext => Vendor!InstallNext
    BY <2>0, <2>3, <2>4, <2>4a, <2>4b, <2>5, <2>6, <2>7, <2>8, <2>9, <2>10 DEF Sound!InstallNext, Vendor!InstallNext
  <2>12. Sound!RestoreNext => Vendor!RestoreNext
    BY <2>4, <2>5, <2>8, <2>9, <2>10 DEF Sound!RestoreNext, Vendor!RestoreNext
  <2>13. QED BY <2>0, <2>1, <2>2, <2>11, <2>12 DEF Sound!Machine, Vendor!Machine
<1>4. QED BY <1>1, <1>2, <1>3 DEF Sound!Next

\* No step changes the kind of the installation.
LEMMA KindStays ==
  Vendor!Machine \/ Vendor!Fails \/ Vendor!RequestRestore \/ Vendor!MoveCard => UNCHANGED kind
<1>1. Vendor!PowerOn \/ Vendor!Kernel => UNCHANGED kind
  BY DEF Vendor!PowerOn, Vendor!Kernel
<1>2. Vendor!Boot => UNCHANGED kind
  BY DEF Vendor!Boot
<1>3. Vendor!Enter => UNCHANGED kind
  BY DEF Vendor!Enter, Vendor!Goto, Vendor!FailWith, Vendor!FailLeaving
<1>4. Vendor!RefuseCard \/ Vendor!Backup \/ Vendor!Manifest \/ Vendor!ForgetRequest \/
      Vendor!RetireHook \/ Vendor!RemoveRestore \/ Vendor!RemoveHook \/ Vendor!PrepareConf \/
      Vendor!PrepareManifest \/ Vendor!RollbackHook => UNCHANGED kind
  BY DEF Vendor!RefuseCard, Vendor!Backup, Vendor!FailWith, Vendor!FailLeaving, Vendor!Manifest, Vendor!ForgetRequest, Vendor!RetireHook,
     Vendor!RemoveRestore, Vendor!RemoveHook, Vendor!PrepareConf, Vendor!PrepareManifest,
     Vendor!RollbackHook, Vendor!CardWrite
<1>5. Vendor!StageStartup \/ Vendor!StageDispatcher \/ Vendor!Activate \/ Vendor!Journal \/
      Vendor!Rename \/ Vendor!Repair \/ Vendor!Commit \/ Vendor!PrepareStage \/ Vendor!PrepareRename
      \/ Vendor!RestoreInit \/ Vendor!RemovePending => UNCHANGED kind
  BY DEF Vendor!StageStartup, Vendor!StageDispatcher, Vendor!Activate, Vendor!Journal,
     Vendor!Rename, Vendor!Repair, Vendor!Commit, Vendor!PrepareStage, Vendor!PrepareRename,
     Vendor!RestoreInit, Vendor!RemovePending, Vendor!Write
<1>6a. Vendor!KeepStockKernel \/ Vendor!WriteKernel \/ Vendor!ReadKernelBack => UNCHANGED kind
  BY DEF Vendor!KeepStockKernel, Vendor!WriteKernel, Vendor!ReadKernelBack, Vendor!CardWrite, Vendor!Goto
<1>6. Vendor!StageSettings => UNCHANGED kind
  BY DEF Vendor!StageSettings, Vendor!FailWith, Vendor!FailLeaving
<1>7. Vendor!Resume => UNCHANGED kind
  BY DEF Vendor!Resume, Vendor!Write, Vendor!Goto, Vendor!FailWith, Vendor!FailLeaving
<1>8. Vendor!Reclaimed \/ Vendor!Attempt \/ Vendor!RetireTriggers \/ Vendor!RemoveTriggers \/
      Vendor!Rollback \/ Vendor!RestoreFiles => UNCHANGED kind
  BY DEF Vendor!Reclaimed, Vendor!Attempt, Vendor!RetireTriggers, Vendor!RemoveTriggers,
     Vendor!Rollback, Vendor!RestoreFiles, Vendor!Unstage
<1>9. Vendor!RestoreTools \/ Vendor!RollbackTools => UNCHANGED kind
  BY DEF Vendor!RestoreTools, Vendor!RollbackTools, Vendor!PutBackTools
<1>10. Vendor!Prepare \/ Vendor!Restore => UNCHANGED kind
  BY DEF Vendor!Prepare, Vendor!Restore, Vendor!Write, Vendor!CardWrite, Vendor!Goto
<1>11. Vendor!Fails \/ Vendor!RequestRestore \/ Vendor!MoveCard => UNCHANGED kind
  BY DEF Vendor!Fails, Vendor!KernelWriteFails, Vendor!RequestRestore, Vendor!MoveCard, Vendor!FailWith, Vendor!FailLeaving, Vendor!Goto
<1>12. \A t, p : Vendor!SaveTool(t) \/ Vendor!UBootErase(p) \/ Vendor!UBootWrite(p) \/ Vendor!StageImage(p) => UNCHANGED kind
  BY DEF Vendor!SaveTool, Vendor!UBootErase, Vendor!UBootWrite, Vendor!StageImage
<1>13. QED BY <1>1, <1>2, <1>3, <1>4, <1>5, <1>6, <1>6a, <1>7, <1>8, <1>9, <1>10, <1>11, <1>12
     DEF Vendor!Machine, Vendor!InstallNext, Vendor!RestoreNext

\* The invariant holds before the first installation and before a clean one.
LEMMA FlashStart == Init => FlashInv
<1> SUFFICES ASSUME Init PROVE FlashInv OBVIOUS
<1>0. MaxAttempts \in Nat BY FlashConstants DEF Vendor!FlashAssumption
<1>1. /\ kind \in {"vendor", "clean"} /\ inserted /\ pc = "off"
      /\ bk = [files |-> IF kind = "clean" THEN {"oldcore", "original", "oldconfig"} ELSE {},
               tools |-> [t \in Tools |-> "whole"]]
      /\ sd = [files |-> {"hook", "CLEAN_INSTALL"}, trig |-> [p \in Vendor!Parts |-> "none"],
               saved |-> [t \in Tools |-> "none"], attempts |-> 0]
      /\ img = [p \in Vendor!Parts |-> "prev"]
      /\ kern \in {"other", "stock", "patched", "unknown"}
  BY DEF Init, Vendor!Init, Clean!Init, Sound!Init, Vendor!Parts, Clean!Parts, Sound!Parts
<1>2. FlashTypes BY <1>0, <1>1 DEF FlashTypes, Vendor!BackupFiles, Vendor!CardFiles, Vendor!Parts
<1>3. FlashGlobal BY <1>1 DEF FlashGlobal, Images, Vendor!Parts
<1>4. FlashAt(pc) BY <1>1 DEF FlashAt, Early, Patching, Staging, Closing, Trying, Undoing, Preparing
<1>5. QED BY <1>2, <1>3, <1>4 DEF FlashInv

\* The other parts do not touch what the installer writes.
LEMMA FlashFrame == ASSUME FlashInv, UNCHANGED install PROVE FlashInv'
<1>1. UNCHANGED <<kind, kern, bk, sd, inserted, img, pc>> BY DEF install
<1>2. FlashTypes' BY <1>1 DEF FlashInv, FlashTypes
<1>3. FlashGlobal' BY <1>1 DEF FlashInv, FlashGlobal, Images
<1>4. FlashAt(pc)'
  <2>1. FlashAt(pc) BY DEF FlashInv
  <2>2. FlashAt(pc)' = FlashAt(pc) BY <1>1, Zenon DEF FlashAt, Images, NoTrigger
  <2>3. QED BY <2>1, <2>2
<1>5. QED BY <1>2, <1>3, <1>4 DEF FlashInv

\* With sound power and storage the kernel is torn only in the step that writes it.
LEMMA TornInStep ==
  ASSUME FlashInv, kern = "torn" => pc = "read kernel", Vendor!Machine
  PROVE  (kern = "torn" => pc = "read kernel")'
<1>1. CASE Vendor!WriteKernel BY <1>1 DEF Vendor!WriteKernel
<1>2. CASE Vendor!ReadKernelBack BY <1>2 DEF Vendor!ReadKernelBack
<1>3. CASE UNCHANGED kern /\ pc # "read kernel" BY <1>3
<1>4. Vendor!PowerOn \/ Vendor!Kernel \/ Vendor!Boot => UNCHANGED kern /\ pc # "read kernel"
  BY DEF Vendor!PowerOn, Vendor!Kernel, Vendor!Boot
<1>5. \A p \in Vendor!Parts : Vendor!UBootErase(p) \/ Vendor!UBootWrite(p) \/ Vendor!StageImage(p)
          => UNCHANGED kern /\ pc # "read kernel"
  BY DEF Vendor!UBootErase, Vendor!UBootWrite, Vendor!StageImage, Vendor!Parts
<1>6. Vendor!RestoreNext => UNCHANGED kern /\ pc # "read kernel"
  BY DEF Vendor!RestoreNext, Vendor!Restore, Vendor!RestoreTools, Vendor!RestoreFiles, Vendor!RestoreInit,
     Vendor!RemovePending, Vendor!RemoveTriggers, Vendor!RemoveRestore, Vendor!RemoveHook,
     Vendor!Write, Vendor!CardWrite, Vendor!Goto, Vendor!PutBackTools, Vendor!Unstage
<1>7. \A t \in Tools : Vendor!SaveTool(t) => UNCHANGED kern /\ pc # "read kernel"
  BY DEF Vendor!SaveTool
<1>8. \/ Vendor!Enter \/ Vendor!RefuseCard \/ Vendor!Backup \/ Vendor!Manifest \/ Vendor!Reclaimed
      \/ Vendor!StageStartup \/ Vendor!StageSettings \/ Vendor!KeepStockKernel \/ Vendor!StageDispatcher
      \/ Vendor!Activate \/ Vendor!Journal \/ Vendor!ForgetRequest \/ Vendor!Rename
      => UNCHANGED kern /\ pc # "read kernel"
  BY DEF Vendor!Enter, Vendor!RefuseCard, Vendor!Backup, Vendor!Manifest, Vendor!Reclaimed, Vendor!StageStartup,
     Vendor!StageSettings, Vendor!KeepStockKernel, Vendor!StageDispatcher, Vendor!Activate, Vendor!Journal,
     Vendor!ForgetRequest, Vendor!Rename, Vendor!Write, Vendor!CardWrite, Vendor!Goto, Vendor!FailWith, Vendor!FailLeaving
<1>9. \/ Vendor!Resume \/ Vendor!Repair \/ Vendor!RetireTriggers \/ Vendor!RetireHook \/ Vendor!Commit
      \/ Vendor!Attempt \/ Vendor!Prepare \/ Vendor!PrepareConf \/ Vendor!PrepareManifest \/ Vendor!PrepareStage
      \/ Vendor!PrepareRename \/ Vendor!Rollback \/ Vendor!RollbackTools \/ Vendor!RollbackHook
      => UNCHANGED kern /\ pc # "read kernel"
  BY DEF Vendor!Resume, Vendor!Repair, Vendor!RetireTriggers, Vendor!RetireHook, Vendor!Commit,
     Vendor!Attempt, Vendor!Prepare, Vendor!PrepareConf, Vendor!PrepareManifest, Vendor!PrepareStage,
     Vendor!PrepareRename, Vendor!Rollback, Vendor!RollbackTools, Vendor!RollbackHook,
     Vendor!Write, Vendor!CardWrite, Vendor!Goto, Vendor!FailWith, Vendor!FailLeaving, Vendor!PutBackTools, Vendor!Unstage
<1>10. QED BY <1>1, <1>2, <1>3, <1>4, <1>5, <1>6, <1>7, <1>8, <1>9 DEF Vendor!Machine, Vendor!InstallNext

\* The installation of part "vendor" is one over the vendor's firmware, and in
\* part "sound" nothing cuts off the write of the kernel.
KindInv ==
    /\ part = "vendor" => kind = "vendor"
    /\ part = "sound" => (kern = "torn" => pc = "read kernel")

\* FlashInv is inductive, in each of the three parts that install.
LEMMA FlashStep ==
  ASSUME FlashInv, KindInv, [Next]_vars PROVE FlashInv' /\ KindInv'
<1>1. CASE UNCHANGED install BY <1>1, FlashFrame DEF KindInv, Next, vars, install
<1>2. CASE part = "vendor" /\ Vendor!Next
  <2>1. kind = "vendor" /\ part' = "vendor" BY <1>2 DEF KindInv, Next, vars
  <2>2. CASE Vendor!PowerOff
    <3>1. pc' = "off" /\ UNCHANGED <<kind, kern, bk, sd, inserted, img>> BY <2>2 DEF Vendor!PowerOff
    <3>2. FlashInv' BY <3>1, PowerKeeps
    <3>3. QED BY <2>1, <3>1, <3>2 DEF KindInv
  <2>3. CASE ~Vendor!PowerOff
    <3>1. FlashInv' BY <1>2, <2>1, <2>3, MachineKeeps, FailsKeeps, OwnerKeeps DEF Vendor!Next
    <3>2. UNCHANGED kind BY <1>2, <2>3, KindStays DEF Vendor!Next
    <3>3. QED BY <2>1, <3>1, <3>2 DEF KindInv
  <2>4. QED BY <2>2, <2>3
<1>3. CASE part = "clean" /\ Clean!Next
  <2>1. part' = "clean" BY <1>3 DEF Next, vars
  <2>2. FlashInv' BY <1>3, CleanSteps, MachineKeeps, FailsKeeps, OwnerKeeps, PowerKeeps
  <2>3. QED BY <2>1, <2>2 DEF KindInv
<1>4. CASE part = "sound" /\ Sound!Next
  <2>1. part' = "sound" BY <1>4 DEF Next, vars
  <2>2. FlashInv' BY <1>4, SoundSteps, MachineKeeps, PowerKeeps
  <2>3. (kern = "torn" => pc = "read kernel")' BY <1>4, SoundSteps, TornInStep DEF KindInv
  <2>4. QED BY <2>1, <2>2, <2>3 DEF KindInv
<1>5. QED BY <1>1, <1>2, <1>3, <1>4 DEF Next, vars

\* The invariant says that wherever power goes there is a way forward or back.
LEMMA FlashFromInv == ASSUME FlashInv, KindInv PROVE AlwaysRecoverable
<1> USE DEF Images
<1>1. Vendor!StartupMatchesImages
  BY DEF FlashInv, FlashAt, Vendor!StartupMatchesImages, Vendor!All, Vendor!Parts, Vendor!Flash
<1>2. Vendor!BackedUp
  BY DEF FlashInv, FlashGlobal, Vendor!BackedUp, Vendor!All, Vendor!Parts, Vendor!Flash, Vendor!Card
<1>2a. Vendor!TornKernelKept
  BY DEF FlashInv, FlashTypes, FlashGlobal, Vendor!TornKernelKept, Vendor!All, Vendor!Parts, Vendor!Flash, Vendor!Card
<1>2b. part = "sound" => Vendor!TornWhileWritten BY DEF KindInv, Vendor!TornWhileWritten
<1>3. ASSUME part = "vendor", kern # "torn" PROVE Vendor!BootsWithoutCard /\ Vendor!NoDeadEnd
  <2>1. kind = "vendor" BY <1>3 DEF KindInv
  <2>2. CASE "dispatcher" \notin bk.files
    <3>1. Images("prev") BY <2>2 DEF FlashInv, FlashGlobal
    <3>2. Vendor!StartupWith(FALSE) = "runs prev"
      BY <1>3, <2>1, <2>2, <3>1 DEF Vendor!StartupWith, Vendor!VendorInitWith, Vendor!Flash, Vendor!Parts
    <3>3. QED BY <3>1, <3>2 DEF Vendor!BootsWithoutCard, Vendor!NoDeadEnd, Vendor!All, Vendor!Parts
  <2>3. CASE "dispatcher" \in bk.files /\ "pending" \notin bk.files /\ "RESTORE" \notin sd.files
    <3>1. Images("new") /\ "core" \in bk.files BY <2>1, <2>3 DEF FlashInv, FlashGlobal
    <3>2. Vendor!StartupWith(FALSE) = "runs new"
      BY <1>3, <2>1, <2>3, <3>1
      DEF Vendor!StartupWith, Vendor!DispatcherWith, Vendor!HandOver, Vendor!Flash, Vendor!Card, Vendor!Parts
    <3>3. QED BY <3>1, <3>2 DEF Vendor!BootsWithoutCard, Vendor!NoDeadEnd, Vendor!All, Vendor!Parts
  <2>4. CASE "dispatcher" \in bk.files /\ ("pending" \in bk.files \/ "RESTORE" \in sd.files)
    <3>1. Vendor!BootsWithoutCard BY <2>4 DEF Vendor!BootsWithoutCard, Vendor!Flash, Vendor!Card
    <3>2. "manifest" \in sd.files /\ "clean.conf" \notin sd.files BY <2>1, <2>4 DEF FlashInv, FlashGlobal
    <3>3. CASE Images("prev")
      <4>1. Vendor!StartupWith(TRUE) \in {"restore", "install"}
        BY <1>3, <2>1, <2>4, <3>2, <3>3
        DEF Vendor!StartupWith, Vendor!DispatcherWith, Vendor!HandOver, Vendor!Flash, Vendor!Card, Vendor!Parts
      <4>2. QED BY <3>1, <4>1 DEF Vendor!NoDeadEnd
    <3>4. CASE ~Images("prev")
      BY <3>1, <3>2, <3>4 DEF Vendor!NoDeadEnd, Vendor!Card, Vendor!Parts
    <3>5. QED BY <3>3, <3>4
  <2>5. QED BY <2>2, <2>3, <2>4
<1>4. kern = "torn" => Vendor!BootsWithoutCard /\ Vendor!NoDeadEnd
  BY DEF Vendor!BootsWithoutCard, Vendor!NoDeadEnd
<1>5. QED BY <1>1, <1>2, <1>2a, <1>2b, <1>3, <1>4 DEF AlwaysRecoverable

(* Whenever power is lost, what is left of an installation can be started  *)
(* or taken back: a startup never runs on the filesystems of the other     *)
(* firmware, and nothing is changed before its backup is complete.  Only   *)
(* the kernel of a y623, written in place, may be left torn; its old       *)
(* content is then on the card and nothing else has been replaced          *)
(* (install.sh: the order of its writes; the dispatcher's early exits;     *)
(* ensure_y623_ve_kernel.sh).                                              *)
THEOREM RecoveryIsKept == Spec => []AlwaysRecoverable
<1>1. Init => FlashInv /\ KindInv BY FlashStart DEF Init, KindInv, Vendor!Init, Sound!Init
<1>2. FlashInv /\ KindInv /\ [Next]_vars => (FlashInv /\ KindInv)' BY FlashStep
<1>3. QED BY <1>1, <1>2, FlashFromInv, PTL DEF Spec

\* The journal is closed over the new filesystems and nobody has asked for a restore.
Committed == Images("new") /\ "pending" \notin bk.files /\ "RESTORE" \notin sd.files

\* Where the installer is while it writes to the flash.
Writing == Early \cup Staging \cup Closing \cup Trying \cup Undoing \cup Preparing
           \cup {"resume", "repair", "restore", "rmHook", "rollback", "rollbackTools", "rollbackHook",
                 "flash rootfs", "flash home"}

\* Once the journal is closed no image is staged, and no step that writes is under way.
LEMMA CommittedRests ==
  ASSUME FlashInv, Committed
  PROVE  /\ "dispatcher" \in bk.files /\ "core" \in bk.files /\ NoTrigger
         /\ pc \notin Writing
<1> USE DEF Images, NoTrigger, Committed
<1>1. "dispatcher" \in bk.files /\ "core" \in bk.files BY DEF FlashInv, FlashGlobal
<1>2. NoTrigger BY DEF FlashInv, FlashTypes, FlashGlobal, Vendor!Parts
<1>3. pc \notin Writing
  BY <1>1, <1>2 DEF FlashInv, FlashAt, Writing, Early, Patching, Staging, Closing, Trying, Undoing, Preparing
<1>4. QED BY <1>1, <1>2, <1>3

\* So no step of the camera changes the flash.
LEMMA CommittedStep ==
  ASSUME FlashInv, Committed, Vendor!Machine \/ Vendor!Fails \/ Vendor!RequestRestore \/ Vendor!MoveCard
  PROVE  UNCHANGED <<bk, img>>
<1> USE DEF Writing, Early, Patching, Staging, Closing, Trying, Undoing, Preparing
<1>1. pc \notin Writing /\ NoTrigger BY CommittedRests
<1>2. CASE Vendor!PowerOn \/ Vendor!Kernel \/ Vendor!Boot \/ Vendor!RequestRestore \/ Vendor!MoveCard
  BY <1>2 DEF Vendor!PowerOn, Vendor!Kernel, Vendor!Boot, Vendor!RequestRestore, Vendor!MoveCard
<1>3. CASE Vendor!Fails BY <1>3 DEF Vendor!Fails, Vendor!KernelWriteFails, Vendor!FailWith, Vendor!FailLeaving, Vendor!Goto
<1>4. CASE \E p \in Vendor!Parts : Vendor!UBootErase(p) \/ Vendor!UBootWrite(p)
  BY <1>1, <1>4 DEF Vendor!UBootErase, Vendor!UBootWrite, Vendor!Staged, Vendor!Parts, NoTrigger
<1>5. CASE Vendor!RestoreNext
  BY <1>1, <1>5 DEF Vendor!RestoreNext, Vendor!Restore, Vendor!RestoreTools, Vendor!RestoreFiles, Vendor!RestoreInit,
     Vendor!RemovePending, Vendor!RemoveTriggers, Vendor!RemoveRestore, Vendor!RemoveHook
<1>6. CASE Vendor!InstallNext
  <2>1. CASE Vendor!Enter BY <2>1 DEF Vendor!Enter, Vendor!Goto, Vendor!FailWith, Vendor!FailLeaving
  <2>2. CASE Vendor!Prepare BY <2>2 DEF Vendor!Prepare, Vendor!Goto, Vendor!CardWrite
  <2>3. CASE \E t \in Tools : Vendor!SaveTool(t) BY <1>1, <2>3 DEF Vendor!SaveTool
  <2>4. CASE \E p \in Vendor!Parts : Vendor!StageImage(p) BY <1>1, <2>4 DEF Vendor!StageImage, Vendor!Parts
  <2>5. CASE \/ Vendor!RefuseCard \/ Vendor!Backup \/ Vendor!Manifest \/ Vendor!Reclaimed \/ Vendor!StageStartup
             \/ Vendor!StageSettings \/ Vendor!KeepStockKernel \/ Vendor!WriteKernel \/ Vendor!ReadKernelBack
             \/ Vendor!StageDispatcher \/ Vendor!Activate \/ Vendor!Journal
             \/ Vendor!ForgetRequest \/ Vendor!Rename
    BY <1>1, <2>5 DEF Vendor!KeepStockKernel, Vendor!WriteKernel, Vendor!ReadKernelBack, Vendor!RefuseCard, Vendor!Backup, Vendor!Manifest, Vendor!Reclaimed, Vendor!StageStartup,
       Vendor!StageSettings, Vendor!StageDispatcher, Vendor!Activate, Vendor!Journal, Vendor!ForgetRequest, Vendor!Rename
  <2>6. CASE \/ Vendor!Resume \/ Vendor!Repair \/ Vendor!RetireTriggers \/ Vendor!RetireHook \/ Vendor!Commit
             \/ Vendor!Attempt \/ Vendor!PrepareConf \/ Vendor!PrepareManifest \/ Vendor!PrepareStage
             \/ Vendor!PrepareRename \/ Vendor!Rollback \/ Vendor!RollbackTools \/ Vendor!RollbackHook
    BY <1>1, <2>6 DEF Vendor!Resume, Vendor!Repair, Vendor!RetireTriggers, Vendor!RetireHook, Vendor!Commit,
       Vendor!Attempt, Vendor!PrepareConf, Vendor!PrepareManifest, Vendor!PrepareStage, Vendor!PrepareRename,
       Vendor!Rollback, Vendor!RollbackTools, Vendor!RollbackHook
  <2>7. QED BY <1>6, <2>1, <2>2, <2>3, <2>4, <2>5, <2>6 DEF Vendor!InstallNext
<1>7. QED BY <1>2, <1>3, <1>4, <1>5, <1>6 DEF Vendor!Machine

(* An installation that has closed its journal is taken back by nothing    *)
(* but a RESTORE of the owner: no start, fault or card left in reopens it  *)
(* (install.sh: commit and the dispatcher's hand-over).                    *)
THEOREM CommitIsKept == Spec => CommittedStays
<1>1. Init => FlashInv /\ KindInv BY FlashStart DEF Init, KindInv, Vendor!Init, Sound!Init
<1>2. FlashInv /\ KindInv /\ [Next]_vars => (FlashInv /\ KindInv)' BY FlashStep
<1>3. FlashInv /\ KindInv /\ [Next]_vars => [Vendor!KeepsCommitted]_vars
  <2> SUFFICES ASSUME FlashInv, Committed, Next
               PROVE  (Vendor!All("new") /\ Vendor!Flash("dispatcher") /\ Vendor!Flash("core") /\ ~Vendor!Flash("pending"))'
    BY DEF Vendor!KeepsCommitted, Committed, Images, Vendor!All, Vendor!Parts, Vendor!Flash, Vendor!Card
  <2>1. UNCHANGED <<bk, img>>
    <3>1. CASE UNCHANGED install BY <3>1 DEF install
    <3>2. CASE Vendor!Next BY <3>2, CommittedStep DEF Vendor!Next, Vendor!PowerOff
    <3>3. CASE Clean!Next BY <3>3, CleanSteps, CommittedStep
    <3>4. CASE Sound!Next BY <3>4, SoundSteps, CommittedStep
    <3>5. QED BY <3>1, <3>2, <3>3, <3>4 DEF Next
  <2>2. "dispatcher" \in bk.files /\ "core" \in bk.files BY CommittedRests
  <2>3. QED BY <2>1, <2>2 DEF Committed, Images, Vendor!All, Vendor!Flash, Vendor!Parts
<1>4. QED BY <1>1, <1>2, <1>3, PTL DEF Spec, CommittedStays

-----------------------------------------------------------------------------
(* ConfigWork: the lock of the configuration pages.                        *)

Stealing == {"rmpid", "rmdir", "mkdir"}
RequestAt == {"new", "look", "trap", "rest", "dead"} \cup Killed!Holding \cup Stealing

\* Two requests that may be killed.
KilledInv ==
    /\ dir \in BOOLEAN /\ pid \in {"none", r1, r2} /\ r \in [{r1, r2} -> RequestAt]
    /\ ~dir => pid = "none"
    /\ \A i \in {r1, r2} :
        /\ r[i] = "work" => root = i
        /\ r[i] \in Killed!Holding => dir
        /\ pid = i => r[i] \in {"stage", "work", "clean", "unpid", "dead"}
        /\ \A j \in {r1, r2} \ {i} :
            /\ r[i] \in Killed!Holding => r[j] \in {"new", "look", "dead", "trap", "rest"}
            /\ r[i] \in Stealing => r[j] = "dead"

\* Requests that only end or are told to end.
EndedInv ==
    /\ pid \in {"none"} \cup ConfigRequests /\ r \in [ConfigRequests -> RequestAt]
    /\ \A i \in ConfigRequests : /\ r[i] \notin Stealing
                                 /\ pid = i => r[i] \in {"stage", "work", "clean", "unpid"}
    /\ dir => pid # "none" \/ \E i \in ConfigRequests : r[i] \in {"pid", "undir"}

LockInv == (part = "killed" => KilledInv) /\ (part = "ended" => EndedInv)

\* Every step of a request keeps the invariant of two that may be killed.
LEMMA KilledStep ==
  ASSUME KilledInv, NEW i \in {r1, r2},
         Killed!TryLock(i) \/ Killed!Step(i) \/ Killed!Terminated(i) \/ Killed!Killed(i)
  PROVE  KilledInv'
<1> USE DEF KilledInv, RequestAt, Stealing, Killed!Holding, Killed!Goto
<1>0. "none" \notin {r1, r2} BY LockConstants DEF Killed!ConfigAssumption
<1>1. CASE Killed!TryLock(i) BY <1>0, <1>1 DEF Killed!TryLock
<1>2. CASE Killed!Look(i) BY <1>0, <1>2 DEF Killed!Look, Killed!Alive
<1>3. CASE Killed!StealPid(i) BY <1>0, <1>3 DEF Killed!StealPid
<1>4. CASE Killed!StealDir(i) BY <1>0, <1>4 DEF Killed!StealDir
<1>5. CASE Killed!StealLock(i) BY <1>0, <1>5 DEF Killed!StealLock
<1>6. CASE Killed!WritePid(i) BY <1>0, <1>6 DEF Killed!WritePid
<1>7. CASE Killed!Stage(i) BY <1>0, <1>7 DEF Killed!Stage
<1>8. CASE Killed!Work(i) BY <1>0, <1>8 DEF Killed!Work
<1>9. CASE Killed!RemoveStage(i) BY <1>0, <1>9 DEF Killed!RemoveStage
<1>10. CASE Killed!RemovePid(i) BY <1>0, <1>10 DEF Killed!RemovePid
<1>11. CASE Killed!RemoveDir(i) BY <1>0, <1>11 DEF Killed!RemoveDir
<1>12. CASE Killed!RemoveTrap(i) BY <1>0, <1>12 DEF Killed!RemoveTrap
<1>13. CASE Killed!Finish(i) BY <1>0, <1>13 DEF Killed!Finish
<1>14. CASE Killed!Terminated(i) BY <1>0, <1>14 DEF Killed!Terminated
<1>15. CASE Killed!Killed(i) BY <1>0, <1>15 DEF Killed!Killed
<1>16. QED BY <1>1, <1>2, <1>3, <1>4, <1>5, <1>6, <1>7, <1>8, <1>9, <1>10, <1>11, <1>12, <1>13, <1>14, <1>15
     DEF Killed!Step

\* Every step of a request keeps the invariant of those that are told to end.
LEMMA EndedStep ==
  ASSUME EndedInv, NEW i \in ConfigRequests,
         Ended!TryLock(i) \/ Ended!Step(i) \/ Ended!Terminated(i) \/ Ended!Killed(i)
  PROVE  EndedInv'
<1> USE DEF EndedInv, RequestAt, Stealing, Killed!Holding, Ended!Goto
<1>0. "none" \notin ConfigRequests BY LockConstants DEF Ended!ConfigAssumption
<1>1. CASE Ended!TryLock(i) BY <1>0, <1>1 DEF Ended!TryLock
<1>2. CASE Ended!Look(i) BY <1>0, <1>2 DEF Ended!Look, Ended!Alive
<1>3. CASE Ended!StealPid(i) \/ Ended!StealDir(i) \/ Ended!StealLock(i)
  BY <1>3 DEF Ended!StealPid, Ended!StealDir, Ended!StealLock
<1>4. CASE Ended!WritePid(i) BY <1>0, <1>4 DEF Ended!WritePid
<1>5. CASE Ended!Stage(i) \/ Ended!Work(i) BY <1>0, <1>5 DEF Ended!Stage, Ended!Work
<1>6. CASE Ended!RemoveStage(i) BY <1>0, <1>6 DEF Ended!RemoveStage
<1>7. CASE Ended!RemovePid(i) BY <1>0, <1>7 DEF Ended!RemovePid
<1>8. CASE Ended!RemoveDir(i) BY <1>0, <1>8 DEF Ended!RemoveDir
<1>9. CASE Ended!RemoveTrap(i) \/ Ended!Finish(i) BY <1>0, <1>9 DEF Ended!RemoveTrap, Ended!Finish
<1>10. CASE Ended!Terminated(i) BY <1>0, <1>10 DEF Ended!Terminated
<1>11. ~Ended!Killed(i) BY DEF Ended!Killed
<1>12. QED BY <1>1, <1>2, <1>3, <1>4, <1>5, <1>6, <1>7, <1>8, <1>9, <1>10, <1>11 DEF Ended!Step

(* Of two configuration requests, killed or not, none removes the staging  *)
(* directory of one at work; and of any number that are not killed, a lock *)
(* that nobody holds can be recognised as such (the lock directory and its *)
(* PID file).                                                              *)
THEOREM LockIsSound == Spec => []LockSound
<1>1. Init => LockInv
  <2> SUFFICES ASSUME Init PROVE LockInv OBVIOUS
  <2>1. ASSUME part = "killed" PROVE KilledInv
    <3>1. dir = FALSE /\ pid = "none" /\ r = [i \in {r1, r2} |-> "new"]
      BY <2>1 DEF Init, Killed!Init
    <3>2. "none" \notin {r1, r2} BY LockConstants DEF Killed!ConfigAssumption
    <3>3. QED BY <3>1, <3>2 DEF KilledInv, RequestAt, Stealing, Killed!Holding
  <2>2. ASSUME part = "ended" PROVE EndedInv
    <3>1. dir = FALSE /\ pid = "none" /\ r = [i \in ConfigRequests |-> "new"]
      BY <2>2 DEF Init, Ended!Init
    <3>2. "none" \notin ConfigRequests BY LockConstants DEF Ended!ConfigAssumption
    <3>3. QED BY <3>1, <3>2 DEF EndedInv, RequestAt, Stealing
  <2>3. QED BY <2>1, <2>2 DEF LockInv
<1>2. LockInv /\ [Next]_vars => LockInv'
  <2> SUFFICES ASSUME LockInv, [Next]_vars PROVE LockInv' OBVIOUS
  <2>1. UNCHANGED part BY DEF Next, vars
  <2>2. CASE UNCHANGED request
    BY <2>1, <2>2 DEF LockInv, KilledInv, EndedInv, request
  <2>3. CASE part = "killed" /\ Killed!Next BY <2>1, <2>3, KilledStep DEF LockInv, Killed!Next
  <2>4. CASE part = "ended" /\ Ended!Next BY <2>1, <2>4, EndedStep DEF LockInv, Ended!Next
  <2>5. QED BY <2>2, <2>3, <2>4 DEF Next, vars
<1>3. LockInv => LockSound
  BY LockConstants DEF LockInv, KilledInv, EndedInv, LockSound, Killed!StagingIsOwn, Ended!LockRecoverable, Ended!Holding
<1>4. QED BY <1>1, <1>2, <1>3, PTL DEF Spec

-----------------------------------------------------------------------------
(* WebUpgrade: the one request, and the place it has chosen for its copies. *)
At == req[r1].pc
Place == <<req[r1].ver, req[r1].slot>>
NoTree == [rel |-> 0, conf |-> 0]

BeforeAway == {"lock", "steal", "take", "pid", "slot", "validate", "clear", "extract", "verify", "copy",
               "keep", "stage", "away"}
Chosen     == {"validate", "clear", "extract", "verify", "copy", "keep", "stage", "away"}
Installed  == {"compare", "retire", "kernel", "write", "readback", "finish", "unlock", "done"}
RollingBack == {"uninit", "reinit", "untree", "retree"}

Steps == {"idle", "unlock", "done", "sweep", "cleanup", "place", "check", "install"}
         \cup BeforeAway \cup Installed \cup RollingBack

Cards(trees, copies) ==
    [tree : trees, stage : trees, failed : trees, extra : Releases \cup {0}, fw : Releases \cup {0},
     factory : Releases \cup {0}, manifest : BOOLEAN, rb : [copies -> trees],
     rinit : [copies -> Releases \cup {0, Upgrading!Torn}], lock : {"none", "empty", "stale", r1}]
RequestsOf(slots) ==
    [{r1} -> [pc : Steps, ver : Releases \cup {0}, arch : Releases \cup {0}, slot : slots, hash : Releases \cup {0},
              old : BOOLEAN, new : BOOLEAN, installed : BOOLEAN]]

\* The copy that a rollback needs is made before the flag that makes it look
\* for one, and the flags old, new and installed are set in this order: where a
\* request is tells what is staged, in place and kept.
Progress ==
    /\ At = "idle" => ~req[r1].old /\ ~req[r1].new /\ ~req[r1].installed
    /\ At # "idle" => req[r1].ver \in Releases
    /\ At \in {"clear", "extract", "verify", "copy", "keep", "stage", "away", "place"} => req[r1].arch # 0
    /\ req[r1].installed => req[r1].new
    /\ req[r1].new => req[r1].old
    /\ At \in BeforeAway => ~req[r1].old
    /\ At = "place" => req[r1].old /\ ~req[r1].new
    /\ At \in {"check", "install"} => req[r1].new /\ ~req[r1].installed
    /\ At \in Installed \cup {"reinit"} => req[r1].installed
    /\ At \in Chosen => fs.rb[Place] = NoTree
    /\ At \in {"stage", "away"} => fs.rinit[Place] = init
    /\ At = "verify" => fs.extra = fs.stage.rel
    /\ At \in {"copy", "keep", "stage"} => fs.extra = req[r1].arch
    /\ At \in {"copy", "keep", "stage", "away", "place"} => fs.stage.rel = req[r1].arch
    /\ At \in {"away", "place", "check", "install"} => initNew = req[r1].arch
    /\ At = "install" => fs.tree.rel = req[r1].arch
    /\ req[r1].old /\ At \in {"place", "retree"} => fs.tree = NoTree
    /\ req[r1].old /\ ~req[r1].new /\ At \in RollingBack => fs.tree = NoTree

\* The tree in place was moved away, and has not come back.
Rolled == req[r1].old /\ At \in {"place", "check", "install"} \cup Installed \cup RollingBack
Kept(tree, rel) == tree.rel = rel /\ tree.conf = saved

\* An upgrade of which one command after the other may fail: outside of the
\* exchange, the tree in place is the one of the bootstrap with the settings saved
\* last; within it, the copies are.
Undoable ==
    /\ mode \in {"on", "off"} /\ fs.factory = 0
    /\ mode = "off" => At = "idle"
    /\ At # "readback" => kernel # "torn"
    /\ At = "reinit" <=> init = Upgrading!Torn
    /\ At \in BeforeAway \cup Installed \cup {"idle", "sweep", "cleanup"} => Kept(fs.tree, init)
    /\ ~req[r1].old /\ At \in RollingBack => Kept(fs.tree, init)
    /\ req[r1].installed /\ At = "uninit" => fs.tree.rel = init
    /\ At \in {"keep", "stage", "away", "place"} => fs.stage.conf = saved
    /\ At \in {"check", "install"} => fs.tree.conf = saved
    /\ Rolled /\ At \notin {"unlock", "done"} => fs.rinit[Place] \in Releases /\ Kept(fs.rb[Place], fs.rinit[Place])
    /\ Rolled /\ (~req[r1].installed \/ At \in {"untree", "retree"}) => init = fs.rinit[Place]

UpgradeTypes ==
    /\ fs \in Cards(Upgrading!Trees, Upgrading!Copies) /\ req \in RequestsOf(Slots)
    /\ init \in Releases \cup {Upgrading!Torn} /\ initNew \in Releases \cup {0}
    /\ kernel \in {"stock", "patched", "torn"} /\ saved \in 0..MaxEdits

UpgradeInv == UpgradeTypes /\ Progress /\ Undoable

\* The release is that of a copy, of the tree in place, of the installer on the card.
Back(v) == \E c \in CutUpgrade!Copies : fs.rb[c].rel = v
OnCardOrBack(v) == fs.tree.rel = v \/ Back(v)
Packaged == fs.factory # 0 /\ fs.tree.rel = fs.factory

Proper(tree) == tree.rel = 0 => tree = NoTree

\* An upgrade that power cuts and signals interrupt: no rollback runs then, but
\* the tree of the bootstrap is in place, among the copies, or the package's own.
Startable ==
    /\ Proper(fs.tree) /\ Proper(fs.stage) /\ \A c \in CutUpgrade!Copies : Proper(fs.rb[c])
    /\ mode # "on" => At = "idle"
    /\ mode = "on" => init = CutUpgrade!Torn \/ OnCardOrBack(init)
    /\ mode \in {"off", "stuck", "dead", "factory"} => init = CutUpgrade!Torn \/ OnCardOrBack(init) \/ Packaged
    /\ mode = "factory" => fs.factory # 0
    /\ mode \in CutUpgrade!Installer \ {"factory"} => Packaged
    /\ mode \in {"patch", "reread", "retired"} => init = fs.factory
    /\ At = "reinit" => init = CutUpgrade!Torn
    /\ Rolled /\ At \notin {"unlock", "done"}
        => fs.rinit[Place] # 0 /\ (fs.rinit[Place] = CutUpgrade!Torn \/ Back(fs.rinit[Place]))
    /\ Rolled /\ ~req[r1].installed => init = fs.rinit[Place]
    /\ Rolled /\ At \in {"untree", "retree"} => init = fs.rinit[Place] \/ init = CutUpgrade!Torn

CutTypes ==
    /\ fs \in Cards(CutUpgrade!Trees, CutUpgrade!Copies) /\ req \in RequestsOf(CutSlots)
    /\ init \in Releases \cup {CutUpgrade!Torn} /\ initNew \in Releases \cup {0}
    /\ mode \in {"on", "off", "stuck", "dead"} \cup CutUpgrade!Installer /\ saved \in 0..MaxCutEdits

CutInv == CutTypes /\ Progress /\ Startable

CardInv == (part = "upgrade" => UpgradeInv) /\ (part = "cutUpgrade" => CutInv)

\* What the constants of the upgrade are assumed to be.
LEMMA UpFacts ==
  /\ Upgrading!NoTree = NoTree /\ NoTree \in Upgrading!Trees
  /\ Releases \subseteq 1..8 /\ 0 \notin Releases /\ Upgrading!Torn \notin Releases /\ Upgrading!Torn # 0
  /\ 0 \in Slots /\ Slots \subseteq Nat /\ MaxEdits \in Nat /\ MaxBroken \in Nat
<1>1. /\ Releases \subseteq 1..8 /\ 0 \in Slots /\ Slots \subseteq Nat /\ MaxEdits \in Nat /\ MaxBroken \in Nat
  BY UpgradeConstants DEF Upgrading!UpgradeAssumption
<1>2. 0 \in 0..MaxEdits BY <1>1
<1>3. QED BY <1>1, <1>2 DEF NoTree, Upgrading!NoTree, Upgrading!Trees, Upgrading!Torn

\* The place of the copies and the trees have their types while a request is at work.
LEMMA UpPlaced ==
  ASSUME UpgradeInv, At # "idle"
  PROVE  Place \in Upgrading!Copies /\ fs.tree \in Upgrading!Trees /\ fs.rb[Place] \in Upgrading!Trees
  BY DEF UpgradeInv, UpgradeTypes, Cards, RequestsOf, Progress, At, Place, Upgrading!Copies

\* Begin: a request without an archive goes straight to its rollback.
LEMMA UpBegin == ASSUME UpgradeInv, Upgrading!Begin(r1) PROVE UpgradeInv'
<1> USE UpFacts DEF UpgradeInv
<1>1. /\ mode = "on" /\ At = "idle" /\ fs.tree # NoTree
      /\ UNCHANGED <<fs, init, initNew, kernel, mode, saved>>
      /\ req' = [req EXCEPT ![r1] = [Upgrading!Idle EXCEPT !.pc = IF fs.fw # 0 THEN "lock" ELSE "uninit",
                                                           !.ver = fs.tree.rel]]
  BY DEF Upgrading!Begin, Upgrading!Serving, At
<1>2. PICK n \in {"lock", "uninit"} : n = IF fs.fw # 0 THEN "lock" ELSE "uninit" OBVIOUS
<1>4. fs.tree.rel = init /\ fs.tree.rel \in Releases
  <2>1. fs.tree.rel = init /\ init # Upgrading!Torn BY <1>1 DEF Undoable, Kept
  <2>2. QED BY <2>1 DEF UpgradeTypes
<1>3. [req EXCEPT ![r1] = Upgrading!Idle] \in RequestsOf(Slots)
  BY DEF UpgradeTypes, RequestsOf, Upgrading!Idle, Steps
<1>5. req' = [[req EXCEPT ![r1] = Upgrading!Idle] EXCEPT ![r1].pc = n, ![r1].ver = fs.tree.rel]
  BY <1>1, <1>2 DEF UpgradeTypes, RequestsOf
<1>6. UpgradeTypes'
  <2>1. [[req EXCEPT ![r1] = Upgrading!Idle] EXCEPT ![r1].pc = n] \in RequestsOf(Slots)
    BY <1>3 DEF RequestsOf, Steps, BeforeAway, RollingBack
  <2>2. [[[req EXCEPT ![r1] = Upgrading!Idle] EXCEPT ![r1].pc = n] EXCEPT ![r1].ver = fs.tree.rel] \in RequestsOf(Slots)
    BY <1>4, <2>1 DEF RequestsOf
  <2>3. req' = [[[req EXCEPT ![r1] = Upgrading!Idle] EXCEPT ![r1].pc = n] EXCEPT ![r1].ver = fs.tree.rel]
    BY <1>3, <1>5 DEF RequestsOf
  <2>4. QED BY <1>1, <2>2, <2>3 DEF UpgradeTypes
<1>7. /\ At' = n /\ req'[r1].ver = fs.tree.rel
      /\ ~req'[r1].old /\ ~req'[r1].new /\ ~req'[r1].installed
  BY <1>3, <1>5 DEF At, RequestsOf, Upgrading!Idle
<1>8. Progress' BY <1>1, <1>2, <1>4, <1>7 DEF Progress, BeforeAway, Chosen, Installed, RollingBack
<1>9. Undoable'
  <2>1. ~Rolled' BY <1>7 DEF Rolled
  <2>2. QED BY <1>1, <1>2, <1>7, <2>1 DEF Undoable, Kept, BeforeAway, Installed, RollingBack
<1>10. QED BY <1>6, <1>8, <1>9

\* ChooseSlot: the first slot in which nothing is kept.
LEMMA UpChooseSlot == ASSUME UpgradeInv, Upgrading!ChooseSlot(r1) PROVE UpgradeInv'
<1> USE UpFacts DEF UpgradeInv
<1>1. At = "slot" /\ UNCHANGED <<fs, init, initNew, kernel, mode, saved>>
  BY DEF Upgrading!ChooseSlot, Upgrading!At, At
<1>2. PICK s \in Slots, n \in {"uninit", "validate"} :
        /\ req' = [req EXCEPT ![r1].pc = n, ![r1].slot = s]
        /\ n = "validate" => fs.rb[<<req[r1].ver, s>>] = NoTree
  BY DEF Upgrading!ChooseSlot
<1>3. req' \in RequestsOf(Slots)
  <2>1. [req EXCEPT ![r1].pc = n] \in RequestsOf(Slots)
    BY DEF UpgradeTypes, RequestsOf, Steps, BeforeAway, RollingBack
  <2>2. [[req EXCEPT ![r1].pc = n] EXCEPT ![r1].slot = s] \in RequestsOf(Slots) BY <2>1 DEF RequestsOf
  <2>3. req' = [[req EXCEPT ![r1].pc = n] EXCEPT ![r1].slot = s] BY <1>2 DEF UpgradeTypes, RequestsOf
  <2>4. QED BY <2>2, <2>3
<1>4. UpgradeTypes' BY <1>1, <1>3 DEF UpgradeTypes
<1>5. /\ At' = n /\ Place' = <<req[r1].ver, s>> /\ UNCHANGED <<req[r1].ver, req[r1].old, req[r1].new, req[r1].installed>>
  BY <1>2 DEF At, Place, UpgradeTypes, RequestsOf
<1>6. Progress' BY <1>1, <1>2, <1>5 DEF Progress, At, BeforeAway, Chosen, Installed, RollingBack
<1>7. Undoable' BY <1>1, <1>2, <1>5 DEF Undoable, Progress, Rolled, Kept, At, BeforeAway, Installed, RollingBack
<1>8. QED BY <1>4, <1>6, <1>7

\* Extract: the staged tree is the archive's.
LEMMA UpExtract == ASSUME UpgradeInv, Upgrading!Extract(r1) PROVE UpgradeInv'
<1> USE UpFacts DEF UpgradeInv
<1>1. At = "extract" /\ UNCHANGED <<init, initNew, kernel, mode, saved>>
  BY DEF Upgrading!Extract, Upgrading!At, At
<1>2. PICK n \in {"uninit", "verify"} : req' = [req EXCEPT ![r1].pc = n]
  BY DEF Upgrading!Extract, Upgrading!Go, Upgrading!Die
<1>3. /\ fs' \in Cards(Upgrading!Trees, Upgrading!Copies)
      /\ UNCHANGED <<fs.tree, fs.rb, fs.rinit, fs.factory>>
      /\ At' = "verify" => fs'.extra = fs'.stage.rel
  <2>1. fs.fw \in Releases \cup {0} BY DEF UpgradeTypes, Cards
  <2>2. [rel |-> fs.fw, conf |-> 0] \in Upgrading!Trees BY <2>1 DEF Upgrading!Trees
  <2>3. CASE fs' = [fs EXCEPT !.stage = [rel |-> fs.fw, conf |-> 0], !.extra = fs.fw]
    BY <2>1, <2>2, <2>3 DEF UpgradeTypes, Cards
  <2>4. CASE fs' = fs /\ req' = [req EXCEPT ![r1].pc = "uninit"]
    BY <2>4 DEF UpgradeTypes, Cards, RequestsOf, At
  <2>5. QED BY <2>3, <2>4 DEF Upgrading!Extract, Upgrading!Go, Upgrading!Die
<1>4. req' \in RequestsOf(Slots)
  BY <1>2 DEF UpgradeTypes, RequestsOf, Steps, BeforeAway, RollingBack
<1>5. UpgradeTypes' BY <1>1, <1>3, <1>4 DEF UpgradeTypes
<1>6. /\ At' = n /\ UNCHANGED <<Place, req[r1].ver, req[r1].arch, req[r1].old, req[r1].new, req[r1].installed>>
  BY <1>2 DEF At, Place, UpgradeTypes, RequestsOf
<1>7. Progress' BY <1>1, <1>3, <1>6 DEF Progress, At, BeforeAway, Chosen, Installed, RollingBack
<1>8. Undoable' BY <1>1, <1>3, <1>6 DEF Undoable, Progress, Rolled, Kept, At, BeforeAway, Installed, RollingBack
<1>9. QED BY <1>5, <1>7, <1>8

\* CopySettings: the staged tree gets the settings.
LEMMA UpCopySettings == ASSUME UpgradeInv, Upgrading!CopySettings(r1) PROVE UpgradeInv'
<1> USE UpFacts DEF UpgradeInv
<1>1. /\ At = "copy" /\ UNCHANGED <<init, initNew, kernel, mode, saved>>
      /\ fs' = [fs EXCEPT !.stage.conf = fs.tree.conf] /\ req' = [req EXCEPT ![r1].pc = "keep"]
  BY DEF Upgrading!CopySettings, Upgrading!At, Upgrading!Go, At
<1>2. fs.tree \in Upgrading!Trees /\ fs.stage \in Upgrading!Trees BY DEF UpgradeTypes, Cards
<1>3. [fs.stage EXCEPT !.conf = fs.tree.conf] \in Upgrading!Trees BY <1>2 DEF Upgrading!Trees
<1>4. fs' = [fs EXCEPT !.stage = [fs.stage EXCEPT !.conf = fs.tree.conf]] BY <1>1 DEF UpgradeTypes, Cards
<1>5. /\ fs' \in Cards(Upgrading!Trees, Upgrading!Copies)
      /\ UNCHANGED <<fs.tree, fs.rb, fs.rinit, fs.extra, fs.factory>>
      /\ fs'.stage = [fs.stage EXCEPT !.conf = fs.tree.conf]
  BY <1>3, <1>4 DEF UpgradeTypes, Cards
<1>6. fs'.stage.rel = fs.stage.rel /\ fs'.stage.conf = fs.tree.conf BY <1>2, <1>5 DEF Upgrading!Trees
<1>7. req' \in RequestsOf(Slots)
  BY <1>1 DEF UpgradeTypes, RequestsOf, Steps, BeforeAway
<1>8. UpgradeTypes' BY <1>1, <1>5, <1>7 DEF UpgradeTypes
<1>9. /\ At' = "keep" /\ UNCHANGED <<Place, req[r1].ver, req[r1].arch, req[r1].old, req[r1].new, req[r1].installed>>
  BY <1>1 DEF At, Place, UpgradeTypes, RequestsOf
<1>10. Progress' BY <1>1, <1>5, <1>6, <1>9 DEF Progress, At, BeforeAway, Chosen, Installed, RollingBack
<1>11. Undoable' BY <1>1, <1>5, <1>6, <1>9 DEF Undoable, Progress, Rolled, Kept, At, BeforeAway, Installed, RollingBack
<1>12. QED BY <1>8, <1>10, <1>11

\* A tree that is moved away or into place is still a tree.
LEMMA UpMoveTypes ==
  ASSUME UpgradeInv, Upgrading!MoveAway(r1) \/ Upgrading!Place(r1)
  PROVE  fs' \in Cards(Upgrading!Trees, Upgrading!Copies)
<1> USE UpFacts DEF UpgradeInv
<1>1. fs.tree \in Upgrading!Trees /\ fs.stage \in Upgrading!Trees /\ fs.rb \in [Upgrading!Copies -> Upgrading!Trees]
  BY DEF UpgradeTypes, Cards
<1>2. Place \in Upgrading!Copies BY UpPlaced DEF Upgrading!MoveAway, Upgrading!Place, Upgrading!At, At
<1>3. CASE fs' = fs BY <1>3 DEF UpgradeTypes
<1>4. CASE fs' = [fs EXCEPT !.rb[Place] = Upgrading!Onto(@, fs.tree), !.tree = NoTree]
  <2>1. PICK t \in Upgrading!Trees : t = Upgrading!Onto(fs.rb[Place], fs.tree) BY <1>1, <1>2 DEF Upgrading!Onto
  <2>2. fs' = [fs EXCEPT !.rb = [fs.rb EXCEPT ![Place] = t], !.tree = NoTree] BY <1>4, <2>1 DEF UpgradeTypes, Cards
  <2>3. [fs.rb EXCEPT ![Place] = t] \in [Upgrading!Copies -> Upgrading!Trees] BY <1>1, <2>1
  <2>4. QED BY <2>2, <2>3 DEF UpgradeTypes, Cards
<1>5. CASE fs' = [fs EXCEPT !.tree = Upgrading!Onto(@, fs.stage), !.stage = NoTree]
  <2>1. PICK t \in Upgrading!Trees : t = Upgrading!Onto(fs.tree, fs.stage) BY <1>1 DEF Upgrading!Onto
  <2>2. fs' = [fs EXCEPT !.tree = t, !.stage = NoTree] BY <1>5, <2>1
  <2>3. QED BY <2>2 DEF UpgradeTypes, Cards
<1>6. QED BY <1>3, <1>4, <1>5 DEF Upgrading!MoveAway, Upgrading!Place, Upgrading!Copy, Place

\* KeepInit: the bootstrap is copied before it is replaced.
LEMMA UpKeepInit == ASSUME UpgradeInv, Upgrading!KeepInit(r1) PROVE UpgradeInv'
<1> USE UpFacts DEF UpgradeInv, Upgrading!KeepInit, Upgrading!Copy, Upgrading!At, Upgrading!Go,
      Upgrading!Die
<1>1. fs' \in Cards(Upgrading!Trees, Upgrading!Copies) BY UpPlaced DEF At, Place, Upgrading!Trees, UpgradeTypes, Cards
<1>2. req' \in RequestsOf(Slots) BY DEF UpgradeTypes, RequestsOf, Steps, BeforeAway, Installed, RollingBack
<1>3. UpgradeTypes' BY <1>1, <1>2 DEF UpgradeTypes, Cards
<1>4. Progress' BY UpPlaced DEF UpgradeTypes, Cards, RequestsOf, Progress, At, Place, BeforeAway, Chosen, Installed, RollingBack
<1>5. Undoable' BY UpPlaced DEF UpgradeTypes, Cards, RequestsOf, Progress, Undoable, Rolled, Kept,
     At, Place, BeforeAway, Chosen, Installed, RollingBack
<1>6. QED BY <1>3, <1>4, <1>5

\* StageInit: the bootstrap of the archive is put beside the one in use.
LEMMA UpStageInit == ASSUME UpgradeInv, Upgrading!StageInit(r1) PROVE UpgradeInv'
<1> USE UpFacts DEF UpgradeInv, Upgrading!StageInit, Upgrading!At, Upgrading!Go, Upgrading!Die
<1>1. fs' \in Cards(Upgrading!Trees, Upgrading!Copies) BY UpPlaced DEF At, Place, Upgrading!Trees, UpgradeTypes, Cards
<1>2. req' \in RequestsOf(Slots) BY DEF UpgradeTypes, RequestsOf, Steps, BeforeAway, Installed, RollingBack
<1>3. UpgradeTypes' BY <1>1, <1>2 DEF UpgradeTypes, Cards
<1>4. Progress' BY UpPlaced DEF UpgradeTypes, Cards, RequestsOf, Progress, At, Place, BeforeAway, Chosen, Installed, RollingBack
<1>5. Undoable' BY UpPlaced DEF UpgradeTypes, Cards, RequestsOf, Progress, Undoable, Rolled, Kept,
     At, Place, BeforeAway, Chosen, Installed, RollingBack
<1>6. QED BY <1>3, <1>4, <1>5

\* MoveAway: the tree in place becomes the copy for the rollback.
LEMMA UpMoveAway == ASSUME UpgradeInv, Upgrading!MoveAway(r1) PROVE UpgradeInv'
<1> USE UpFacts DEF UpgradeInv, Upgrading!MoveAway, Upgrading!Onto, Upgrading!Copy, Upgrading!At,
      Upgrading!Go, Upgrading!Die
<1>1. fs' \in Cards(Upgrading!Trees, Upgrading!Copies) BY UpMoveTypes
<1>2. req' \in RequestsOf(Slots) BY DEF UpgradeTypes, RequestsOf, Steps, BeforeAway, Installed, RollingBack
<1>3. UpgradeTypes' BY <1>1, <1>2 DEF UpgradeTypes, Cards
<1>4. Progress' BY UpPlaced DEF UpgradeTypes, Cards, RequestsOf, Progress, At, Place, BeforeAway, Chosen, Installed, RollingBack
<1>5. Undoable' BY UpPlaced DEF UpgradeTypes, Cards, RequestsOf, Progress, Undoable, Rolled, Kept,
     At, Place, BeforeAway, Chosen, Installed, RollingBack
<1>6. QED BY <1>3, <1>4, <1>5

\* Place: the staged tree takes the place that MoveAway left.
LEMMA UpPlace == ASSUME UpgradeInv, Upgrading!Place(r1) PROVE UpgradeInv'
<1> USE UpFacts DEF UpgradeInv, Upgrading!Place, Upgrading!Onto, Upgrading!At, Upgrading!Go, Upgrading!Die
<1>1. fs' \in Cards(Upgrading!Trees, Upgrading!Copies) BY UpMoveTypes
<1>2. req' \in RequestsOf(Slots) BY DEF UpgradeTypes, RequestsOf, Steps, BeforeAway, Installed, RollingBack
<1>3. UpgradeTypes' BY <1>1, <1>2 DEF UpgradeTypes, Cards
<1>4. Progress' BY UpPlaced DEF UpgradeTypes, Cards, RequestsOf, Progress, At, Place, BeforeAway, Chosen, Installed, RollingBack
<1>5. Undoable' BY UpPlaced DEF UpgradeTypes, Cards, RequestsOf, Progress, Undoable, Rolled, Kept,
     At, Place, BeforeAway, Chosen, Installed, RollingBack
<1>6. QED BY <1>3, <1>4, <1>5

\* RestoreInitEnds: the copy of the bootstrap is back in use.
LEMMA UpRestoreInitEnds == ASSUME UpgradeInv, Upgrading!RestoreInitEnds(r1) PROVE UpgradeInv'
<1> USE UpFacts DEF UpgradeInv, Upgrading!RestoreInitEnds, Upgrading!Copy, Upgrading!Fault, Upgrading!At,
      Upgrading!Go, Upgrading!Die
<1>1. fs' \in Cards(Upgrading!Trees, Upgrading!Copies) BY UpPlaced DEF At, Place, Upgrading!Trees, UpgradeTypes, Cards
<1>2. req' \in RequestsOf(Slots) BY DEF UpgradeTypes, RequestsOf, Steps, BeforeAway, Installed, RollingBack
<1>3. UpgradeTypes'
  <2>1. fs.rinit[Place] \in Releases BY DEF Undoable, Progress, Rolled, At, RollingBack
  <2>2. init' = fs.rinit[Place] BY DEF Place
  <2>3. QED BY <1>1, <1>2, <2>1, <2>2 DEF UpgradeTypes
<1>4. Progress' BY UpPlaced DEF UpgradeTypes, Cards, RequestsOf, Progress, At, Place, BeforeAway, Chosen, Installed, RollingBack
<1>5. Undoable' BY UpPlaced DEF UpgradeTypes, Cards, RequestsOf, Progress, Undoable, Rolled, Kept,
     At, Place, BeforeAway, Chosen, Installed, RollingBack
<1>6. QED BY <1>3, <1>4, <1>5

\* RestoreOld: the tree that was moved away is in place again.
LEMMA UpRestoreOld == ASSUME UpgradeInv, Upgrading!RestoreOld(r1) PROVE UpgradeInv'
<1> USE UpFacts DEF UpgradeInv, Upgrading!RestoreOld, Upgrading!Onto, Upgrading!Copy, Upgrading!At,
      Upgrading!Go, Upgrading!Die
<1>1. fs' \in Cards(Upgrading!Trees, Upgrading!Copies) BY UpPlaced DEF At, Place, Upgrading!Trees, UpgradeTypes, Cards
<1>2. req' \in RequestsOf(Slots) BY DEF UpgradeTypes, RequestsOf, Steps, BeforeAway, Installed, RollingBack
<1>3. UpgradeTypes' BY <1>1, <1>2 DEF UpgradeTypes, Cards
<1>4. Progress' BY UpPlaced DEF UpgradeTypes, Cards, RequestsOf, Progress, At, Place, BeforeAway, Chosen, Installed, RollingBack
<1>5. Undoable' BY UpPlaced DEF UpgradeTypes, Cards, RequestsOf, Progress, Undoable, Rolled, Kept,
     At, Place, BeforeAway, Chosen, Installed, RollingBack
<1>6. QED BY <1>3, <1>4, <1>5

\* Lock: only the lock and the step of the request change.
LEMMA UpLock == ASSUME UpgradeInv, Upgrading!Lock(r1) PROVE UpgradeInv'
<1> USE UpFacts DEF UpgradeInv, Upgrading!Lock, Upgrading!Running, Upgrading!Ended, Upgrading!At,
      Upgrading!Go, Upgrading!Die
<1>1. fs' \in Cards(Upgrading!Trees, Upgrading!Copies) BY DEF UpgradeTypes, Cards
<1>2. req' \in RequestsOf(Slots) BY DEF UpgradeTypes, RequestsOf, Steps, BeforeAway, Installed, RollingBack
<1>3. UpgradeTypes' BY <1>1, <1>2 DEF UpgradeTypes
<1>4. Progress' BY DEF UpgradeTypes, Cards, RequestsOf, Progress, At, Place, BeforeAway, Chosen, Installed, RollingBack
<1>5. Undoable' BY DEF UpgradeTypes, Cards, RequestsOf, Progress, Undoable, Rolled, Kept,
     At, Place, BeforeAway, Chosen, Installed, RollingBack
<1>6. QED BY <1>3, <1>4, <1>5

\* Steal: likewise.
LEMMA UpSteal == ASSUME UpgradeInv, Upgrading!Steal(r1) PROVE UpgradeInv'
<1> USE UpFacts DEF UpgradeInv, Upgrading!Steal, Upgrading!At, Upgrading!Go, Upgrading!Die
<1>1. fs' \in Cards(Upgrading!Trees, Upgrading!Copies) BY DEF UpgradeTypes, Cards
<1>2. req' \in RequestsOf(Slots) BY DEF UpgradeTypes, RequestsOf, Steps, BeforeAway, Installed, RollingBack
<1>3. UpgradeTypes' BY <1>1, <1>2 DEF UpgradeTypes
<1>4. Progress' BY DEF UpgradeTypes, Cards, RequestsOf, Progress, At, Place, BeforeAway, Chosen, Installed, RollingBack
<1>5. Undoable' BY DEF UpgradeTypes, Cards, RequestsOf, Progress, Undoable, Rolled, Kept,
     At, Place, BeforeAway, Chosen, Installed, RollingBack
<1>6. QED BY <1>3, <1>4, <1>5

\* Take: likewise.
LEMMA UpTake == ASSUME UpgradeInv, Upgrading!Take(r1) PROVE UpgradeInv'
<1> USE UpFacts DEF UpgradeInv, Upgrading!Take, Upgrading!At, Upgrading!Go, Upgrading!Die
<1>1. fs' \in Cards(Upgrading!Trees, Upgrading!Copies) BY DEF UpgradeTypes, Cards
<1>2. req' \in RequestsOf(Slots) BY DEF UpgradeTypes, RequestsOf, Steps, BeforeAway, Installed, RollingBack
<1>3. UpgradeTypes' BY <1>1, <1>2 DEF UpgradeTypes
<1>4. Progress' BY DEF UpgradeTypes, Cards, RequestsOf, Progress, At, Place, BeforeAway, Chosen, Installed, RollingBack
<1>5. Undoable' BY DEF UpgradeTypes, Cards, RequestsOf, Progress, Undoable, Rolled, Kept,
     At, Place, BeforeAway, Chosen, Installed, RollingBack
<1>6. QED BY <1>3, <1>4, <1>5

\* WritePid: likewise.
LEMMA UpWritePid == ASSUME UpgradeInv, Upgrading!WritePid(r1) PROVE UpgradeInv'
<1> USE UpFacts DEF UpgradeInv, Upgrading!WritePid, Upgrading!At, Upgrading!Go, Upgrading!Die
<1>1. fs' \in Cards(Upgrading!Trees, Upgrading!Copies) BY DEF UpgradeTypes, Cards
<1>2. req' \in RequestsOf(Slots) BY DEF UpgradeTypes, RequestsOf, Steps, BeforeAway, Installed, RollingBack
<1>3. UpgradeTypes' BY <1>1, <1>2 DEF UpgradeTypes
<1>4. Progress' BY DEF UpgradeTypes, Cards, RequestsOf, Progress, At, Place, BeforeAway, Chosen, Installed, RollingBack
<1>5. Undoable' BY DEF UpgradeTypes, Cards, RequestsOf, Progress, Undoable, Rolled, Kept,
     At, Place, BeforeAway, Chosen, Installed, RollingBack
<1>6. QED BY <1>3, <1>4, <1>5

\* Validate: the archive's release is noted.
LEMMA UpValidate == ASSUME UpgradeInv, Upgrading!Validate(r1) PROVE UpgradeInv'
<1> USE UpFacts DEF UpgradeInv, Upgrading!Validate, Upgrading!At, Upgrading!Go, Upgrading!Die
<1>1. fs' \in Cards(Upgrading!Trees, Upgrading!Copies) BY DEF UpgradeTypes, Cards
<1>2. req' \in RequestsOf(Slots) BY DEF UpgradeTypes, RequestsOf, Steps, BeforeAway, Installed, RollingBack
<1>3. UpgradeTypes' BY <1>1, <1>2 DEF UpgradeTypes
<1>4. Progress' BY DEF UpgradeTypes, Cards, RequestsOf, Progress, At, Place, BeforeAway, Chosen, Installed, RollingBack
<1>5. Undoable' BY DEF UpgradeTypes, Cards, RequestsOf, Progress, Undoable, Rolled, Kept,
     At, Place, BeforeAway, Chosen, Installed, RollingBack
<1>6. QED BY <1>3, <1>4, <1>5

\* Clear: what an earlier request staged is removed.
LEMMA UpClear == ASSUME UpgradeInv, Upgrading!Clear(r1) PROVE UpgradeInv'
<1> USE UpFacts DEF UpgradeInv, Upgrading!Clear, Upgrading!At, Upgrading!Go, Upgrading!Die
<1>1. fs' \in Cards(Upgrading!Trees, Upgrading!Copies) BY DEF UpgradeTypes, Cards
<1>2. req' \in RequestsOf(Slots) BY DEF UpgradeTypes, RequestsOf, Steps, BeforeAway, Installed, RollingBack
<1>3. UpgradeTypes' BY <1>1, <1>2 DEF UpgradeTypes
<1>4. Progress' BY DEF UpgradeTypes, Cards, RequestsOf, Progress, At, Place, BeforeAway, Chosen, Installed, RollingBack
<1>5. Undoable' BY DEF UpgradeTypes, Cards, RequestsOf, Progress, Undoable, Rolled, Kept,
     At, Place, BeforeAway, Chosen, Installed, RollingBack
<1>6. QED BY <1>3, <1>4, <1>5

\* Verify: the staged tree is of the archive's release.
LEMMA UpVerify == ASSUME UpgradeInv, Upgrading!Verify(r1) PROVE UpgradeInv'
<1> USE UpFacts DEF UpgradeInv, Upgrading!Verify, Upgrading!At, Upgrading!Go, Upgrading!Die
<1>1. fs' \in Cards(Upgrading!Trees, Upgrading!Copies) BY DEF UpgradeTypes, Cards
<1>2. req' \in RequestsOf(Slots) BY DEF UpgradeTypes, RequestsOf, Steps, BeforeAway, Installed, RollingBack
<1>3. UpgradeTypes' BY <1>1, <1>2 DEF UpgradeTypes
<1>4. Progress' BY DEF UpgradeTypes, Cards, RequestsOf, Progress, At, Place, BeforeAway, Chosen, Installed, RollingBack
<1>5. Undoable' BY DEF UpgradeTypes, Cards, RequestsOf, Progress, Undoable, Rolled, Kept,
     At, Place, BeforeAway, Chosen, Installed, RollingBack
<1>6. QED BY <1>3, <1>4, <1>5

\* Check: the tree in place is of the archive's release.
LEMMA UpCheck == ASSUME UpgradeInv, Upgrading!Check(r1) PROVE UpgradeInv'
<1> USE UpFacts DEF UpgradeInv, Upgrading!Check, Upgrading!At, Upgrading!Go, Upgrading!Die
<1>1. fs' \in Cards(Upgrading!Trees, Upgrading!Copies) BY DEF UpgradeTypes, Cards
<1>2. req' \in RequestsOf(Slots) BY DEF UpgradeTypes, RequestsOf, Steps, BeforeAway, Installed, RollingBack
<1>3. UpgradeTypes' BY <1>1, <1>2 DEF UpgradeTypes
<1>4. Progress' BY DEF UpgradeTypes, Cards, RequestsOf, Progress, At, Place, BeforeAway, Chosen, Installed, RollingBack
<1>5. Undoable' BY DEF UpgradeTypes, Cards, RequestsOf, Progress, Undoable, Rolled, Kept,
     At, Place, BeforeAway, Chosen, Installed, RollingBack
<1>6. QED BY <1>3, <1>4, <1>5

\* InstallInit: the bootstrap of the tree in place is installed.
LEMMA UpInstallInit == ASSUME UpgradeInv, Upgrading!InstallInit(r1) PROVE UpgradeInv'
<1> USE UpFacts DEF UpgradeInv, Upgrading!InstallInit, Upgrading!At, Upgrading!Go, Upgrading!Die
<1>1. fs' \in Cards(Upgrading!Trees, Upgrading!Copies) BY DEF UpgradeTypes, Cards
<1>2. req' \in RequestsOf(Slots) BY DEF UpgradeTypes, RequestsOf, Steps, BeforeAway, Installed, RollingBack
<1>3. UpgradeTypes' BY <1>1, <1>2 DEF UpgradeTypes
<1>4. Progress' BY DEF UpgradeTypes, Cards, RequestsOf, Progress, At, Place, BeforeAway, Chosen, Installed, RollingBack
<1>5. Undoable' BY DEF UpgradeTypes, Cards, RequestsOf, Progress, Undoable, Rolled, Kept,
     At, Place, BeforeAway, Chosen, Installed, RollingBack
<1>6. QED BY <1>3, <1>4, <1>5

\* Compare: the bootstrap is read back.
LEMMA UpCompare == ASSUME UpgradeInv, Upgrading!Compare(r1) PROVE UpgradeInv'
<1> USE UpFacts DEF UpgradeInv, Upgrading!Compare, Upgrading!At, Upgrading!Go, Upgrading!Die
<1>1. fs' \in Cards(Upgrading!Trees, Upgrading!Copies) BY DEF UpgradeTypes, Cards
<1>2. req' \in RequestsOf(Slots) BY DEF UpgradeTypes, RequestsOf, Steps, BeforeAway, Installed, RollingBack
<1>3. UpgradeTypes' BY <1>1, <1>2 DEF UpgradeTypes
<1>4. Progress' BY DEF UpgradeTypes, Cards, RequestsOf, Progress, At, Place, BeforeAway, Chosen, Installed, RollingBack
<1>5. Undoable' BY DEF UpgradeTypes, Cards, RequestsOf, Progress, Undoable, Rolled, Kept,
     At, Place, BeforeAway, Chosen, Installed, RollingBack
<1>6. QED BY <1>3, <1>4, <1>5

\* Retire: the installer on the card is not started again.
LEMMA UpRetire == ASSUME UpgradeInv, Upgrading!Retire(r1) PROVE UpgradeInv'
<1> USE UpFacts DEF UpgradeInv, Upgrading!Retire, Upgrading!At, Upgrading!Go, Upgrading!Die
<1>1. fs' \in Cards(Upgrading!Trees, Upgrading!Copies) BY DEF UpgradeTypes, Cards
<1>2. req' \in RequestsOf(Slots) BY DEF UpgradeTypes, RequestsOf, Steps, BeforeAway, Installed, RollingBack
<1>3. UpgradeTypes' BY <1>1, <1>2 DEF UpgradeTypes
<1>4. Progress' BY DEF UpgradeTypes, Cards, RequestsOf, Progress, At, Place, BeforeAway, Chosen, Installed, RollingBack
<1>5. Undoable' BY DEF UpgradeTypes, Cards, RequestsOf, Progress, Undoable, Rolled, Kept,
     At, Place, BeforeAway, Chosen, Installed, RollingBack
<1>6. QED BY <1>3, <1>4, <1>5

\* Kernel: the boot partition is patched, or is already.
LEMMA UpKernel == ASSUME UpgradeInv, Upgrading!Kernel(r1) PROVE UpgradeInv'
<1> USE UpFacts DEF UpgradeInv, Upgrading!Kernel, Upgrading!At, Upgrading!Go, Upgrading!Die
<1>1. fs' \in Cards(Upgrading!Trees, Upgrading!Copies) BY DEF UpgradeTypes, Cards
<1>2. req' \in RequestsOf(Slots) BY DEF UpgradeTypes, RequestsOf, Steps, BeforeAway, Installed, RollingBack
<1>3. UpgradeTypes' BY <1>1, <1>2 DEF UpgradeTypes
<1>4. Progress' BY DEF UpgradeTypes, Cards, RequestsOf, Progress, At, Place, BeforeAway, Chosen, Installed, RollingBack
<1>5. Undoable' BY DEF UpgradeTypes, Cards, RequestsOf, Progress, Undoable, Rolled, Kept,
     At, Place, BeforeAway, Chosen, Installed, RollingBack
<1>6. QED BY <1>3, <1>4, <1>5

\* WriteKernel: the boot partition is torn until it is read back.
LEMMA UpWriteKernel == ASSUME UpgradeInv, Upgrading!WriteKernel(r1) PROVE UpgradeInv'
<1> USE UpFacts DEF UpgradeInv, Upgrading!WriteKernel, Upgrading!At, Upgrading!Go, Upgrading!Die
<1>1. fs' \in Cards(Upgrading!Trees, Upgrading!Copies) BY DEF UpgradeTypes, Cards
<1>2. req' \in RequestsOf(Slots) BY DEF UpgradeTypes, RequestsOf, Steps, BeforeAway, Installed, RollingBack
<1>3. UpgradeTypes' BY <1>1, <1>2 DEF UpgradeTypes
<1>4. Progress' BY DEF UpgradeTypes, Cards, RequestsOf, Progress, At, Place, BeforeAway, Chosen, Installed, RollingBack
<1>5. Undoable' BY DEF UpgradeTypes, Cards, RequestsOf, Progress, Undoable, Rolled, Kept,
     At, Place, BeforeAway, Chosen, Installed, RollingBack
<1>6. QED BY <1>3, <1>4, <1>5

\* ReadBack: the boot partition is patched or restored.
LEMMA UpReadBack == ASSUME UpgradeInv, Upgrading!ReadBack(r1) PROVE UpgradeInv'
<1> USE UpFacts DEF UpgradeInv, Upgrading!ReadBack, Upgrading!Fault, Upgrading!At, Upgrading!Go,
      Upgrading!Die
<1>1. fs' \in Cards(Upgrading!Trees, Upgrading!Copies) BY DEF UpgradeTypes, Cards
<1>2. req' \in RequestsOf(Slots) BY DEF UpgradeTypes, RequestsOf, Steps, BeforeAway, Installed, RollingBack
<1>3. UpgradeTypes' BY <1>1, <1>2 DEF UpgradeTypes
<1>4. Progress' BY DEF UpgradeTypes, Cards, RequestsOf, Progress, At, Place, BeforeAway, Chosen, Installed, RollingBack
<1>5. Undoable' BY DEF UpgradeTypes, Cards, RequestsOf, Progress, Undoable, Rolled, Kept,
     At, Place, BeforeAway, Chosen, Installed, RollingBack
<1>6. QED BY <1>3, <1>4, <1>5

\* Finish: archive and stage are removed, the copies stay.
LEMMA UpFinish == ASSUME UpgradeInv, Upgrading!Finish(r1) PROVE UpgradeInv'
<1> USE UpFacts DEF UpgradeInv, Upgrading!Finish, Upgrading!At, Upgrading!Go, Upgrading!Die
<1>1. fs' \in Cards(Upgrading!Trees, Upgrading!Copies) BY DEF UpgradeTypes, Cards
<1>2. req' \in RequestsOf(Slots) BY DEF UpgradeTypes, RequestsOf, Steps, BeforeAway, Installed, RollingBack
<1>3. UpgradeTypes' BY <1>1, <1>2 DEF UpgradeTypes
<1>4. Progress' BY DEF UpgradeTypes, Cards, RequestsOf, Progress, At, Place, BeforeAway, Chosen, Installed, RollingBack
<1>5. Undoable' BY DEF UpgradeTypes, Cards, RequestsOf, Progress, Undoable, Rolled, Kept,
     At, Place, BeforeAway, Chosen, Installed, RollingBack
<1>6. QED BY <1>3, <1>4, <1>5

\* Unlock: the lock is given back before the restart.
LEMMA UpUnlock == ASSUME UpgradeInv, Upgrading!Unlock(r1) PROVE UpgradeInv'
<1> USE UpFacts DEF UpgradeInv, Upgrading!Unlock, Upgrading!At, Upgrading!Go, Upgrading!Die
<1>1. fs' \in Cards(Upgrading!Trees, Upgrading!Copies) BY DEF UpgradeTypes, Cards
<1>2. req' \in RequestsOf(Slots) BY DEF UpgradeTypes, RequestsOf, Steps, BeforeAway, Installed, RollingBack
<1>3. UpgradeTypes' BY <1>1, <1>2 DEF UpgradeTypes
<1>4. Progress' BY DEF UpgradeTypes, Cards, RequestsOf, Progress, At, Place, BeforeAway, Chosen, Installed, RollingBack
<1>5. Undoable' BY DEF UpgradeTypes, Cards, RequestsOf, Progress, Undoable, Rolled, Kept,
     At, Place, BeforeAway, Chosen, Installed, RollingBack
<1>6. QED BY <1>3, <1>4, <1>5

\* Reboot: a request that succeeded ends with a restart.
LEMMA UpReboot == ASSUME UpgradeInv, Upgrading!Reboot(r1) PROVE UpgradeInv'
<1> USE UpFacts DEF UpgradeInv, Upgrading!Reboot, Upgrading!Down, Upgrading!Idle, Upgrading!At,
      Upgrading!Go, Upgrading!Die
<1>1. fs' \in Cards(Upgrading!Trees, Upgrading!Copies) BY DEF UpgradeTypes, Cards
<1>2. req' \in RequestsOf(Slots) BY DEF UpgradeTypes, RequestsOf, Steps, BeforeAway, Installed, RollingBack
<1>3. UpgradeTypes' BY <1>1, <1>2 DEF UpgradeTypes
<1>4. Progress' BY DEF UpgradeTypes, Cards, RequestsOf, Progress, At, Place, BeforeAway, Chosen, Installed, RollingBack
<1>5. Undoable' BY DEF UpgradeTypes, Cards, RequestsOf, Progress, Undoable, Rolled, Kept,
     At, Place, BeforeAway, Chosen, Installed, RollingBack
<1>6. QED BY <1>3, <1>4, <1>5

\* RestoreInit: a bootstrap that was replaced is being written back.
LEMMA UpRestoreInit == ASSUME UpgradeInv, Upgrading!RestoreInit(r1) PROVE UpgradeInv'
<1> USE UpFacts DEF UpgradeInv, Upgrading!RestoreInit, Upgrading!Copy, Upgrading!At, Upgrading!Go,
      Upgrading!Die
<1>1. fs' \in Cards(Upgrading!Trees, Upgrading!Copies) BY DEF UpgradeTypes, Cards
<1>2. req' \in RequestsOf(Slots) BY DEF UpgradeTypes, RequestsOf, Steps, BeforeAway, Installed, RollingBack
<1>3. UpgradeTypes' BY <1>1, <1>2 DEF UpgradeTypes
<1>4. Progress' BY DEF UpgradeTypes, Cards, RequestsOf, Progress, At, Place, BeforeAway, Chosen, Installed, RollingBack
<1>5. Undoable' BY DEF UpgradeTypes, Cards, RequestsOf, Progress, Undoable, Rolled, Kept,
     At, Place, BeforeAway, Chosen, Installed, RollingBack
<1>6. QED BY <1>3, <1>4, <1>5

\* RemoveNew: the tree that failed is moved out of the way.
LEMMA UpRemoveNew == ASSUME UpgradeInv, Upgrading!RemoveNew(r1) PROVE UpgradeInv'
<1> USE UpFacts DEF UpgradeInv, Upgrading!RemoveNew, Upgrading!At, Upgrading!Go, Upgrading!Die
<1>1. fs' \in Cards(Upgrading!Trees, Upgrading!Copies) BY DEF UpgradeTypes, Cards
<1>2. req' \in RequestsOf(Slots) BY DEF UpgradeTypes, RequestsOf, Steps, BeforeAway, Installed, RollingBack
<1>3. UpgradeTypes' BY <1>1, <1>2 DEF UpgradeTypes
<1>4. Progress' BY DEF UpgradeTypes, Cards, RequestsOf, Progress, At, Place, BeforeAway, Chosen, Installed, RollingBack
<1>5. Undoable' BY DEF UpgradeTypes, Cards, RequestsOf, Progress, Undoable, Rolled, Kept,
     At, Place, BeforeAway, Chosen, Installed, RollingBack
<1>6. QED BY <1>3, <1>4, <1>5

\* Sweep: the copy of the bootstrap is removed once the trees are back.
LEMMA UpSweep == ASSUME UpgradeInv, Upgrading!Sweep(r1) PROVE UpgradeInv'
<1> USE UpFacts DEF UpgradeInv, Upgrading!Sweep, Upgrading!Copy, Upgrading!At, Upgrading!Go, Upgrading!Die
<1>1. fs' \in Cards(Upgrading!Trees, Upgrading!Copies) BY DEF UpgradeTypes, Cards
<1>2. req' \in RequestsOf(Slots) BY DEF UpgradeTypes, RequestsOf, Steps, BeforeAway, Installed, RollingBack
<1>3. UpgradeTypes' BY <1>1, <1>2 DEF UpgradeTypes
<1>4. Progress' BY DEF UpgradeTypes, Cards, RequestsOf, Progress, At, Place, BeforeAway, Chosen, Installed, RollingBack
<1>5. Undoable' BY DEF UpgradeTypes, Cards, RequestsOf, Progress, Undoable, Rolled, Kept,
     At, Place, BeforeAway, Chosen, Installed, RollingBack
<1>6. QED BY <1>3, <1>4, <1>5

\* Cleanup: the lock is given back, and the request ends.
LEMMA UpCleanup == ASSUME UpgradeInv, Upgrading!Cleanup(r1) PROVE UpgradeInv'
<1> USE UpFacts DEF UpgradeInv, Upgrading!Cleanup, Upgrading!Idle, Upgrading!At, Upgrading!Go, Upgrading!Die
<1>1. fs' \in Cards(Upgrading!Trees, Upgrading!Copies) BY DEF UpgradeTypes, Cards
<1>2. req' \in RequestsOf(Slots) BY DEF UpgradeTypes, RequestsOf, Steps, BeforeAway, Installed, RollingBack
<1>3. UpgradeTypes' BY <1>1, <1>2 DEF UpgradeTypes
<1>4. Progress' BY DEF UpgradeTypes, Cards, RequestsOf, Progress, At, Place, BeforeAway, Chosen, Installed, RollingBack
<1>5. Undoable' BY DEF UpgradeTypes, Cards, RequestsOf, Progress, Undoable, Rolled, Kept,
     At, Place, BeforeAway, Chosen, Installed, RollingBack
<1>6. QED BY <1>3, <1>4, <1>5

\* StepFails: any command before the end leads to the rollback.
LEMMA UpStepFails == ASSUME UpgradeInv, Upgrading!StepFails(r1) PROVE UpgradeInv'
<1> USE UpFacts DEF UpgradeInv, Upgrading!StepFails, Upgrading!Fault, Upgrading!Forward, Upgrading!At,
      Upgrading!Go, Upgrading!Die
<1>1. fs' \in Cards(Upgrading!Trees, Upgrading!Copies) BY DEF UpgradeTypes, Cards
<1>2. req' \in RequestsOf(Slots) BY DEF UpgradeTypes, RequestsOf, Steps, BeforeAway, Installed, RollingBack
<1>3. UpgradeTypes' BY <1>1, <1>2 DEF UpgradeTypes
<1>4. Progress' BY DEF UpgradeTypes, Cards, RequestsOf, Progress, At, Place, BeforeAway, Chosen, Installed, RollingBack
<1>5. Undoable' BY DEF UpgradeTypes, Cards, RequestsOf, Progress, Undoable, Rolled, Kept,
     At, Place, BeforeAway, Chosen, Installed, RollingBack
<1>6. QED BY <1>3, <1>4, <1>5

\* An upload, the owner's settings and a start keep the invariant.
LEMMA UpRest ==
  ASSUME UpgradeInv,
         \/ Upgrading!UploadRemoves \/ (\E rel \in Releases : Upgrading!UploadPlaces(rel))
         \/ Upgrading!Save \/ Upgrading!Boot
  PROVE  UpgradeInv'
<1> USE UpFacts DEF UpgradeInv
<1>1. CASE Upgrading!UploadRemoves \/ \E rel \in Releases : Upgrading!UploadPlaces(rel)
  <2>1. PICK v \in Releases \cup {0} : fs' = [fs EXCEPT !.fw = v] /\ UNCHANGED <<init, initNew, kernel, mode, req, saved>>
    BY <1>1 DEF Upgrading!UploadRemoves, Upgrading!UploadPlaces
  <2>2. /\ fs' \in Cards(Upgrading!Trees, Upgrading!Copies)
        /\ UNCHANGED <<fs.tree, fs.stage, fs.rb, fs.rinit, fs.extra, fs.factory>>
    BY <2>1 DEF UpgradeTypes, Cards
  <2>3. UpgradeTypes' BY <2>1, <2>2 DEF UpgradeTypes
  <2>4. Progress' BY <2>1, <2>2 DEF Progress, At, Place
  <2>5. Undoable' BY <2>1, <2>2 DEF Undoable, Rolled, Kept, At, Place
  <2>6. QED BY <2>3, <2>4, <2>5
<1>2. CASE Upgrading!Save
  <2>1. /\ At = "idle" /\ saved < MaxEdits /\ saved' = saved + 1 /\ fs' = [fs EXCEPT !.tree.conf = saved + 1]
        /\ UNCHANGED <<init, initNew, kernel, mode, req>>
    BY <1>2 DEF Upgrading!Save, At
  <2>2. saved + 1 \in 0..MaxEdits BY <2>1 DEF UpgradeTypes
  <2>3. fs.tree \in Upgrading!Trees BY DEF UpgradeTypes, Cards
  <2>4. [fs.tree EXCEPT !.conf = saved + 1] \in Upgrading!Trees BY <2>2, <2>3 DEF Upgrading!Trees
  <2>5. /\ fs' \in Cards(Upgrading!Trees, Upgrading!Copies) /\ fs'.tree = [fs.tree EXCEPT !.conf = saved + 1]
        /\ UNCHANGED <<fs.stage, fs.rb, fs.rinit, fs.extra, fs.factory>>
    BY <2>1, <2>4 DEF UpgradeTypes, Cards
  <2>6. fs'.tree.rel = fs.tree.rel /\ fs'.tree.conf = saved + 1 BY <2>3, <2>5 DEF Upgrading!Trees
  <2>7. UpgradeTypes' BY <2>1, <2>2, <2>5 DEF UpgradeTypes
  <2>8. Progress' BY <2>1, <2>5, <2>6 DEF Progress, At, BeforeAway, Chosen, Installed, RollingBack
  <2>9. Undoable' BY <2>1, <2>5, <2>6 DEF Undoable, Progress, Rolled, Kept, At, BeforeAway, Installed, RollingBack
  <2>10. QED BY <2>7, <2>8, <2>9
<1>3. CASE Upgrading!Boot
  <2>1. /\ mode = "off" /\ At = "idle" /\ UNCHANGED <<fs, init, initNew, kernel, req, saved>>
    BY <1>3 DEF Upgrading!Boot, Undoable
  <2>2. kernel # "torn" /\ init # Upgrading!Torn /\ fs.factory = 0 /\ fs.tree.rel = init
    BY <2>1 DEF Undoable, Kept
  <2>3. mode' = "on" BY <1>3, <2>2 DEF Upgrading!Boot
  <2>4. QED BY <2>1, <2>3 DEF UpgradeTypes, Progress, Undoable, Rolled, Kept, At, Place
<1>4. QED BY <1>1, <1>2, <1>3

\* UpgradeInv is kept by every step of upgrades whose commands fail.
LEMMA UpStep == ASSUME UpgradeInv, Upgrading!Next PROVE UpgradeInv'
<1>1. mode \in {"on", "off"} BY DEF UpgradeInv, Undoable
<1>2. /\ ~Upgrading!FactoryCheck /\ ~Upgrading!FactoryInit /\ ~Upgrading!FactoryKernel /\ ~Upgrading!FactoryFinish
      /\ ~Upgrading!FactoryFails /\ ~Upgrading!PowerLoss /\ ~Upgrading!Repair /\ ~Upgrading!Signal(r1)
  BY <1>1 DEF Upgrading!FactoryCheck, Upgrading!FactoryInit, Upgrading!FactoryKernel, Upgrading!FactoryFinish,
     Upgrading!FactoryFails, Upgrading!PowerLoss, Upgrading!Repair, Upgrading!Signal, Upgrading!Fault, Upgrading!Installer
<1>3. CASE Upgrading!Upgrade(r1)
  BY <1>3, UpLock, UpSteal, UpTake, UpWritePid, UpChooseSlot, UpValidate, UpClear, UpExtract, UpVerify, UpCopySettings,
     UpKeepInit, UpStageInit, UpMoveAway, UpPlace, UpCheck, UpInstallInit, UpCompare, UpRetire, UpKernel,
     UpWriteKernel, UpReadBack, UpFinish, UpUnlock, UpReboot, UpRestoreInit, UpRestoreInitEnds, UpRemoveNew,
     UpRestoreOld, UpSweep, UpCleanup
  DEF Upgrading!Upgrade
<1>4. QED BY <1>2, <1>3, UpBegin, UpStepFails, UpRest DEF Upgrading!Next, Upgrading!Start

\* The same facts for the upgrades that are cut off.
LEMMA CutFacts ==
  /\ CutUpgrade!NoTree = NoTree /\ NoTree \in CutUpgrade!Trees
  /\ Releases \subseteq 1..8 /\ 0 \notin Releases /\ CutUpgrade!Torn \notin Releases /\ CutUpgrade!Torn # 0
  /\ CutUpgrade!Torn = Upgrading!Torn
  /\ 0 \in CutSlots /\ CutSlots \subseteq Nat /\ MaxCutEdits \in Nat /\ MaxCutFaults \in Nat
<1>1. /\ Releases \subseteq 1..8 /\ 0 \in CutSlots /\ CutSlots \subseteq Nat /\ MaxCutEdits \in Nat /\ MaxCutFaults \in Nat
  BY UpgradeConstants DEF CutUpgrade!UpgradeAssumption
<1>2. 0 \in 0..MaxCutEdits BY <1>1
<1>3. QED BY <1>1, <1>2 DEF NoTree, CutUpgrade!NoTree, CutUpgrade!Trees, CutUpgrade!Torn, Upgrading!Torn

\* The place of the copies and the trees have their types while a request is at work.
LEMMA CutPlaced ==
  ASSUME CutInv, At # "idle"
  PROVE  Place \in CutUpgrade!Copies /\ fs.tree \in CutUpgrade!Trees /\ fs.rb[Place] \in CutUpgrade!Trees
  BY DEF CutInv, CutTypes, Cards, RequestsOf, Progress, At, Place, CutUpgrade!Copies

\* Begin: a request without an archive goes straight to its rollback.
LEMMA CutBegin == ASSUME CutInv, CutUpgrade!Begin(r1) PROVE CutInv'
<1> USE CutFacts DEF CutInv
<1>1. /\ mode = "on" /\ At = "idle" /\ fs.tree # NoTree
      /\ UNCHANGED <<fs, init, initNew, kernel, mode, saved>>
      /\ req' = [req EXCEPT ![r1] = [CutUpgrade!Idle EXCEPT !.pc = IF fs.fw # 0 THEN "lock" ELSE "uninit",
                                                           !.ver = fs.tree.rel]]
  BY DEF CutUpgrade!Begin, CutUpgrade!Serving, At
<1>2. PICK n \in {"lock", "uninit"} : n = IF fs.fw # 0 THEN "lock" ELSE "uninit" OBVIOUS
<1>4. fs.tree.rel \in Releases
  <2>1. fs.tree.rel # 0 BY <1>1 DEF Startable, Proper
  <2>2. fs.tree.rel \in Releases \cup {0} BY DEF CutTypes, Cards, CutUpgrade!Trees
  <2>3. QED BY <2>1, <2>2
<1>3. [req EXCEPT ![r1] = CutUpgrade!Idle] \in RequestsOf(CutSlots)
  BY DEF CutTypes, RequestsOf, CutUpgrade!Idle, Steps
<1>5. req' = [[req EXCEPT ![r1] = CutUpgrade!Idle] EXCEPT ![r1].pc = n, ![r1].ver = fs.tree.rel]
  BY <1>1, <1>2 DEF CutTypes, RequestsOf
<1>6. CutTypes'
  <2>1. [[req EXCEPT ![r1] = CutUpgrade!Idle] EXCEPT ![r1].pc = n] \in RequestsOf(CutSlots)
    BY <1>3 DEF RequestsOf, Steps, BeforeAway, RollingBack
  <2>2. [[[req EXCEPT ![r1] = CutUpgrade!Idle] EXCEPT ![r1].pc = n] EXCEPT ![r1].ver = fs.tree.rel] \in RequestsOf(CutSlots)
    BY <1>4, <2>1 DEF RequestsOf
  <2>3. req' = [[[req EXCEPT ![r1] = CutUpgrade!Idle] EXCEPT ![r1].pc = n] EXCEPT ![r1].ver = fs.tree.rel]
    BY <1>3, <1>5 DEF RequestsOf
  <2>4. QED BY <1>1, <2>2, <2>3 DEF CutTypes
<1>7. /\ At' = n /\ req'[r1].ver = fs.tree.rel
      /\ ~req'[r1].old /\ ~req'[r1].new /\ ~req'[r1].installed
  BY <1>3, <1>5 DEF At, RequestsOf, CutUpgrade!Idle
<1>8. Progress' BY <1>1, <1>2, <1>4, <1>7 DEF Progress, BeforeAway, Chosen, Installed, RollingBack
<1>9. Startable'
  <2>1. ~Rolled' BY <1>7 DEF Rolled
  <2>2. QED BY <1>1, <1>2, <1>7, <2>1 DEF Startable, Back, OnCardOrBack, Packaged, Proper, BeforeAway, Installed, RollingBack
<1>10. QED BY <1>6, <1>8, <1>9

\* ChooseSlot: the first slot in which nothing is kept.
LEMMA CutChooseSlot == ASSUME CutInv, CutUpgrade!ChooseSlot(r1) PROVE CutInv'
<1> USE CutFacts DEF CutInv
<1>1. At = "slot" /\ UNCHANGED <<fs, init, initNew, kernel, mode, saved>>
  BY DEF CutUpgrade!ChooseSlot, CutUpgrade!At, At
<1>2. PICK s \in CutSlots, n \in {"uninit", "validate"} :
        /\ req' = [req EXCEPT ![r1].pc = n, ![r1].slot = s]
        /\ n = "validate" => fs.rb[<<req[r1].ver, s>>] = NoTree
  BY DEF CutUpgrade!ChooseSlot
<1>3. req' \in RequestsOf(CutSlots)
  <2>1. [req EXCEPT ![r1].pc = n] \in RequestsOf(CutSlots)
    BY DEF CutTypes, RequestsOf, Steps, BeforeAway, RollingBack
  <2>2. [[req EXCEPT ![r1].pc = n] EXCEPT ![r1].slot = s] \in RequestsOf(CutSlots) BY <2>1 DEF RequestsOf
  <2>3. req' = [[req EXCEPT ![r1].pc = n] EXCEPT ![r1].slot = s] BY <1>2 DEF CutTypes, RequestsOf
  <2>4. QED BY <2>2, <2>3
<1>4. CutTypes' BY <1>1, <1>3 DEF CutTypes
<1>5. /\ At' = n /\ Place' = <<req[r1].ver, s>> /\ UNCHANGED <<req[r1].ver, req[r1].old, req[r1].new, req[r1].installed>>
  BY <1>2 DEF At, Place, CutTypes, RequestsOf
<1>6. Progress' BY <1>1, <1>2, <1>5 DEF Progress, At, BeforeAway, Chosen, Installed, RollingBack
<1>7. Startable' BY <1>1, <1>2, <1>5 DEF Startable, Progress, Rolled, Back, OnCardOrBack, Packaged, Proper, At, BeforeAway, Installed, RollingBack
<1>8. QED BY <1>4, <1>6, <1>7

\* Extract: the staged tree is the archive's.
LEMMA CutExtract == ASSUME CutInv, CutUpgrade!Extract(r1) PROVE CutInv'
<1> USE CutFacts DEF CutInv
<1>1. At = "extract" /\ UNCHANGED <<init, initNew, kernel, mode, saved>>
  BY DEF CutUpgrade!Extract, CutUpgrade!At, At
<1>2. PICK n \in {"uninit", "verify"} : req' = [req EXCEPT ![r1].pc = n]
  BY DEF CutUpgrade!Extract, CutUpgrade!Go, CutUpgrade!Die
<1>3. /\ fs' \in Cards(CutUpgrade!Trees, CutUpgrade!Copies)
      /\ UNCHANGED <<fs.tree, fs.rb, fs.rinit, fs.factory>>
      /\ At' = "verify" => fs'.extra = fs'.stage.rel
      /\ Proper(fs'.stage)
  <2>1. fs.fw \in Releases \cup {0} BY DEF CutTypes, Cards
  <2>2. [rel |-> fs.fw, conf |-> 0] \in CutUpgrade!Trees BY <2>1 DEF CutUpgrade!Trees
  <2>3. CASE fs' = [fs EXCEPT !.stage = [rel |-> fs.fw, conf |-> 0], !.extra = fs.fw]
    <3>1. Proper([rel |-> fs.fw, conf |-> 0]) BY DEF Proper, NoTree
    <3>2. fs'.stage = [rel |-> fs.fw, conf |-> 0] BY <2>3 DEF CutTypes, Cards
    <3>3. QED BY <2>1, <2>2, <2>3, <3>1, <3>2 DEF CutTypes, Cards
  <2>4. CASE fs' = fs /\ req' = [req EXCEPT ![r1].pc = "uninit"]
    BY <2>4 DEF CutTypes, Cards, RequestsOf, At, Startable
  <2>5. QED BY <2>3, <2>4 DEF CutUpgrade!Extract, CutUpgrade!Go, CutUpgrade!Die
<1>4. req' \in RequestsOf(CutSlots)
  BY <1>2 DEF CutTypes, RequestsOf, Steps, BeforeAway, RollingBack
<1>5. CutTypes' BY <1>1, <1>3, <1>4 DEF CutTypes
<1>6. /\ At' = n /\ UNCHANGED <<Place, req[r1].ver, req[r1].arch, req[r1].old, req[r1].new, req[r1].installed>>
  BY <1>2 DEF At, Place, CutTypes, RequestsOf
<1>7. Progress' BY <1>1, <1>3, <1>6 DEF Progress, At, BeforeAway, Chosen, Installed, RollingBack
<1>8. Startable' BY <1>1, <1>3, <1>6 DEF Startable, Progress, Rolled, Back, OnCardOrBack, Packaged, Proper, At, BeforeAway, Installed, RollingBack
<1>9. QED BY <1>5, <1>7, <1>8

\* CopySettings: the staged tree gets the settings.
LEMMA CutCopySettings == ASSUME CutInv, CutUpgrade!CopySettings(r1) PROVE CutInv'
<1> USE CutFacts DEF CutInv
<1>1. /\ At = "copy" /\ UNCHANGED <<init, initNew, kernel, mode, saved>>
      /\ fs' = [fs EXCEPT !.stage.conf = fs.tree.conf] /\ req' = [req EXCEPT ![r1].pc = "keep"]
  BY DEF CutUpgrade!CopySettings, CutUpgrade!At, CutUpgrade!Go, At
<1>2. fs.tree \in CutUpgrade!Trees /\ fs.stage \in CutUpgrade!Trees BY DEF CutTypes, Cards
<1>3. [fs.stage EXCEPT !.conf = fs.tree.conf] \in CutUpgrade!Trees BY <1>2 DEF CutUpgrade!Trees
<1>4. fs' = [fs EXCEPT !.stage = [fs.stage EXCEPT !.conf = fs.tree.conf]] BY <1>1 DEF CutTypes, Cards
<1>5. /\ fs' \in Cards(CutUpgrade!Trees, CutUpgrade!Copies)
      /\ UNCHANGED <<fs.tree, fs.rb, fs.rinit, fs.extra, fs.factory>>
      /\ fs'.stage = [fs.stage EXCEPT !.conf = fs.tree.conf]
  BY <1>3, <1>4 DEF CutTypes, Cards
<1>6. fs'.stage.rel = fs.stage.rel /\ fs'.stage.conf = fs.tree.conf BY <1>2, <1>5 DEF CutUpgrade!Trees
<1>7. req' \in RequestsOf(CutSlots)
  BY <1>1 DEF CutTypes, RequestsOf, Steps, BeforeAway
<1>8. CutTypes' BY <1>1, <1>5, <1>7 DEF CutTypes
<1>9. /\ At' = "keep" /\ UNCHANGED <<Place, req[r1].ver, req[r1].arch, req[r1].old, req[r1].new, req[r1].installed>>
  BY <1>1 DEF At, Place, CutTypes, RequestsOf
<1>10. Progress' BY <1>1, <1>5, <1>6, <1>9 DEF Progress, At, BeforeAway, Chosen, Installed, RollingBack
<1>11. Startable' BY <1>1, <1>5, <1>6, <1>9 DEF Startable, Progress, Rolled, Back, OnCardOrBack, Packaged, Proper, At, BeforeAway, Installed, RollingBack
<1>12. QED BY <1>8, <1>10, <1>11

\* A tree that is moved away or into place is still a tree.
LEMMA CutMoveTypes ==
  ASSUME CutInv, CutUpgrade!MoveAway(r1) \/ CutUpgrade!Place(r1)
  PROVE  fs' \in Cards(CutUpgrade!Trees, CutUpgrade!Copies)
<1> USE CutFacts DEF CutInv
<1>1. fs.tree \in CutUpgrade!Trees /\ fs.stage \in CutUpgrade!Trees /\ fs.rb \in [CutUpgrade!Copies -> CutUpgrade!Trees]
  BY DEF CutTypes, Cards
<1>2. Place \in CutUpgrade!Copies BY CutPlaced DEF CutUpgrade!MoveAway, CutUpgrade!Place, CutUpgrade!At, At
<1>3. CASE fs' = fs BY <1>3 DEF CutTypes
<1>4. CASE fs' = [fs EXCEPT !.rb[Place] = CutUpgrade!Onto(@, fs.tree), !.tree = NoTree]
  <2>1. PICK t \in CutUpgrade!Trees : t = CutUpgrade!Onto(fs.rb[Place], fs.tree) BY <1>1, <1>2 DEF CutUpgrade!Onto
  <2>2. fs' = [fs EXCEPT !.rb = [fs.rb EXCEPT ![Place] = t], !.tree = NoTree] BY <1>4, <2>1 DEF CutTypes, Cards
  <2>3. [fs.rb EXCEPT ![Place] = t] \in [CutUpgrade!Copies -> CutUpgrade!Trees] BY <1>1, <2>1
  <2>4. QED BY <2>2, <2>3 DEF CutTypes, Cards
<1>5. CASE fs' = [fs EXCEPT !.tree = CutUpgrade!Onto(@, fs.stage), !.stage = NoTree]
  <2>1. PICK t \in CutUpgrade!Trees : t = CutUpgrade!Onto(fs.tree, fs.stage) BY <1>1 DEF CutUpgrade!Onto
  <2>2. fs' = [fs EXCEPT !.tree = t, !.stage = NoTree] BY <1>5, <2>1
  <2>3. QED BY <2>2 DEF CutTypes, Cards
<1>6. QED BY <1>3, <1>4, <1>5 DEF CutUpgrade!MoveAway, CutUpgrade!Place, CutUpgrade!Copy, Place

\* KeepInit: the bootstrap is copied before it is replaced.
LEMMA CutKeepInit == ASSUME CutInv, CutUpgrade!KeepInit(r1) PROVE CutInv'
<1> USE CutFacts DEF CutInv, CutUpgrade!KeepInit, CutUpgrade!Copy, CutUpgrade!At, CutUpgrade!Go,
      CutUpgrade!Die
<1>1. fs' \in Cards(CutUpgrade!Trees, CutUpgrade!Copies) BY CutPlaced DEF At, Place, CutUpgrade!Trees, CutTypes, Cards
<1>2. req' \in RequestsOf(CutSlots) BY DEF CutTypes, RequestsOf, Steps, BeforeAway, Installed, RollingBack
<1>3. CutTypes' BY <1>1, <1>2 DEF CutTypes, Cards
<1>4. Progress' BY CutPlaced DEF CutTypes, Cards, RequestsOf, Progress, At, Place, BeforeAway, Chosen, Installed, RollingBack
<1>5. Startable' BY CutPlaced DEF CutTypes, Cards, RequestsOf, Progress, Startable, Rolled, Back, OnCardOrBack, Packaged, Proper,
     At, Place, BeforeAway, Chosen, Installed, RollingBack
<1>6. QED BY <1>3, <1>4, <1>5

\* StageInit: the bootstrap of the archive is put beside the one in use.
LEMMA CutStageInit == ASSUME CutInv, CutUpgrade!StageInit(r1) PROVE CutInv'
<1> USE CutFacts DEF CutInv, CutUpgrade!StageInit, CutUpgrade!At, CutUpgrade!Go, CutUpgrade!Die
<1>1. fs' \in Cards(CutUpgrade!Trees, CutUpgrade!Copies) BY CutPlaced DEF At, Place, CutUpgrade!Trees, CutTypes, Cards
<1>2. req' \in RequestsOf(CutSlots) BY DEF CutTypes, RequestsOf, Steps, BeforeAway, Installed, RollingBack
<1>3. CutTypes' BY <1>1, <1>2 DEF CutTypes, Cards
<1>4. Progress' BY CutPlaced DEF CutTypes, Cards, RequestsOf, Progress, At, Place, BeforeAway, Chosen, Installed, RollingBack
<1>5. Startable' BY CutPlaced DEF CutTypes, Cards, RequestsOf, Progress, Startable, Rolled, Back, OnCardOrBack, Packaged, Proper,
     At, Place, BeforeAway, Chosen, Installed, RollingBack
<1>6. QED BY <1>3, <1>4, <1>5

\* MoveAway: the tree in place becomes the copy for the rollback.
LEMMA CutMoveAway == ASSUME CutInv, CutUpgrade!MoveAway(r1) PROVE CutInv'
<1> USE CutFacts DEF CutInv, CutUpgrade!MoveAway, CutUpgrade!Onto, CutUpgrade!Copy, CutUpgrade!At,
      CutUpgrade!Go, CutUpgrade!Die
<1>1. fs' \in Cards(CutUpgrade!Trees, CutUpgrade!Copies) BY CutMoveTypes
<1>2. req' \in RequestsOf(CutSlots) BY DEF CutTypes, RequestsOf, Steps, BeforeAway, Installed, RollingBack
<1>3. CutTypes' BY <1>1, <1>2 DEF CutTypes, Cards
<1>4. Progress' BY CutPlaced DEF CutTypes, Cards, RequestsOf, Progress, At, Place, BeforeAway, Chosen, Installed, RollingBack
<1>5. Startable' BY CutPlaced DEF CutTypes, Cards, RequestsOf, Progress, Startable, Rolled, Back, OnCardOrBack, Packaged, Proper,
     At, Place, BeforeAway, Chosen, Installed, RollingBack
<1>6. QED BY <1>3, <1>4, <1>5

\* Place: the staged tree takes the place that MoveAway left.
LEMMA CutPlace == ASSUME CutInv, CutUpgrade!Place(r1) PROVE CutInv'
<1> USE CutFacts DEF CutInv, CutUpgrade!Place, CutUpgrade!Onto, CutUpgrade!At, CutUpgrade!Go, CutUpgrade!Die
<1>1. fs' \in Cards(CutUpgrade!Trees, CutUpgrade!Copies) BY CutMoveTypes
<1>2. req' \in RequestsOf(CutSlots) BY DEF CutTypes, RequestsOf, Steps, BeforeAway, Installed, RollingBack
<1>3. CutTypes' BY <1>1, <1>2 DEF CutTypes, Cards
<1>4. Progress' BY CutPlaced DEF CutTypes, Cards, RequestsOf, Progress, At, Place, BeforeAway, Chosen, Installed, RollingBack
<1>5. Startable' BY CutPlaced DEF CutTypes, Cards, RequestsOf, Progress, Startable, Rolled, Back, OnCardOrBack, Packaged, Proper,
     At, Place, BeforeAway, Chosen, Installed, RollingBack
<1>6. QED BY <1>3, <1>4, <1>5

\* RestoreInitEnds: the copy of the bootstrap is back in use.
LEMMA CutRestoreInitEnds == ASSUME CutInv, CutUpgrade!RestoreInitEnds(r1) PROVE CutInv'
<1> USE CutFacts DEF CutInv, CutUpgrade!RestoreInitEnds, CutUpgrade!Copy, CutUpgrade!Fault, CutUpgrade!At,
      CutUpgrade!Go, CutUpgrade!Die
<1>1. fs' \in Cards(CutUpgrade!Trees, CutUpgrade!Copies) BY CutPlaced DEF At, Place, CutUpgrade!Trees, CutTypes, Cards
<1>2. req' \in RequestsOf(CutSlots) BY DEF CutTypes, RequestsOf, Steps, BeforeAway, Installed, RollingBack
<1>3. CutTypes'
  <2>1. fs.rinit[Place] \in Releases \cup {CutUpgrade!Torn}
    <3>1. fs.rinit[Place] # 0 BY DEF Startable, Progress, Rolled, At, RollingBack
    <3>2. fs.rinit[Place] \in Releases \cup {0, CutUpgrade!Torn} BY CutPlaced DEF CutTypes, Cards, At
    <3>3. QED BY <3>1, <3>2
  <2>2. init' = fs.rinit[Place] \/ UNCHANGED init BY DEF Place
  <2>3. QED BY <1>1, <1>2, <2>1, <2>2 DEF CutTypes
<1>4. Progress' BY CutPlaced DEF CutTypes, Cards, RequestsOf, Progress, At, Place, BeforeAway, Chosen, Installed, RollingBack
<1>5. Startable' BY CutPlaced DEF CutTypes, Cards, RequestsOf, Progress, Startable, Rolled, Back, OnCardOrBack, Packaged, Proper,
     At, Place, BeforeAway, Chosen, Installed, RollingBack
<1>6. QED BY <1>3, <1>4, <1>5

\* RestoreOld: the tree that was moved away is in place again.
LEMMA CutRestoreOld == ASSUME CutInv, CutUpgrade!RestoreOld(r1) PROVE CutInv'
<1> USE CutFacts DEF CutInv
<1>1. /\ At = "retree" /\ mode = "on" /\ req' = [req EXCEPT ![r1].pc = "sweep"]
      /\ fs' = IF req[r1].old /\ fs.rb[Place] # NoTree
               THEN [fs EXCEPT !.tree = CutUpgrade!Onto(@, fs.rb[Place]), !.rb[Place] = NoTree] ELSE fs
      /\ UNCHANGED <<init, initNew, mode, saved>>
  BY DEF CutUpgrade!RestoreOld, CutUpgrade!At, CutUpgrade!Go, CutUpgrade!Copy, At, Place
<1>2. req' \in RequestsOf(CutSlots)
  BY <1>1 DEF CutTypes, RequestsOf, Steps
<1>0. Place \in CutUpgrade!Copies /\ fs.rb \in [CutUpgrade!Copies -> CutUpgrade!Trees] /\ fs.rb[Place] \in CutUpgrade!Trees
  BY <1>1, CutPlaced DEF CutTypes, Cards
<1>3. /\ fs' \in Cards(CutUpgrade!Trees, CutUpgrade!Copies)
      /\ UNCHANGED <<fs.stage, fs.rinit, fs.extra, fs.factory>>
      /\ \/ UNCHANGED <<fs.tree, fs.rb>>
         \/ fs.tree = NoTree /\ fs'.tree = fs.rb[Place] /\ fs'.rb = [fs.rb EXCEPT ![Place] = NoTree]
  <2>1. CASE req[r1].old /\ fs.rb[Place] # NoTree
    <3>1. fs.tree = NoTree BY <1>1, <2>1 DEF Progress
    <3>2. CutUpgrade!Onto(fs.tree, fs.rb[Place]) = fs.rb[Place] BY <3>1 DEF CutUpgrade!Onto
    <3>3. fs' = [fs EXCEPT !.tree = fs.rb[Place], !.rb = [fs.rb EXCEPT ![Place] = NoTree]]
      BY <1>1, <2>1, <3>2 DEF CutTypes, Cards
    <3>4. [fs.rb EXCEPT ![Place] = NoTree] \in [CutUpgrade!Copies -> CutUpgrade!Trees] BY <1>0
    <3>5. QED BY <1>0, <3>1, <3>3, <3>4 DEF CutTypes, Cards
  <2>2. CASE ~(req[r1].old /\ fs.rb[Place] # NoTree) BY <1>1, <2>2 DEF CutTypes
  <2>3. QED BY <2>1, <2>2
<1>4. CutTypes' BY <1>1, <1>2, <1>3 DEF CutTypes
<1>5. /\ At' = "sweep" /\ UNCHANGED <<Place, req[r1].ver, req[r1].arch, req[r1].old, req[r1].new, req[r1].installed>>
  BY <1>1 DEF At, Place, CutTypes, RequestsOf
<1>6. Progress' BY <1>1, <1>3, <1>5 DEF Progress, At, BeforeAway, Chosen, Installed, RollingBack
<1>7. Startable'
  <2>1. init = CutUpgrade!Torn \/ OnCardOrBack(init) BY <1>1 DEF Startable
  <2>2. OnCardOrBack(init) => OnCardOrBack(init)'
    <3>1. CASE UNCHANGED <<fs.tree, fs.rb>> BY <1>1, <3>1 DEF OnCardOrBack, Back
    <3>2. CASE fs.tree = NoTree /\ fs'.tree = fs.rb[Place] /\ fs'.rb = [fs.rb EXCEPT ![Place] = NoTree]
      <4> SUFFICES ASSUME OnCardOrBack(init) PROVE OnCardOrBack(init)' OBVIOUS
      <4>1. CASE fs.tree.rel = init
        <5>1. init = 0 BY <3>2, <4>1 DEF NoTree
        <5>2. QED BY <5>1 DEF CutTypes
      <4>2. CASE fs.tree.rel # init
        <5>1. PICK c \in CutUpgrade!Copies : fs.rb[c].rel = init BY <4>2 DEF OnCardOrBack, Back
        <5>2. CASE c = Place BY <1>1, <3>2, <5>1, <5>2 DEF OnCardOrBack
        <5>3. CASE c # Place
          <6>1. fs'.rb[c] = fs.rb[c] BY <1>0, <3>2, <5>3
          <6>2. QED BY <1>1, <5>1, <6>1 DEF OnCardOrBack, Back
        <5>4. QED BY <5>2, <5>3
      <4>3. QED BY <4>1, <4>2
    <3>3. QED BY <1>3, <3>1, <3>2
  <2>3. Proper(fs.tree)' /\ Proper(fs.stage)' /\ \A c \in CutUpgrade!Copies : Proper(fs.rb[c])'
    BY <1>0, <1>3 DEF Startable, Proper
  <2>4. ~Rolled' BY <1>5 DEF Rolled, Installed, RollingBack
  <2>5. QED BY <1>1, <1>5, <2>1, <2>2, <2>3, <2>4 DEF Startable, CutUpgrade!Installer
<1>8. QED BY <1>4, <1>6, <1>7

\* Lock: only the lock and the step of the request change.
LEMMA CutLock == ASSUME CutInv, CutUpgrade!Lock(r1) PROVE CutInv'
<1> USE CutFacts DEF CutInv, CutUpgrade!Lock, CutUpgrade!Running, CutUpgrade!Ended, CutUpgrade!At,
      CutUpgrade!Go, CutUpgrade!Die
<1>1. fs' \in Cards(CutUpgrade!Trees, CutUpgrade!Copies) BY DEF CutTypes, Cards
<1>2. req' \in RequestsOf(CutSlots) BY DEF CutTypes, RequestsOf, Steps, BeforeAway, Installed, RollingBack
<1>3. CutTypes' BY <1>1, <1>2 DEF CutTypes
<1>4. Progress' BY DEF CutTypes, Cards, RequestsOf, Progress, At, Place, BeforeAway, Chosen, Installed, RollingBack
<1>5. Startable' BY DEF CutTypes, Cards, RequestsOf, Progress, Startable, Rolled, Back, OnCardOrBack, Packaged, Proper,
     At, Place, BeforeAway, Chosen, Installed, RollingBack
<1>6. QED BY <1>3, <1>4, <1>5

\* Steal: likewise.
LEMMA CutSteal == ASSUME CutInv, CutUpgrade!Steal(r1) PROVE CutInv'
<1> USE CutFacts DEF CutInv, CutUpgrade!Steal, CutUpgrade!At, CutUpgrade!Go, CutUpgrade!Die
<1>1. fs' \in Cards(CutUpgrade!Trees, CutUpgrade!Copies) BY DEF CutTypes, Cards
<1>2. req' \in RequestsOf(CutSlots) BY DEF CutTypes, RequestsOf, Steps, BeforeAway, Installed, RollingBack
<1>3. CutTypes' BY <1>1, <1>2 DEF CutTypes
<1>4. Progress' BY DEF CutTypes, Cards, RequestsOf, Progress, At, Place, BeforeAway, Chosen, Installed, RollingBack
<1>5. Startable' BY DEF CutTypes, Cards, RequestsOf, Progress, Startable, Rolled, Back, OnCardOrBack, Packaged, Proper,
     At, Place, BeforeAway, Chosen, Installed, RollingBack
<1>6. QED BY <1>3, <1>4, <1>5

\* Take: likewise.
LEMMA CutTake == ASSUME CutInv, CutUpgrade!Take(r1) PROVE CutInv'
<1> USE CutFacts DEF CutInv, CutUpgrade!Take, CutUpgrade!At, CutUpgrade!Go, CutUpgrade!Die
<1>1. fs' \in Cards(CutUpgrade!Trees, CutUpgrade!Copies) BY DEF CutTypes, Cards
<1>2. req' \in RequestsOf(CutSlots) BY DEF CutTypes, RequestsOf, Steps, BeforeAway, Installed, RollingBack
<1>3. CutTypes' BY <1>1, <1>2 DEF CutTypes
<1>4. Progress' BY DEF CutTypes, Cards, RequestsOf, Progress, At, Place, BeforeAway, Chosen, Installed, RollingBack
<1>5. Startable' BY DEF CutTypes, Cards, RequestsOf, Progress, Startable, Rolled, Back, OnCardOrBack, Packaged, Proper,
     At, Place, BeforeAway, Chosen, Installed, RollingBack
<1>6. QED BY <1>3, <1>4, <1>5

\* WritePid: likewise.
LEMMA CutWritePid == ASSUME CutInv, CutUpgrade!WritePid(r1) PROVE CutInv'
<1> USE CutFacts DEF CutInv, CutUpgrade!WritePid, CutUpgrade!At, CutUpgrade!Go, CutUpgrade!Die
<1>1. fs' \in Cards(CutUpgrade!Trees, CutUpgrade!Copies) BY DEF CutTypes, Cards
<1>2. req' \in RequestsOf(CutSlots) BY DEF CutTypes, RequestsOf, Steps, BeforeAway, Installed, RollingBack
<1>3. CutTypes' BY <1>1, <1>2 DEF CutTypes
<1>4. Progress' BY DEF CutTypes, Cards, RequestsOf, Progress, At, Place, BeforeAway, Chosen, Installed, RollingBack
<1>5. Startable' BY DEF CutTypes, Cards, RequestsOf, Progress, Startable, Rolled, Back, OnCardOrBack, Packaged, Proper,
     At, Place, BeforeAway, Chosen, Installed, RollingBack
<1>6. QED BY <1>3, <1>4, <1>5

\* Validate: the archive's release is noted.
LEMMA CutValidate == ASSUME CutInv, CutUpgrade!Validate(r1) PROVE CutInv'
<1> USE CutFacts DEF CutInv, CutUpgrade!Validate, CutUpgrade!At, CutUpgrade!Go, CutUpgrade!Die
<1>1. fs' \in Cards(CutUpgrade!Trees, CutUpgrade!Copies) BY DEF CutTypes, Cards
<1>2. req' \in RequestsOf(CutSlots) BY DEF CutTypes, RequestsOf, Steps, BeforeAway, Installed, RollingBack
<1>3. CutTypes' BY <1>1, <1>2 DEF CutTypes
<1>4. Progress' BY DEF CutTypes, Cards, RequestsOf, Progress, At, Place, BeforeAway, Chosen, Installed, RollingBack
<1>5. Startable' BY DEF CutTypes, Cards, RequestsOf, Progress, Startable, Rolled, Back, OnCardOrBack, Packaged, Proper,
     At, Place, BeforeAway, Chosen, Installed, RollingBack
<1>6. QED BY <1>3, <1>4, <1>5

\* Clear: what an earlier request staged is removed.
LEMMA CutClear == ASSUME CutInv, CutUpgrade!Clear(r1) PROVE CutInv'
<1> USE CutFacts DEF CutInv, CutUpgrade!Clear, CutUpgrade!At, CutUpgrade!Go, CutUpgrade!Die
<1>1. fs' \in Cards(CutUpgrade!Trees, CutUpgrade!Copies) BY DEF CutTypes, Cards
<1>2. req' \in RequestsOf(CutSlots) BY DEF CutTypes, RequestsOf, Steps, BeforeAway, Installed, RollingBack
<1>3. CutTypes' BY <1>1, <1>2 DEF CutTypes
<1>4. Progress' BY DEF CutTypes, Cards, RequestsOf, Progress, At, Place, BeforeAway, Chosen, Installed, RollingBack
<1>5. Startable' BY DEF CutTypes, Cards, RequestsOf, Progress, Startable, Rolled, Back, OnCardOrBack, Packaged, Proper,
     At, Place, BeforeAway, Chosen, Installed, RollingBack
<1>6. QED BY <1>3, <1>4, <1>5

\* Verify: the staged tree is of the archive's release.
LEMMA CutVerify == ASSUME CutInv, CutUpgrade!Verify(r1) PROVE CutInv'
<1> USE CutFacts DEF CutInv
<1>1. PICK n \in {"copy", "uninit"} :
        /\ At = "verify" /\ mode = "on" /\ req' = [req EXCEPT ![r1].pc = n]
        /\ fs' = [fs EXCEPT !.manifest = TRUE] \/ fs' = fs
        /\ n = "copy" => fs.stage.rel = req[r1].arch
        /\ UNCHANGED <<init, initNew, mode, saved>>
  BY DEF CutUpgrade!Verify, CutUpgrade!At, CutUpgrade!Go, CutUpgrade!Die, At
<1>2. req' \in RequestsOf(CutSlots)
  BY <1>1 DEF CutTypes, RequestsOf, Steps, BeforeAway, RollingBack
<1>3. /\ fs' \in Cards(CutUpgrade!Trees, CutUpgrade!Copies)
      /\ UNCHANGED <<fs.tree, fs.stage, fs.rb, fs.rinit, fs.extra, fs.factory>>
  BY <1>1 DEF CutTypes, Cards
<1>4. CutTypes' BY <1>1, <1>2, <1>3 DEF CutTypes
<1>5. /\ At' = n /\ UNCHANGED <<Place, req[r1].ver, req[r1].arch, req[r1].old, req[r1].new, req[r1].installed>>
  BY <1>1 DEF At, Place, CutTypes, RequestsOf
<1>6. Progress' BY <1>1, <1>3, <1>5 DEF Progress, At, BeforeAway, Chosen, Installed, RollingBack
<1>7. Startable'
  BY <1>1, <1>3, <1>5 DEF Startable, Progress, Rolled, Back, OnCardOrBack, Packaged, Proper, At, BeforeAway, Installed, RollingBack
<1>8. QED BY <1>4, <1>6, <1>7

\* Check: the tree in place is of the archive's release.
LEMMA CutCheck == ASSUME CutInv, CutUpgrade!Check(r1) PROVE CutInv'
<1> USE CutFacts DEF CutInv, CutUpgrade!Check, CutUpgrade!At, CutUpgrade!Go, CutUpgrade!Die
<1>1. fs' \in Cards(CutUpgrade!Trees, CutUpgrade!Copies) BY DEF CutTypes, Cards
<1>2. req' \in RequestsOf(CutSlots) BY DEF CutTypes, RequestsOf, Steps, BeforeAway, Installed, RollingBack
<1>3. CutTypes' BY <1>1, <1>2 DEF CutTypes
<1>4. Progress' BY DEF CutTypes, Cards, RequestsOf, Progress, At, Place, BeforeAway, Chosen, Installed, RollingBack
<1>5. Startable' BY DEF CutTypes, Cards, RequestsOf, Progress, Startable, Rolled, Back, OnCardOrBack, Packaged, Proper,
     At, Place, BeforeAway, Chosen, Installed, RollingBack
<1>6. QED BY <1>3, <1>4, <1>5

\* InstallInit: the bootstrap of the tree in place is installed.
LEMMA CutInstallInit == ASSUME CutInv, CutUpgrade!InstallInit(r1) PROVE CutInv'
<1> USE CutFacts DEF CutInv, CutUpgrade!InstallInit, CutUpgrade!At, CutUpgrade!Go, CutUpgrade!Die
<1>1. fs' \in Cards(CutUpgrade!Trees, CutUpgrade!Copies) BY DEF CutTypes, Cards
<1>2. req' \in RequestsOf(CutSlots) BY DEF CutTypes, RequestsOf, Steps, BeforeAway, Installed, RollingBack
<1>3. CutTypes' BY <1>1, <1>2 DEF CutTypes
<1>4. Progress' BY DEF CutTypes, Cards, RequestsOf, Progress, At, Place, BeforeAway, Chosen, Installed, RollingBack
<1>5. Startable' BY DEF CutTypes, Cards, RequestsOf, Progress, Startable, Rolled, Back, OnCardOrBack, Packaged, Proper,
     At, Place, BeforeAway, Chosen, Installed, RollingBack
<1>6. QED BY <1>3, <1>4, <1>5

\* Compare: the bootstrap is read back.
LEMMA CutCompare == ASSUME CutInv, CutUpgrade!Compare(r1) PROVE CutInv'
<1> USE CutFacts DEF CutInv, CutUpgrade!Compare, CutUpgrade!At, CutUpgrade!Go, CutUpgrade!Die
<1>1. fs' \in Cards(CutUpgrade!Trees, CutUpgrade!Copies) BY DEF CutTypes, Cards
<1>2. req' \in RequestsOf(CutSlots) BY DEF CutTypes, RequestsOf, Steps, BeforeAway, Installed, RollingBack
<1>3. CutTypes' BY <1>1, <1>2 DEF CutTypes
<1>4. Progress' BY DEF CutTypes, Cards, RequestsOf, Progress, At, Place, BeforeAway, Chosen, Installed, RollingBack
<1>5. Startable' BY DEF CutTypes, Cards, RequestsOf, Progress, Startable, Rolled, Back, OnCardOrBack, Packaged, Proper,
     At, Place, BeforeAway, Chosen, Installed, RollingBack
<1>6. QED BY <1>3, <1>4, <1>5

\* Retire: the installer on the card is not started again.
LEMMA CutRetire == ASSUME CutInv, CutUpgrade!Retire(r1) PROVE CutInv'
<1> USE CutFacts DEF CutInv
<1>1. /\ At = "retire" /\ mode = "on" /\ req' = [req EXCEPT ![r1].pc = "kernel"]
      /\ fs' = [fs EXCEPT !.factory = 0] /\ UNCHANGED <<init, initNew, mode, saved>>
  BY DEF CutUpgrade!Retire, CutUpgrade!At, CutUpgrade!Go, At
<1>2. req' \in RequestsOf(CutSlots)
  BY <1>1 DEF CutTypes, RequestsOf, Steps, Installed
<1>3. /\ fs' \in Cards(CutUpgrade!Trees, CutUpgrade!Copies)
      /\ UNCHANGED <<fs.tree, fs.stage, fs.rb, fs.rinit, fs.extra>>
  BY <1>1 DEF CutTypes, Cards
<1>4. CutTypes' BY <1>1, <1>2, <1>3 DEF CutTypes
<1>5. /\ At' = "kernel" /\ UNCHANGED <<Place, req[r1].ver, req[r1].arch, req[r1].old, req[r1].new, req[r1].installed>>
  BY <1>1 DEF At, Place, CutTypes, RequestsOf
<1>6. Progress' BY <1>1, <1>3, <1>5 DEF Progress, At, BeforeAway, Chosen, Installed, RollingBack
<1>7. Startable'
  BY <1>1, <1>3, <1>5 DEF Startable, Progress, Rolled, Back, OnCardOrBack, Proper, At, BeforeAway, Installed, RollingBack,
     CutUpgrade!Installer
<1>8. QED BY <1>4, <1>6, <1>7

\* Kernel: the boot partition is patched, or is already.
LEMMA CutKernel == ASSUME CutInv, CutUpgrade!Kernel(r1) PROVE CutInv'
<1> USE CutFacts DEF CutInv, CutUpgrade!Kernel, CutUpgrade!At, CutUpgrade!Go, CutUpgrade!Die
<1>1. fs' \in Cards(CutUpgrade!Trees, CutUpgrade!Copies) BY DEF CutTypes, Cards
<1>2. req' \in RequestsOf(CutSlots) BY DEF CutTypes, RequestsOf, Steps, BeforeAway, Installed, RollingBack
<1>3. CutTypes' BY <1>1, <1>2 DEF CutTypes
<1>4. Progress' BY DEF CutTypes, Cards, RequestsOf, Progress, At, Place, BeforeAway, Chosen, Installed, RollingBack
<1>5. Startable' BY DEF CutTypes, Cards, RequestsOf, Progress, Startable, Rolled, Back, OnCardOrBack, Packaged, Proper,
     At, Place, BeforeAway, Chosen, Installed, RollingBack
<1>6. QED BY <1>3, <1>4, <1>5

\* WriteKernel: the boot partition is torn until it is read back.
LEMMA CutWriteKernel == ASSUME CutInv, CutUpgrade!WriteKernel(r1) PROVE CutInv'
<1> USE CutFacts DEF CutInv, CutUpgrade!WriteKernel, CutUpgrade!At, CutUpgrade!Go, CutUpgrade!Die
<1>1. fs' \in Cards(CutUpgrade!Trees, CutUpgrade!Copies) BY DEF CutTypes, Cards
<1>2. req' \in RequestsOf(CutSlots) BY DEF CutTypes, RequestsOf, Steps, BeforeAway, Installed, RollingBack
<1>3. CutTypes' BY <1>1, <1>2 DEF CutTypes
<1>4. Progress' BY DEF CutTypes, Cards, RequestsOf, Progress, At, Place, BeforeAway, Chosen, Installed, RollingBack
<1>5. Startable' BY DEF CutTypes, Cards, RequestsOf, Progress, Startable, Rolled, Back, OnCardOrBack, Packaged, Proper,
     At, Place, BeforeAway, Chosen, Installed, RollingBack
<1>6. QED BY <1>3, <1>4, <1>5

\* ReadBack: the boot partition is patched or restored.
LEMMA CutReadBack == ASSUME CutInv, CutUpgrade!ReadBack(r1) PROVE CutInv'
<1> USE CutFacts DEF CutInv, CutUpgrade!ReadBack, CutUpgrade!Fault, CutUpgrade!At, CutUpgrade!Go,
      CutUpgrade!Die
<1>1. fs' \in Cards(CutUpgrade!Trees, CutUpgrade!Copies) BY DEF CutTypes, Cards
<1>2. req' \in RequestsOf(CutSlots) BY DEF CutTypes, RequestsOf, Steps, BeforeAway, Installed, RollingBack
<1>3. CutTypes' BY <1>1, <1>2 DEF CutTypes
<1>4. Progress' BY DEF CutTypes, Cards, RequestsOf, Progress, At, Place, BeforeAway, Chosen, Installed, RollingBack
<1>5. Startable' BY DEF CutTypes, Cards, RequestsOf, Progress, Startable, Rolled, Back, OnCardOrBack, Packaged, Proper,
     At, Place, BeforeAway, Chosen, Installed, RollingBack
<1>6. QED BY <1>3, <1>4, <1>5

\* Finish: archive and stage are removed, the copies stay.
LEMMA CutFinish == ASSUME CutInv, CutUpgrade!Finish(r1) PROVE CutInv'
<1> USE CutFacts DEF CutInv, CutUpgrade!Finish, CutUpgrade!At, CutUpgrade!Go, CutUpgrade!Die
<1>1. fs' \in Cards(CutUpgrade!Trees, CutUpgrade!Copies) BY DEF CutTypes, Cards
<1>2. req' \in RequestsOf(CutSlots) BY DEF CutTypes, RequestsOf, Steps, BeforeAway, Installed, RollingBack
<1>3. CutTypes' BY <1>1, <1>2 DEF CutTypes
<1>4. Progress' BY DEF CutTypes, Cards, RequestsOf, Progress, At, Place, BeforeAway, Chosen, Installed, RollingBack
<1>5. Startable' BY DEF CutTypes, Cards, RequestsOf, Progress, Startable, Rolled, Back, OnCardOrBack, Packaged, Proper,
     At, Place, BeforeAway, Chosen, Installed, RollingBack
<1>6. QED BY <1>3, <1>4, <1>5

\* Unlock: the lock is given back before the restart.
LEMMA CutUnlock == ASSUME CutInv, CutUpgrade!Unlock(r1) PROVE CutInv'
<1> USE CutFacts DEF CutInv, CutUpgrade!Unlock, CutUpgrade!At, CutUpgrade!Go, CutUpgrade!Die
<1>1. fs' \in Cards(CutUpgrade!Trees, CutUpgrade!Copies) BY DEF CutTypes, Cards
<1>2. req' \in RequestsOf(CutSlots) BY DEF CutTypes, RequestsOf, Steps, BeforeAway, Installed, RollingBack
<1>3. CutTypes' BY <1>1, <1>2 DEF CutTypes
<1>4. Progress' BY DEF CutTypes, Cards, RequestsOf, Progress, At, Place, BeforeAway, Chosen, Installed, RollingBack
<1>5. Startable' BY DEF CutTypes, Cards, RequestsOf, Progress, Startable, Rolled, Back, OnCardOrBack, Packaged, Proper,
     At, Place, BeforeAway, Chosen, Installed, RollingBack
<1>6. QED BY <1>3, <1>4, <1>5

\* Power goes, or the request restarts the camera: what is on the card and in the flash stays.
LEMMA CutDown ==
  ASSUME CutInv, CutUpgrade!Down, UNCHANGED <<init, initNew, saved>> PROVE CutInv'
<1> USE CutFacts DEF CutInv
<1>1. mode' = "off" /\ req' = [i \in {r1} |-> CutUpgrade!Idle] BY DEF CutUpgrade!Down
<1>2. req' \in RequestsOf(CutSlots) /\ At' = "idle" /\ ~req'[r1].old /\ ~req'[r1].new /\ ~req'[r1].installed
  BY <1>1 DEF RequestsOf, CutUpgrade!Idle, Steps, At
<1>3. /\ fs' \in Cards(CutUpgrade!Trees, CutUpgrade!Copies)
      /\ UNCHANGED <<fs.tree, fs.stage, fs.rb, fs.rinit, fs.extra, fs.factory>>
  BY DEF CutUpgrade!Down, CutTypes, Cards
<1>4. CutTypes' BY <1>1, <1>2, <1>3 DEF CutTypes
<1>5. Progress' BY <1>2 DEF Progress, BeforeAway, Chosen, Installed, RollingBack
<1>6. Startable'
  <2>1. init = CutUpgrade!Torn \/ OnCardOrBack(init) \/ Packaged
    BY DEF CutTypes, Startable, CutUpgrade!Installer
  <2>2. (init = CutUpgrade!Torn \/ OnCardOrBack(init) \/ Packaged)'
    BY <1>3, <2>1 DEF OnCardOrBack, Back, Packaged
  <2>3. ~Rolled' BY <1>2 DEF Rolled
  <2>4. QED BY <1>1, <1>2, <1>3, <2>2, <2>3 DEF Startable, Proper, CutUpgrade!Installer
<1>7. QED BY <1>4, <1>5, <1>6

\* Reboot: a request that succeeded ends with a restart.
LEMMA CutReboot == ASSUME CutInv, CutUpgrade!Reboot(r1) PROVE CutInv'
  BY CutDown DEF CutUpgrade!Reboot

\* RestoreInit: a bootstrap that was replaced is being written back.
LEMMA CutRestoreInit == ASSUME CutInv, CutUpgrade!RestoreInit(r1) PROVE CutInv'
<1> USE CutFacts DEF CutInv, CutUpgrade!RestoreInit, CutUpgrade!Copy, CutUpgrade!At, CutUpgrade!Go,
      CutUpgrade!Die
<1>1. fs' \in Cards(CutUpgrade!Trees, CutUpgrade!Copies) BY DEF CutTypes, Cards
<1>2. req' \in RequestsOf(CutSlots) BY DEF CutTypes, RequestsOf, Steps, BeforeAway, Installed, RollingBack
<1>3. CutTypes' BY <1>1, <1>2 DEF CutTypes
<1>4. Progress' BY DEF CutTypes, Cards, RequestsOf, Progress, At, Place, BeforeAway, Chosen, Installed, RollingBack
<1>5. Startable' BY DEF CutTypes, Cards, RequestsOf, Progress, Startable, Rolled, Back, OnCardOrBack, Packaged, Proper,
     At, Place, BeforeAway, Chosen, Installed, RollingBack
<1>6. QED BY <1>3, <1>4, <1>5

\* RemoveNew: the tree that failed is moved out of the way.
LEMMA CutRemoveNew == ASSUME CutInv, CutUpgrade!RemoveNew(r1) PROVE CutInv'
<1> USE CutFacts DEF CutInv
<1>1. /\ At = "untree" /\ mode = "on" /\ req' = [req EXCEPT ![r1].pc = "retree"]
      /\ fs' = IF req[r1].new /\ fs.tree # NoTree THEN [fs EXCEPT !.failed = fs.tree, !.tree = NoTree] ELSE fs
      /\ UNCHANGED <<init, initNew, mode, saved>>
  BY DEF CutUpgrade!RemoveNew, CutUpgrade!At, CutUpgrade!Go, At
<1>2. req' \in RequestsOf(CutSlots)
  BY <1>1 DEF CutTypes, RequestsOf, Steps, RollingBack
<1>3. /\ fs' \in Cards(CutUpgrade!Trees, CutUpgrade!Copies)
      /\ UNCHANGED <<fs.stage, fs.rb, fs.rinit, fs.extra, fs.factory>>
      /\ fs'.tree = IF req[r1].new THEN NoTree ELSE fs.tree
  <2>1. CASE req[r1].new /\ fs.tree # NoTree BY <1>1, <2>1 DEF CutTypes, Cards
  <2>2. CASE ~(req[r1].new /\ fs.tree # NoTree) BY <1>1, <2>2 DEF CutTypes, Cards
  <2>3. QED BY <2>1, <2>2
<1>4. CutTypes' BY <1>1, <1>2, <1>3 DEF CutTypes
<1>5. /\ At' = "retree" /\ UNCHANGED <<Place, req[r1].ver, req[r1].arch, req[r1].old, req[r1].new, req[r1].installed>>
  BY <1>1 DEF At, Place, CutTypes, RequestsOf
<1>6. Progress' BY <1>1, <1>3, <1>5 DEF Progress, At, BeforeAway, Chosen, Installed, RollingBack
<1>7. Startable'
  <2>1. (init = CutUpgrade!Torn \/ OnCardOrBack(init))'
    <3>1. CASE req[r1].new
      <4>1. Rolled BY <1>1, <3>1 DEF Rolled, Progress, At, RollingBack
      <4>2. init = CutUpgrade!Torn \/ Back(init) BY <1>1, <4>1 DEF Startable
      <4>3. QED BY <1>1, <1>3, <4>2 DEF OnCardOrBack, Back
    <3>2. CASE ~req[r1].new
      <4>1. init = CutUpgrade!Torn \/ OnCardOrBack(init) BY <1>1 DEF Startable
      <4>2. QED BY <1>1, <1>3, <3>2, <4>1 DEF OnCardOrBack, Back
    <3>3. QED BY <3>1, <3>2
  <2>2. Rolled' => Rolled BY <1>1, <1>5 DEF Rolled, At, RollingBack
  <2>3. Rolled => /\ fs.rinit[Place] # 0 /\ (fs.rinit[Place] = CutUpgrade!Torn \/ Back(fs.rinit[Place]))
                  /\ ~req[r1].installed => init = fs.rinit[Place]
                  /\ init = fs.rinit[Place] \/ init = CutUpgrade!Torn
    BY <1>1 DEF Startable
  <2>4. \A v : Back(v) => Back(v)' BY <1>3 DEF Back
  <2>5. Proper(fs.tree)' BY <1>3 DEF Proper, NoTree, Startable
  <2>6. QED BY <1>1, <1>3, <1>5, <2>1, <2>2, <2>3, <2>4, <2>5 DEF Startable, Proper, CutUpgrade!Installer
<1>8. QED BY <1>4, <1>6, <1>7

\* Sweep: the copy of the bootstrap is removed once the trees are back.
LEMMA CutSweep == ASSUME CutInv, CutUpgrade!Sweep(r1) PROVE CutInv'
<1> USE CutFacts DEF CutInv, CutUpgrade!Sweep, CutUpgrade!Copy, CutUpgrade!At, CutUpgrade!Go, CutUpgrade!Die
<1>1. fs' \in Cards(CutUpgrade!Trees, CutUpgrade!Copies) BY DEF CutTypes, Cards
<1>2. req' \in RequestsOf(CutSlots) BY DEF CutTypes, RequestsOf, Steps, BeforeAway, Installed, RollingBack
<1>3. CutTypes' BY <1>1, <1>2 DEF CutTypes
<1>4. Progress' BY DEF CutTypes, Cards, RequestsOf, Progress, At, Place, BeforeAway, Chosen, Installed, RollingBack
<1>5. Startable' BY DEF CutTypes, Cards, RequestsOf, Progress, Startable, Rolled, Back, OnCardOrBack, Packaged, Proper,
     At, Place, BeforeAway, Chosen, Installed, RollingBack
<1>6. QED BY <1>3, <1>4, <1>5

\* Cleanup: the lock is given back, and the request ends.
LEMMA CutCleanup == ASSUME CutInv, CutUpgrade!Cleanup(r1) PROVE CutInv'
<1> USE CutFacts DEF CutInv, CutUpgrade!Cleanup, CutUpgrade!Idle, CutUpgrade!At, CutUpgrade!Go, CutUpgrade!Die
<1>1. fs' \in Cards(CutUpgrade!Trees, CutUpgrade!Copies) BY DEF CutTypes, Cards
<1>2. req' \in RequestsOf(CutSlots) BY DEF CutTypes, RequestsOf, Steps, BeforeAway, Installed, RollingBack
<1>3. CutTypes' BY <1>1, <1>2 DEF CutTypes
<1>4. Progress' BY DEF CutTypes, Cards, RequestsOf, Progress, At, Place, BeforeAway, Chosen, Installed, RollingBack
<1>5. Startable' BY DEF CutTypes, Cards, RequestsOf, Progress, Startable, Rolled, Back, OnCardOrBack, Packaged, Proper,
     At, Place, BeforeAway, Chosen, Installed, RollingBack
<1>6. QED BY <1>3, <1>4, <1>5

\* StepFails: any command before the end leads to the rollback.
LEMMA CutStepFails == ASSUME CutInv, CutUpgrade!StepFails(r1) PROVE CutInv'
<1> USE CutFacts DEF CutInv, CutUpgrade!StepFails, CutUpgrade!Fault, CutUpgrade!Forward, CutUpgrade!At,
      CutUpgrade!Go, CutUpgrade!Die
<1>1. fs' \in Cards(CutUpgrade!Trees, CutUpgrade!Copies) BY DEF CutTypes, Cards
<1>2. req' \in RequestsOf(CutSlots) BY DEF CutTypes, RequestsOf, Steps, BeforeAway, Installed, RollingBack
<1>3. CutTypes' BY <1>1, <1>2 DEF CutTypes
<1>4. Progress' BY DEF CutTypes, Cards, RequestsOf, Progress, At, Place, BeforeAway, Chosen, Installed, RollingBack
<1>5. Startable' BY DEF CutTypes, Cards, RequestsOf, Progress, Startable, Rolled, Back, OnCardOrBack, Packaged, Proper,
     At, Place, BeforeAway, Chosen, Installed, RollingBack
<1>6. QED BY <1>3, <1>4, <1>5

\* A signal ends a request with the rollback or without it; the copies stay.
LEMMA CutSignal == ASSUME CutInv, CutUpgrade!Signal(r1) PROVE CutInv'
<1> USE CutFacts DEF CutInv
<1>1. /\ mode = "on" /\ At \in BeforeAway \cup {"place", "check", "install"} \cup (Installed \ {"unlock", "done"})
      /\ UNCHANGED <<fs, init, initNew, kernel, mode, saved>>
  BY DEF CutUpgrade!Signal, CutUpgrade!Forward, At, BeforeAway, Installed
<1>2. PICK n \in {"uninit", "cleanup"} : req' = [req EXCEPT ![r1].pc = n]
  BY DEF CutUpgrade!Signal, CutUpgrade!Go
<1>3. req' \in RequestsOf(CutSlots) BY <1>2 DEF CutTypes, RequestsOf, Steps, RollingBack
<1>4. CutTypes' BY <1>1, <1>3 DEF CutTypes
<1>5. /\ At' = n /\ UNCHANGED <<Place, req[r1].ver, req[r1].arch, req[r1].old, req[r1].new, req[r1].installed>>
  BY <1>2 DEF At, Place, CutTypes, RequestsOf
<1>6. Progress' BY <1>1, <1>5 DEF Progress, BeforeAway, Chosen, Installed, RollingBack
<1>7. Startable'
  <2>1. Rolled' => Rolled /\ At \notin {"unlock", "done"}
    BY <1>1, <1>5 DEF Rolled, Progress, BeforeAway, Installed, RollingBack
  <2>2. QED
    BY <1>1, <1>5, <2>1 DEF Startable, Back, OnCardOrBack, Packaged, Proper, BeforeAway, Installed, CutUpgrade!Installer
<1>8. QED BY <1>4, <1>6, <1>7

\* A step that leaves alone what the request has on the card and in the flash.
LEMMA CutProgressKept ==
  ASSUME CutInv, UNCHANGED <<init, initNew, req, fs.tree, fs.stage, fs.rb, fs.rinit, fs.extra>>
  PROVE  Progress' /\ (Rolled' = Rolled) /\ (\A v : Back(v)' = Back(v)) /\ (\A v : OnCardOrBack(v)' = OnCardOrBack(v))
  BY DEF CutInv, Progress, At, Place, Rolled, Back, OnCardOrBack

\* An upload changes the archive only.
LEMMA CutUpload ==
  ASSUME CutInv, CutUpgrade!UploadRemoves \/ \E rel \in Releases : CutUpgrade!UploadPlaces(rel) PROVE CutInv'
<1> USE CutFacts DEF CutInv
<1>1. PICK v \in Releases \cup {0} : fs' = [fs EXCEPT !.fw = v] /\ UNCHANGED <<init, initNew, mode, req, saved>>
  BY DEF CutUpgrade!UploadRemoves, CutUpgrade!UploadPlaces
<1>2. /\ fs' \in Cards(CutUpgrade!Trees, CutUpgrade!Copies)
      /\ UNCHANGED <<fs.tree, fs.stage, fs.rb, fs.rinit, fs.extra, fs.factory>>
  BY <1>1 DEF CutTypes, Cards
<1>3. CutTypes' BY <1>1, <1>2 DEF CutTypes
<1>4. Progress' BY <1>1, <1>2, CutProgressKept
<1>5. Startable' BY <1>1, <1>2 DEF Startable, Back, OnCardOrBack, Packaged, Rolled, Proper, At, Place
<1>6. QED BY <1>3, <1>4, <1>5

\* The owner's settings change the tree in place, not its release.
LEMMA CutSave == ASSUME CutInv, CutUpgrade!Save PROVE CutInv'
<1> USE CutFacts DEF CutInv
<1>1. /\ mode = "on" /\ fs.tree # NoTree /\ At = "idle" /\ saved < MaxCutEdits /\ saved' = saved + 1
      /\ fs' = [fs EXCEPT !.tree.conf = saved + 1] /\ UNCHANGED <<init, initNew, mode, req>>
  BY DEF CutUpgrade!Save, CutUpgrade!Serving, At
<1>2. saved + 1 \in 0..MaxCutEdits BY <1>1 DEF CutTypes
<1>3. fs.tree \in CutUpgrade!Trees BY DEF CutTypes, Cards
<1>4. [fs.tree EXCEPT !.conf = saved + 1] \in CutUpgrade!Trees BY <1>2, <1>3 DEF CutUpgrade!Trees
<1>5. /\ fs' \in Cards(CutUpgrade!Trees, CutUpgrade!Copies) /\ fs'.tree = [fs.tree EXCEPT !.conf = saved + 1]
      /\ UNCHANGED <<fs.stage, fs.rb, fs.rinit, fs.extra, fs.factory>>
  BY <1>1, <1>4 DEF CutTypes, Cards
<1>6. fs'.tree.rel = fs.tree.rel /\ fs.tree.rel # 0 BY <1>1, <1>3, <1>5 DEF CutUpgrade!Trees, Startable, Proper
<1>7. CutTypes' BY <1>1, <1>2, <1>5 DEF CutTypes
<1>8. Progress' BY <1>1, <1>5, <1>6 DEF Progress, At, BeforeAway, Chosen, Installed, RollingBack
<1>9. Startable'
  BY <1>1, <1>5, <1>6 DEF Startable, Back, OnCardOrBack, Packaged, Rolled, Proper, At, Installed, RollingBack,
     CutUpgrade!Installer
<1>10. QED BY <1>7, <1>8, <1>9

\* The steps of a start that touch neither the card nor the bootstrap.
LEMMA CutModes ==
  ASSUME CutInv, UNCHANGED <<fs, init, initNew, req, saved>>, mode # "on",
         mode' \in {"on", "stuck", "dead", "factory"} \cup CutUpgrade!Installer,
         mode' = "on" => fs.tree.rel = init,
         mode' = "factory" => fs.factory # 0,
         mode' \in CutUpgrade!Installer \ {"factory"} => Packaged,
         mode' \in {"patch", "reread", "retired"} => init = fs.factory
  PROVE  CutInv'
<1> USE CutFacts DEF CutInv
<1>1. CutTypes' BY DEF CutTypes, CutUpgrade!Installer
<1>2. Progress' BY CutProgressKept
<1>3. init = CutUpgrade!Torn \/ OnCardOrBack(init) \/ Packaged
  BY DEF CutTypes, Startable, CutUpgrade!Installer
<1>4. Startable'
  BY <1>3 DEF Startable, Back, OnCardOrBack, Packaged, Rolled, Proper, At, Place, CutUpgrade!Installer
<1>5. QED BY <1>1, <1>2, <1>4

\* The bootstrap starts only the tree of its own release.
LEMMA CutBoot == ASSUME CutInv, CutUpgrade!Boot PROVE CutInv'
<1>1. mode = "off" /\ UNCHANGED <<fs, init, initNew, req, saved>> BY DEF CutUpgrade!Boot
<1>2. mode' \in {"on", "stuck", "dead", "factory"} /\ (mode' = "on" => fs.tree.rel = init) BY DEF CutUpgrade!Boot
<1>3. mode' = "factory" => fs.factory # 0 BY DEF CutUpgrade!Boot
<1>4. QED BY <1>1, <1>2, <1>3, CutModes DEF CutUpgrade!Installer

\* The steps of Factory/config.sh that touch neither the card nor the bootstrap.
LEMMA CutInstaller ==
  ASSUME CutInv, CutUpgrade!FactoryCheck \/ CutUpgrade!FactoryKernel \/ CutUpgrade!FactoryFails PROVE CutInv'
<1>1. CASE CutUpgrade!FactoryCheck
  <2>1. mode = "factory" /\ UNCHANGED <<fs, init, initNew, req, saved>> BY <1>1 DEF CutUpgrade!FactoryCheck
  <2>2. mode' \in {"stuck", "patch", "bootstrap"} BY <1>1 DEF CutUpgrade!FactoryCheck
  <2>3. fs.factory # 0 BY <2>1 DEF CutInv, Startable
  <2>4. mode' \in {"patch", "bootstrap"} => Packaged BY <1>1, <2>3 DEF CutUpgrade!FactoryCheck, Packaged
  <2>5. mode' = "patch" => init = fs.factory BY <1>1 DEF CutUpgrade!FactoryCheck
  <2>6. QED BY <2>1, <2>2, <2>4, <2>5, CutModes DEF CutUpgrade!Installer
<1>2. CASE CutUpgrade!FactoryKernel
  <2>1. mode \in {"patch", "reread"} /\ UNCHANGED <<fs, init, initNew, req, saved>> BY <1>2 DEF CutUpgrade!FactoryKernel
  <2>2. mode' \in {"retired", "reread", "stuck"} BY <1>2 DEF CutUpgrade!FactoryKernel
  <2>3. Packaged /\ init = fs.factory BY <2>1 DEF CutInv, Startable, CutUpgrade!Installer
  <2>4. QED BY <2>1, <2>2, <2>3, CutModes DEF CutUpgrade!Installer
<1>3. CASE CutUpgrade!FactoryFails
  BY <1>3, CutModes DEF CutUpgrade!FactoryFails, CutUpgrade!Installer
<1>4. QED BY <1>1, <1>2, <1>3

\* Factory/config.sh installs the bootstrap of the tree in place.
LEMMA CutFactoryInit == ASSUME CutInv, CutUpgrade!FactoryInit PROVE CutInv'
<1> USE CutFacts DEF CutInv
<1>1. /\ mode = "bootstrap" /\ mode' = "patch" /\ init' = fs.factory /\ UNCHANGED <<fs, initNew, req, saved>>
  BY DEF CutUpgrade!FactoryInit
<1>2. Packaged /\ At = "idle" BY <1>1 DEF Startable, CutUpgrade!Installer
<1>3. fs.factory \in Releases BY <1>2 DEF CutTypes, Cards, Packaged
<1>4. CutTypes' BY <1>1, <1>3 DEF CutTypes, CutUpgrade!Installer
<1>5. Progress' BY <1>1, <1>2 DEF Progress, At, Place, BeforeAway, Chosen, Installed, RollingBack
<1>6. Startable'
  BY <1>1, <1>2 DEF Startable, Progress, Packaged, Rolled, Proper, At, Place, Installed, RollingBack, CutUpgrade!Installer
<1>7. QED BY <1>4, <1>5, <1>6

\* It retires its directory once bootstrap and tree are of one release.
LEMMA CutFactoryFinish == ASSUME CutInv, CutUpgrade!FactoryFinish PROVE CutInv'
<1> USE CutFacts DEF CutInv
<1>1. /\ mode = "retired" /\ mode' = "off" /\ fs' = [fs EXCEPT !.factory = 0]
      /\ UNCHANGED <<init, initNew, req, saved>>
  BY DEF CutUpgrade!FactoryFinish
<1>2. At = "idle" /\ fs.tree.rel = init BY <1>1 DEF Startable, Packaged, CutUpgrade!Installer
<1>3. /\ fs' \in Cards(CutUpgrade!Trees, CutUpgrade!Copies)
      /\ UNCHANGED <<fs.tree, fs.stage, fs.rb, fs.rinit, fs.extra>>
  BY <1>1 DEF CutTypes, Cards
<1>4. CutTypes' BY <1>1, <1>3 DEF CutTypes
<1>5. Progress' BY <1>1, <1>3, CutProgressKept
<1>6. Startable'
  BY <1>1, <1>2, <1>3 DEF Startable, Progress, OnCardOrBack, Rolled, Proper, At, Place, Installed, RollingBack,
     CutUpgrade!Installer
<1>7. QED BY <1>4, <1>5, <1>6

\* The owner renames the tree that the bootstrap wants, of whatever name it is.
LEMMA CutRepair == ASSUME CutInv, CutUpgrade!Repair PROVE CutInv'
<1> USE CutFacts DEF CutInv
<1>1. PICK t \in CutUpgrade!OnCard :
        /\ t.rel = init /\ saved' = t.conf
        /\ fs' = [fs EXCEPT !.tree = t, !.factory = 0,
                            !.rb = [c \in CutUpgrade!Copies |-> IF fs.rb[c] = t THEN NoTree ELSE fs.rb[c]]]
  BY DEF CutUpgrade!Repair
<1>2. mode = "stuck" /\ mode' = "off" /\ At = "idle" /\ UNCHANGED <<init, initNew, req>>
  BY DEF CutUpgrade!Repair, Startable
<1>3. t \in CutUpgrade!Trees BY DEF CutTypes, Cards, CutUpgrade!OnCard
<1>4. t.rel # 0 /\ t.conf \in 0..MaxCutEdits BY <1>1, <1>3 DEF CutTypes, CutUpgrade!Trees
<1>5. /\ fs' \in Cards(CutUpgrade!Trees, CutUpgrade!Copies) /\ fs'.tree = t /\ UNCHANGED fs.stage
      /\ \A c \in CutUpgrade!Copies : fs'.rb[c] = NoTree \/ fs'.rb[c] = fs.rb[c]
  <2>1. [c \in CutUpgrade!Copies |-> IF fs.rb[c] = t THEN NoTree ELSE fs.rb[c]] \in [CutUpgrade!Copies -> CutUpgrade!Trees]
    BY DEF CutTypes, Cards
  <2>2. PICK rb \in [CutUpgrade!Copies -> CutUpgrade!Trees] :
          rb = [c \in CutUpgrade!Copies |-> IF fs.rb[c] = t THEN NoTree ELSE fs.rb[c]]
    BY <2>1
  <2>3. fs' = [fs EXCEPT !.tree = t, !.factory = 0, !.rb = rb] BY <1>1, <2>2
  <2>4. fs' \in Cards(CutUpgrade!Trees, CutUpgrade!Copies) /\ fs'.tree = t /\ UNCHANGED fs.stage /\ fs'.rb = rb
    BY <1>3, <2>3 DEF CutTypes, Cards
  <2>5. \A c \in CutUpgrade!Copies : rb[c] = NoTree \/ rb[c] = fs.rb[c] BY <2>2
  <2>6. QED BY <2>4, <2>5
<1>6. CutTypes' BY <1>1, <1>2, <1>4, <1>5 DEF CutTypes
<1>7. Progress' BY <1>2 DEF Progress, At, BeforeAway, Chosen, Installed, RollingBack
<1>8. Startable'
  <2>1. OnCardOrBack(init)' BY <1>1, <1>2, <1>5 DEF OnCardOrBack
  <2>2. Proper(NoTree) BY DEF Proper
  <2>3. /\ Proper(fs.tree)' /\ Proper(fs.stage)'
        /\ \A c \in CutUpgrade!Copies : Proper(fs'.rb[c])
    BY <1>4, <1>5, <2>2 DEF Startable, Proper
  <2>4. At' = "idle" /\ ~Rolled' BY <1>2 DEF At, Progress, Rolled
  <2>5. QED BY <1>2, <2>1, <2>3, <2>4 DEF Startable, Proper, CutUpgrade!Installer
<1>9. QED BY <1>6, <1>7, <1>8

\* CutInv is kept by every step of upgrades and installations that are cut off.
LEMMA CutStep == ASSUME CutInv, CutUpgrade!Next PROVE CutInv'
<1>1. CASE CutUpgrade!Upgrade(r1)
  BY <1>1, CutLock, CutSteal, CutTake, CutWritePid, CutChooseSlot, CutValidate, CutClear, CutExtract, CutVerify,
     CutCopySettings, CutKeepInit, CutStageInit, CutMoveAway, CutPlace, CutCheck, CutInstallInit, CutCompare, CutRetire,
     CutKernel, CutWriteKernel, CutReadBack, CutFinish, CutUnlock, CutReboot, CutRestoreInit, CutRestoreInitEnds,
     CutRemoveNew, CutRestoreOld, CutSweep, CutCleanup
  DEF CutUpgrade!Upgrade
<1>2. CASE CutUpgrade!PowerLoss BY <1>2, CutDown DEF CutUpgrade!PowerLoss
<1>3. CASE CutUpgrade!Start \/ CutUpgrade!FactoryFails
  BY <1>3, CutBoot, CutInstaller, CutFactoryInit, CutFactoryFinish DEF CutUpgrade!Start
<1>4. CASE CutUpgrade!UploadRemoves \/ (\E rel \in Releases : CutUpgrade!UploadPlaces(rel)) \/ CutUpgrade!Save
  BY <1>4, CutUpload, CutSave
<1>5. QED BY <1>1, <1>2, <1>3, <1>4, CutBegin, CutStepFails, CutSignal, CutRepair DEF CutUpgrade!Next

-----------------------------------------------------------------------------
\* Both invariants hold before the first upgrade.
LEMMA CardStart == Init => CardInv
<1> SUFFICES ASSUME Init PROVE CardInv OBVIOUS
<1>1. CASE part = "upgrade"
  <2> USE UpFacts
  <2>1. Upgrading!Init BY <1>1 DEF Init
  <2>2. PICK rel \in Releases, trigger \in Releases \cup {0}, m \in {"on", "off"} :
          /\ m = "on" => rel = 1 /\ trigger \in {0}
          /\ m = "off" => rel \in {}
          /\ fs = [tree |-> [rel |-> rel, conf |-> 0], stage |-> Upgrading!NoTree, failed |-> Upgrading!NoTree, extra |-> 0,
                   fw |-> 0, factory |-> trigger, manifest |-> FALSE,
                   rb |-> [c \in Upgrading!Copies |-> Upgrading!NoTree],
                   rinit |-> [c \in Upgrading!Copies |-> 0], lock |-> "none"]
          /\ mode = m
          /\ init = 1 /\ initNew = 0 /\ kernel = "stock"
          /\ req = [i \in {r1} |-> Upgrading!Idle]
          /\ saved = 0
    BY <2>1 DEF Upgrading!Init
  <2>3. mode = "on" /\ rel = 1 /\ trigger = 0 BY <2>2
  <2>4. 0 \in 0..MaxEdits OBVIOUS
  <2>5. [rel |-> rel, conf |-> 0] \in Upgrading!Trees BY <2>4 DEF Upgrading!Trees
  <2>6. fs \in Cards(Upgrading!Trees, Upgrading!Copies) BY <2>2, <2>5 DEF Cards
  <2>7. req \in RequestsOf(Slots) /\ At = "idle" /\ ~req[r1].old /\ ~req[r1].new /\ ~req[r1].installed
    BY <2>2 DEF RequestsOf, Upgrading!Idle, Steps, At
  <2>8. UpgradeTypes BY <2>2, <2>3, <2>4, <2>6, <2>7 DEF UpgradeTypes
  <2>9. Progress BY <2>7 DEF Progress, BeforeAway, Chosen, Installed, RollingBack
  <2>10. Undoable BY <2>2, <2>3, <2>7 DEF Undoable, Rolled, Kept, BeforeAway, Installed, RollingBack, Upgrading!Torn
  <2>11. QED BY <1>1, <2>8, <2>9, <2>10 DEF CardInv, UpgradeInv
<1>2. CASE part = "cutUpgrade"
  <2> USE CutFacts
  <2>1. CutUpgrade!Init BY <1>2 DEF Init
  <2>2. PICK rel \in Releases, trigger \in Releases \cup {0}, m \in {"on", "off"} :
          /\ m = "on" => rel = 1 /\ trigger \in CutTriggers
          /\ m = "off" => rel \in CutFresh /\ trigger = rel
          /\ fs = [tree |-> [rel |-> rel, conf |-> 0], stage |-> CutUpgrade!NoTree, failed |-> CutUpgrade!NoTree, extra |-> 0,
                   fw |-> 0, factory |-> trigger, manifest |-> FALSE,
                   rb |-> [c \in CutUpgrade!Copies |-> CutUpgrade!NoTree],
                   rinit |-> [c \in CutUpgrade!Copies |-> 0], lock |-> "none"]
          /\ mode = m
          /\ init = 1 /\ initNew = 0 /\ kernel = "stock"
          /\ req = [i \in {r1} |-> CutUpgrade!Idle]
          /\ saved = 0
    BY <2>1 DEF CutUpgrade!Init
  <2>3. 1 \in Releases BY UpgradeConstants DEF CutUpgrade!UpgradeAssumption
  <2>4. 0 \in 0..MaxCutEdits OBVIOUS
  <2>5. [rel |-> rel, conf |-> 0] \in CutUpgrade!Trees BY <2>4 DEF CutUpgrade!Trees
  <2>6. fs \in Cards(CutUpgrade!Trees, CutUpgrade!Copies) BY <2>2, <2>5 DEF Cards
  <2>7. req \in RequestsOf(CutSlots) /\ At = "idle" /\ ~req[r1].old /\ ~req[r1].new /\ ~req[r1].installed
    BY <2>2 DEF RequestsOf, CutUpgrade!Idle, Steps, At
  <2>8. CutTypes BY <2>2, <2>3, <2>4, <2>6, <2>7 DEF CutTypes
  <2>9. Progress BY <2>7 DEF Progress, BeforeAway, Chosen, Installed, RollingBack
  <2>10. /\ fs.tree.rel = rel /\ fs.factory = trigger /\ fs.stage = NoTree /\ rel # 0
         /\ \A c \in CutUpgrade!Copies : fs.rb[c] = NoTree
    BY <2>2
  <2>11. Startable
    BY <2>2, <2>7, <2>10 DEF Startable, OnCardOrBack, Packaged, Proper, Rolled, CutUpgrade!Installer
  <2>12. QED BY <1>2, <2>8, <2>9, <2>11 DEF CardInv, CutInv
<1>3. QED BY <1>1, <1>2 DEF CardInv

\* Both invariants are inductive; the other parts do not touch the card.
LEMMA CardStep == CardInv /\ [Next]_vars => CardInv'
<1> SUFFICES ASSUME CardInv, [Next]_vars PROVE CardInv' OBVIOUS
<1>1. UNCHANGED part BY DEF Next, vars
<1>2. CASE UNCHANGED upgrade
  <2>1. UpgradeInv => UpgradeInv'
    BY <1>2 DEF upgrade, UpgradeInv, UpgradeTypes, Progress, Undoable, Rolled, Kept, At, Place
  <2>2. CutInv => CutInv'
    BY <1>2 DEF upgrade, CutInv, CutTypes, Progress, Startable, Rolled, Proper, Back, OnCardOrBack, Packaged, At, Place
  <2>3. QED BY <1>1, <2>1, <2>2 DEF CardInv
<1>3. CASE part = "upgrade" /\ Upgrading!Next BY <1>1, <1>3, UpStep DEF CardInv
<1>4. CASE part = "cutUpgrade" /\ CutUpgrade!Next BY <1>1, <1>4, CutStep DEF CardInv
<1>5. QED BY <1>2, <1>3, <1>4 DEF Next, vars

\* They say what UpgradeSafe promises.
LEMMA CardFromInv == CardInv => UpgradeSafe
<1>1. ASSUME CardInv, part = "upgrade" PROVE Upgrading!UpgradeUndone /\ Upgrading!WantedOnCard
  <2> USE <1>1 DEF CardInv, UpgradeInv
  <2>1. Upgrading!UpgradeUndone
    <3>1. SUFFICES ASSUME At = "idle" PROVE Kept(fs.tree, init) /\ kernel # "torn"
      BY DEF Upgrading!UpgradeUndone, Upgrading!AtRest, Kept, At
    <3>2. QED BY <3>1 DEF Undoable
  <2>2. Upgrading!WantedOnCard
    <3>1. SUFFICES ASSUME init # Upgrading!Torn PROVE \E tree \in Upgrading!OnCard : tree.rel = init
      BY DEF Upgrading!WantedOnCard
    <3>2. CASE ~req[r1].old \/ At \in Installed \cup {"sweep", "cleanup"} \/ (req[r1].installed /\ At = "uninit")
      <4>1. fs.tree.rel = init
        BY <3>1, <3>2 DEF Undoable, Progress, Kept, UpgradeTypes, RequestsOf, At, Steps, BeforeAway, Installed, RollingBack
      <4>2. QED BY <4>1 DEF Upgrading!OnCard
    <3>3. CASE req[r1].old /\ At \notin Installed \cup {"sweep", "cleanup"} /\ ~(req[r1].installed /\ At = "uninit")
      <4>1. Rolled /\ At # "idle" /\ (~req[r1].installed \/ At \in {"untree", "retree"})
        BY <3>1, <3>3 DEF Undoable, Progress, Rolled, UpgradeTypes, RequestsOf, At, Steps, BeforeAway, Installed, RollingBack
      <4>2. fs.rb[Place].rel = init BY <3>3, <4>1 DEF Undoable, Kept, Installed
      <4>3. QED BY <4>1, <4>2, UpPlaced DEF Upgrading!OnCard
    <3>4. QED BY <3>2, <3>3
  <2>3. QED BY <2>1, <2>2
<1>2. ASSUME CardInv, part = "cutUpgrade" PROVE CutUpgrade!WantedOnCard
  <2>1. init = CutUpgrade!Torn \/ OnCardOrBack(init) \/ Packaged
    BY <1>2 DEF CardInv, CutInv, CutTypes, Startable, CutUpgrade!Installer
  <2>2. CASE OnCardOrBack(init) BY <2>2 DEF CutUpgrade!WantedOnCard, CutUpgrade!OnCard, OnCardOrBack, Back
  <2>3. QED BY <2>1, <2>2 DEF CutUpgrade!WantedOnCard, Packaged
<1>3. QED BY <1>1, <1>2 DEF UpgradeSafe

(* An upgrade whose commands fail is undone, with the settings that were   *)
(* saved; and wherever power is lost or a signal arrives, the card holds   *)
(* the tree that the bootstrap wants (fw_upgrade.sh: rollback and cleanup; *)
(* Factory/config.sh).                                                     *)
THEOREM UpgradeIsSafe == Spec => []UpgradeSafe
<1>1. Init => CardInv BY CardStart
<1>2. CardInv /\ [Next]_vars => CardInv' BY CardStep
<1>3. CardInv => UpgradeSafe BY CardFromInv
<1>4. QED BY <1>1, <1>2, <1>3, PTL DEF Spec

-----------------------------------------------------------------------------
(* The two homes of the configuration.                                     *)

Files == {"system", "camera"} \cup Keys
TornFile == MaxChanges + 2
Versions == 1..MaxChanges + 1
AllOf(home, contents) == \A f \in Files : home[f] \in contents

HomeTypes ==
    /\ card \in [Files -> 0..TornFile] /\ flash \in [Files -> 0..TornFile]
    /\ boot \in {"off", "defaults", "prepare", "fill", "run"}
    /\ source \in {"sd", "flash"} /\ sync \in {"idle", "copy", "retire"}
    /\ todo \subseteq Files /\ edits \in 0..MaxChanges

\* The flash lacks system.conf only in a camera that never ran, whose files are
\* then the defaults or a part of them; a copy to the flash has system.conf.
NewCamera ==
    /\ flash["system"] = 0 => boot \in {"off", "defaults"}
    /\ flash["system"] = 0 \/ boot = "defaults" => AllOf(flash, {0, 1, TornFile})
    /\ boot = "defaults" => \A f \in Files \ todo : flash[f] = 1
    /\ sync # "idle" => boot = "run" /\ card["system"] # 0

HomeInv == HomeTypes /\ NewCamera

\* Without interrupted starts each home is empty or whole between the copies,
\* and the card is used only when it is whole.
WholeHomes ==
    /\ boot = "off" => AllOf(flash, {0}) \/ AllOf(flash, Versions)
    /\ boot = "defaults" => AllOf(flash, {0, 1})
    /\ boot \notin {"off", "defaults"} => AllOf(flash, Versions)
    /\ boot # "fill" => AllOf(card, {0}) \/ AllOf(card, Versions)
    /\ boot = "fill" => \A f \in Files \ todo : card[f] \in Versions
    /\ source = "sd" => boot = "run" /\ AllOf(card, Versions)
    /\ sync # "idle" => source = "sd"

\* What NoSilentDefaults says of a step.
OwnersStep ==
    \A f \in Files : flash[f] \in Versions \ {1} /\ flash'[f] # flash[f] =>
        (flash'[f] = card[f] \/ flash'[f] = edits' + 1)

LEMMA HomeBounds == MaxChanges \in Nat
BY SettingsConstants DEF Config!ConfigAssumption

\* The invariant is inductive, and the owner's versions stay, in a camera whose starts are whole.
LEMMA ConfigHomeKeeps ==
  ASSUME HomeInv, Config!Next PROVE HomeInv' /\ OwnersStep
<1> USE HomeBounds DEF Files, TornFile, Versions, AllOf
<1>1. CASE Config!PowerOn
  <2>1. HomeTypes' BY <1>1 DEF HomeInv, HomeTypes, NewCamera, Config!PowerOn, Config!Files, Config!Missing, Config!Torn, Config!Contents, Config!Versions
  <2>2. NewCamera' BY <1>1 DEF HomeInv, HomeTypes, NewCamera, Config!PowerOn, Config!Files, Config!Missing, Config!Torn, Config!Contents, Config!Versions
  <2>3. OwnersStep BY <1>1 DEF HomeInv, HomeTypes, NewCamera, OwnersStep, Config!PowerOn, Config!Files, Config!Missing, Config!Torn, Config!Contents, Config!Versions
  <2>4. QED BY <2>1, <2>2, <2>3 DEF HomeInv
<1>2. CASE Config!Prepare
  <2>1. HomeTypes' BY <1>2 DEF HomeInv, HomeTypes, NewCamera, Config!Prepare, Config!Bind, Config!Files, Config!Missing, Config!Torn, Config!Contents, Config!Versions
  <2>2. NewCamera' BY <1>2 DEF HomeInv, HomeTypes, NewCamera, Config!Prepare, Config!Bind, Config!Files, Config!Missing, Config!Torn, Config!Contents, Config!Versions
  <2>3. OwnersStep BY <1>2 DEF HomeInv, HomeTypes, NewCamera, OwnersStep, Config!Prepare, Config!Bind, Config!Files, Config!Missing, Config!Torn, Config!Contents, Config!Versions
  <2>4. QED BY <2>1, <2>2, <2>3 DEF HomeInv
<1>3. CASE Config!SyncStarts
  <2>1. HomeTypes' BY <1>3 DEF HomeInv, HomeTypes, NewCamera, Config!SyncStarts, Config!Files, Config!Missing, Config!Torn, Config!Contents, Config!Versions
  <2>2. NewCamera' BY <1>3 DEF HomeInv, HomeTypes, NewCamera, Config!SyncStarts, Config!Files, Config!Missing, Config!Torn, Config!Contents, Config!Versions
  <2>3. OwnersStep BY <1>3 DEF HomeInv, HomeTypes, NewCamera, OwnersStep, Config!SyncStarts, Config!Files, Config!Missing, Config!Torn, Config!Contents, Config!Versions
  <2>4. QED BY <2>1, <2>2, <2>3 DEF HomeInv
<1>4. CASE Config!SyncKilled
  <2>1. HomeTypes' BY <1>4 DEF HomeInv, HomeTypes, NewCamera, Config!SyncKilled, Config!Files, Config!Missing, Config!Torn, Config!Contents, Config!Versions
  <2>2. NewCamera' BY <1>4 DEF HomeInv, HomeTypes, NewCamera, Config!SyncKilled, Config!Files, Config!Missing, Config!Torn, Config!Contents, Config!Versions
  <2>3. OwnersStep BY <1>4 DEF HomeInv, HomeTypes, NewCamera, OwnersStep, Config!SyncKilled, Config!Files, Config!Missing, Config!Torn, Config!Contents, Config!Versions
  <2>4. QED BY <2>1, <2>2, <2>3 DEF HomeInv
<1>5. CASE Config!MoveCard
  <2>1. HomeTypes' BY <1>5 DEF HomeInv, HomeTypes, NewCamera, Config!MoveCard, Config!Files, Config!Missing, Config!Torn, Config!Contents, Config!Versions
  <2>2. NewCamera' BY <1>5 DEF HomeInv, HomeTypes, NewCamera, Config!MoveCard, Config!Files, Config!Missing, Config!Torn, Config!Contents, Config!Versions
  <2>3. OwnersStep BY <1>5 DEF HomeInv, HomeTypes, NewCamera, OwnersStep, Config!MoveCard, Config!Files, Config!Missing, Config!Torn, Config!Contents, Config!Versions
  <2>4. QED BY <2>1, <2>2, <2>3 DEF HomeInv
<1>6. CASE Config!PowerLoss
  <2>1. HomeTypes' BY <1>6 DEF HomeInv, HomeTypes, NewCamera, Config!PowerLoss, Config!Files, Config!Missing, Config!Torn, Config!Contents, Config!Versions
  <2>2. NewCamera' BY <1>6 DEF HomeInv, HomeTypes, NewCamera, Config!PowerLoss, Config!Files, Config!Missing, Config!Torn, Config!Contents, Config!Versions
  <2>3. OwnersStep BY <1>6 DEF HomeInv, HomeTypes, NewCamera, OwnersStep, Config!PowerLoss, Config!Files, Config!Missing, Config!Torn, Config!Contents, Config!Versions
  <2>4. QED BY <2>1, <2>2, <2>3 DEF HomeInv
<1>7. ASSUME NEW f \in Files, Config!CopyDefault(f) PROVE HomeInv' /\ OwnersStep
  <2>1. HomeTypes' BY <1>7 DEF HomeInv, HomeTypes, NewCamera, Config!CopyDefault, Config!Files, Config!Missing, Config!Torn, Config!Contents, Config!Versions
  <2>2. NewCamera' BY <1>7 DEF HomeInv, HomeTypes, NewCamera, Config!CopyDefault, Config!Files, Config!Missing, Config!Torn, Config!Contents, Config!Versions
  <2>3. OwnersStep BY <1>7 DEF HomeInv, HomeTypes, NewCamera, OwnersStep, Config!CopyDefault, Config!Files, Config!Missing, Config!Torn, Config!Contents, Config!Versions
  <2>4. QED BY <2>1, <2>2, <2>3 DEF HomeInv
<1>8. ASSUME NEW f \in Files, Config!Fill(f) PROVE HomeInv' /\ OwnersStep
  <2>1. HomeTypes' BY <1>8 DEF HomeInv, HomeTypes, NewCamera, Config!Fill, Config!Bind, Config!Files, Config!Missing, Config!Torn, Config!Contents, Config!Versions
  <2>2. NewCamera' BY <1>8 DEF HomeInv, HomeTypes, NewCamera, Config!Fill, Config!Bind, Config!Files, Config!Missing, Config!Torn, Config!Contents, Config!Versions
  <2>3. OwnersStep BY <1>8 DEF HomeInv, HomeTypes, NewCamera, OwnersStep, Config!Fill, Config!Bind, Config!Files, Config!Missing, Config!Torn, Config!Contents, Config!Versions
  <2>4. QED BY <2>1, <2>2, <2>3 DEF HomeInv
<1>9. ASSUME NEW f \in Files, Config!SyncCopy(f) PROVE HomeInv' /\ OwnersStep
  <2>1. HomeTypes' BY <1>9 DEF HomeInv, HomeTypes, NewCamera, Config!SyncCopy, Config!Files, Config!Missing, Config!Torn, Config!Contents, Config!Versions
  <2>2. NewCamera' BY <1>9 DEF HomeInv, HomeTypes, NewCamera, Config!SyncCopy, Config!Files, Config!Missing, Config!Torn, Config!Contents, Config!Versions
  <2>3. OwnersStep BY <1>9 DEF HomeInv, HomeTypes, NewCamera, OwnersStep, Config!SyncCopy, Config!Files, Config!Missing, Config!Torn, Config!Contents, Config!Versions
  <2>4. QED BY <2>1, <2>2, <2>3 DEF HomeInv
<1>10. ASSUME NEW f \in Files, Config!SyncRetire(f) PROVE HomeInv' /\ OwnersStep
  <2>1. HomeTypes' BY <1>10 DEF HomeInv, HomeTypes, NewCamera, Config!SyncRetire, Config!Files, Config!Missing, Config!Torn, Config!Contents, Config!Versions
  <2>2. NewCamera' BY <1>10 DEF HomeInv, HomeTypes, NewCamera, Config!SyncRetire, Config!Files, Config!Missing, Config!Torn, Config!Contents, Config!Versions
  <2>3. OwnersStep BY <1>10 DEF HomeInv, HomeTypes, NewCamera, OwnersStep, Config!SyncRetire, Config!Files, Config!Missing, Config!Torn, Config!Contents, Config!Versions
  <2>4. QED BY <2>1, <2>2, <2>3 DEF HomeInv
<1>11. ASSUME NEW f \in Files, Config!Edit(f) PROVE HomeInv' /\ OwnersStep
  <2>1. HomeTypes'
    <3> USE DEF HomeInv, HomeTypes
    <3>1. edits' \in 0..MaxChanges /\ edits' + 1 \in 0..TornFile BY <1>11 DEF Config!Edit, Config!Etc, Config!Files, Config!Missing, Config!Torn, Config!Contents, Config!Versions
    <3>2. card' \in [Files -> 0..TornFile] BY <3>1, <1>11 DEF Config!Edit, Config!Etc, Config!Files, Config!Missing, Config!Torn, Config!Contents, Config!Versions
    <3>3. flash' \in [Files -> 0..TornFile] BY <3>1, <1>11 DEF Config!Edit, Config!Etc, Config!Files, Config!Missing, Config!Torn, Config!Contents, Config!Versions
    <3>4. QED BY <3>1, <3>2, <3>3, <1>11 DEF Config!Edit, Config!Etc, Config!Files, Config!Missing, Config!Torn, Config!Contents, Config!Versions
  <2>2. NewCamera' BY <1>11 DEF HomeInv, HomeTypes, NewCamera, Config!Edit, Config!Etc, Config!Files, Config!Missing, Config!Torn, Config!Contents, Config!Versions
  <2>3. OwnersStep BY <1>11 DEF HomeInv, HomeTypes, NewCamera, OwnersStep, Config!Edit, Config!Etc, Config!Files, Config!Missing, Config!Torn, Config!Contents, Config!Versions
  <2>4. QED BY <2>1, <2>2, <2>3 DEF HomeInv
<1>12. ASSUME NEW f \in Files, Config!FillKilled(f) PROVE HomeInv' /\ OwnersStep
  <2>1. HomeTypes' BY <1>12 DEF HomeInv, HomeTypes, NewCamera, Config!FillKilled, Config!Bind, Config!Files, Config!Missing, Config!Torn, Config!Contents, Config!Versions
  <2>2. NewCamera' BY <1>12 DEF HomeInv, HomeTypes, NewCamera, Config!FillKilled, Config!Bind, Config!Files, Config!Missing, Config!Torn, Config!Contents, Config!Versions
  <2>3. OwnersStep BY <1>12 DEF HomeInv, HomeTypes, NewCamera, OwnersStep, Config!FillKilled, Config!Bind, Config!Files, Config!Missing, Config!Torn, Config!Contents, Config!Versions
  <2>4. QED BY <2>1, <2>2, <2>3 DEF HomeInv
<1>13. QED BY <1>1, <1>2, <1>3, <1>4, <1>5, <1>6, <1>7, <1>8, <1>9, <1>10, <1>11, <1>12 DEF Config!Next, Config!Boot, Config!Syncing, Config!Files

\* The same in one whose starts are cut off.
LEMMA CutHomeKeeps ==
  ASSUME HomeInv, Cut!Next PROVE HomeInv' /\ OwnersStep
<1> USE HomeBounds DEF Files, TornFile, Versions, AllOf
<1>1. CASE Cut!PowerOn
  <2>1. HomeTypes' BY <1>1 DEF HomeInv, HomeTypes, NewCamera, Cut!PowerOn, Cut!Files, Cut!Missing, Cut!Torn, Cut!Contents, Cut!Versions
  <2>2. NewCamera' BY <1>1 DEF HomeInv, HomeTypes, NewCamera, Cut!PowerOn, Cut!Files, Cut!Missing, Cut!Torn, Cut!Contents, Cut!Versions
  <2>3. OwnersStep BY <1>1 DEF HomeInv, HomeTypes, NewCamera, OwnersStep, Cut!PowerOn, Cut!Files, Cut!Missing, Cut!Torn, Cut!Contents, Cut!Versions
  <2>4. QED BY <2>1, <2>2, <2>3 DEF HomeInv
<1>2. CASE Cut!Prepare
  <2>1. HomeTypes' BY <1>2 DEF HomeInv, HomeTypes, NewCamera, Cut!Prepare, Cut!Bind, Cut!Files, Cut!Missing, Cut!Torn, Cut!Contents, Cut!Versions
  <2>2. NewCamera' BY <1>2 DEF HomeInv, HomeTypes, NewCamera, Cut!Prepare, Cut!Bind, Cut!Files, Cut!Missing, Cut!Torn, Cut!Contents, Cut!Versions
  <2>3. OwnersStep BY <1>2 DEF HomeInv, HomeTypes, NewCamera, OwnersStep, Cut!Prepare, Cut!Bind, Cut!Files, Cut!Missing, Cut!Torn, Cut!Contents, Cut!Versions
  <2>4. QED BY <2>1, <2>2, <2>3 DEF HomeInv
<1>3. CASE Cut!SyncStarts
  <2>1. HomeTypes' BY <1>3 DEF HomeInv, HomeTypes, NewCamera, Cut!SyncStarts, Cut!Files, Cut!Missing, Cut!Torn, Cut!Contents, Cut!Versions
  <2>2. NewCamera' BY <1>3 DEF HomeInv, HomeTypes, NewCamera, Cut!SyncStarts, Cut!Files, Cut!Missing, Cut!Torn, Cut!Contents, Cut!Versions
  <2>3. OwnersStep BY <1>3 DEF HomeInv, HomeTypes, NewCamera, OwnersStep, Cut!SyncStarts, Cut!Files, Cut!Missing, Cut!Torn, Cut!Contents, Cut!Versions
  <2>4. QED BY <2>1, <2>2, <2>3 DEF HomeInv
<1>4. CASE Cut!SyncKilled
  <2>1. HomeTypes' BY <1>4 DEF HomeInv, HomeTypes, NewCamera, Cut!SyncKilled, Cut!Files, Cut!Missing, Cut!Torn, Cut!Contents, Cut!Versions
  <2>2. NewCamera' BY <1>4 DEF HomeInv, HomeTypes, NewCamera, Cut!SyncKilled, Cut!Files, Cut!Missing, Cut!Torn, Cut!Contents, Cut!Versions
  <2>3. OwnersStep BY <1>4 DEF HomeInv, HomeTypes, NewCamera, OwnersStep, Cut!SyncKilled, Cut!Files, Cut!Missing, Cut!Torn, Cut!Contents, Cut!Versions
  <2>4. QED BY <2>1, <2>2, <2>3 DEF HomeInv
<1>5. CASE Cut!MoveCard
  <2>1. HomeTypes' BY <1>5 DEF HomeInv, HomeTypes, NewCamera, Cut!MoveCard, Cut!Files, Cut!Missing, Cut!Torn, Cut!Contents, Cut!Versions
  <2>2. NewCamera' BY <1>5 DEF HomeInv, HomeTypes, NewCamera, Cut!MoveCard, Cut!Files, Cut!Missing, Cut!Torn, Cut!Contents, Cut!Versions
  <2>3. OwnersStep BY <1>5 DEF HomeInv, HomeTypes, NewCamera, OwnersStep, Cut!MoveCard, Cut!Files, Cut!Missing, Cut!Torn, Cut!Contents, Cut!Versions
  <2>4. QED BY <2>1, <2>2, <2>3 DEF HomeInv
<1>6. CASE Cut!PowerLoss
  <2>1. HomeTypes'
    <3> USE DEF HomeInv, HomeTypes
    <3>1. TornFile \in 0..TornFile OBVIOUS
    <3>2. ASSUME NEW h \in [Files -> 0..TornFile], NEW g \in Files PROVE [h EXCEPT ![g] = TornFile] \in [Files -> 0..TornFile]
      BY <3>1
    <3>3. card' = card \/ \E g \in Files : card' = [card EXCEPT ![g] = TornFile] BY <1>6 DEF Cut!PowerLoss, Cut!Files, Cut!Missing, Cut!Torn, Cut!Contents, Cut!Versions
    <3>4. flash' = flash \/ \E g \in Files : flash' = [flash EXCEPT ![g] = TornFile] BY <1>6 DEF Cut!PowerLoss, Cut!Files, Cut!Missing, Cut!Torn, Cut!Contents, Cut!Versions
    <3>5. card \in [Files -> 0..TornFile] /\ flash \in [Files -> 0..TornFile] OBVIOUS
    <3>6. card' \in [Files -> 0..TornFile]
      <4>1. CASE card' = card BY <3>5, <4>1
      <4>2. ASSUME NEW g \in Files, card' = [card EXCEPT ![g] = TornFile] PROVE card' \in [Files -> 0..TornFile] BY <3>2, <3>5, <4>2
      <4>3. QED BY <3>3, <4>1, <4>2
    <3>7. flash' \in [Files -> 0..TornFile]
      <4>1. CASE flash' = flash BY <3>5, <4>1
      <4>2. ASSUME NEW g \in Files, flash' = [flash EXCEPT ![g] = TornFile] PROVE flash' \in [Files -> 0..TornFile] BY <3>2, <3>5, <4>2
      <4>3. QED BY <3>4, <4>1, <4>2
    <3>8. QED BY <3>6, <3>7, <1>6 DEF Cut!PowerLoss, Cut!Files, Cut!Missing, Cut!Torn, Cut!Contents, Cut!Versions
  <2>2. NewCamera' BY <1>6 DEF HomeInv, HomeTypes, NewCamera, Cut!PowerLoss, Cut!Files, Cut!Missing, Cut!Torn, Cut!Contents, Cut!Versions
  <2>3. OwnersStep BY <1>6 DEF HomeInv, HomeTypes, NewCamera, OwnersStep, Cut!PowerLoss, Cut!Files, Cut!Missing, Cut!Torn, Cut!Contents, Cut!Versions
  <2>4. QED BY <2>1, <2>2, <2>3 DEF HomeInv
<1>7. ASSUME NEW f \in Files, Cut!CopyDefault(f) PROVE HomeInv' /\ OwnersStep
  <2>1. HomeTypes' BY <1>7 DEF HomeInv, HomeTypes, NewCamera, Cut!CopyDefault, Cut!Files, Cut!Missing, Cut!Torn, Cut!Contents, Cut!Versions
  <2>2. NewCamera' BY <1>7 DEF HomeInv, HomeTypes, NewCamera, Cut!CopyDefault, Cut!Files, Cut!Missing, Cut!Torn, Cut!Contents, Cut!Versions
  <2>3. OwnersStep BY <1>7 DEF HomeInv, HomeTypes, NewCamera, OwnersStep, Cut!CopyDefault, Cut!Files, Cut!Missing, Cut!Torn, Cut!Contents, Cut!Versions
  <2>4. QED BY <2>1, <2>2, <2>3 DEF HomeInv
<1>8. ASSUME NEW f \in Files, Cut!Fill(f) PROVE HomeInv' /\ OwnersStep
  <2>1. HomeTypes' BY <1>8 DEF HomeInv, HomeTypes, NewCamera, Cut!Fill, Cut!Bind, Cut!Files, Cut!Missing, Cut!Torn, Cut!Contents, Cut!Versions
  <2>2. NewCamera' BY <1>8 DEF HomeInv, HomeTypes, NewCamera, Cut!Fill, Cut!Bind, Cut!Files, Cut!Missing, Cut!Torn, Cut!Contents, Cut!Versions
  <2>3. OwnersStep BY <1>8 DEF HomeInv, HomeTypes, NewCamera, OwnersStep, Cut!Fill, Cut!Bind, Cut!Files, Cut!Missing, Cut!Torn, Cut!Contents, Cut!Versions
  <2>4. QED BY <2>1, <2>2, <2>3 DEF HomeInv
<1>9. ASSUME NEW f \in Files, Cut!SyncCopy(f) PROVE HomeInv' /\ OwnersStep
  <2>1. HomeTypes' BY <1>9 DEF HomeInv, HomeTypes, NewCamera, Cut!SyncCopy, Cut!Files, Cut!Missing, Cut!Torn, Cut!Contents, Cut!Versions
  <2>2. NewCamera' BY <1>9 DEF HomeInv, HomeTypes, NewCamera, Cut!SyncCopy, Cut!Files, Cut!Missing, Cut!Torn, Cut!Contents, Cut!Versions
  <2>3. OwnersStep BY <1>9 DEF HomeInv, HomeTypes, NewCamera, OwnersStep, Cut!SyncCopy, Cut!Files, Cut!Missing, Cut!Torn, Cut!Contents, Cut!Versions
  <2>4. QED BY <2>1, <2>2, <2>3 DEF HomeInv
<1>10. ASSUME NEW f \in Files, Cut!SyncRetire(f) PROVE HomeInv' /\ OwnersStep
  <2>1. HomeTypes' BY <1>10 DEF HomeInv, HomeTypes, NewCamera, Cut!SyncRetire, Cut!Files, Cut!Missing, Cut!Torn, Cut!Contents, Cut!Versions
  <2>2. NewCamera' BY <1>10 DEF HomeInv, HomeTypes, NewCamera, Cut!SyncRetire, Cut!Files, Cut!Missing, Cut!Torn, Cut!Contents, Cut!Versions
  <2>3. OwnersStep BY <1>10 DEF HomeInv, HomeTypes, NewCamera, OwnersStep, Cut!SyncRetire, Cut!Files, Cut!Missing, Cut!Torn, Cut!Contents, Cut!Versions
  <2>4. QED BY <2>1, <2>2, <2>3 DEF HomeInv
<1>11. ASSUME NEW f \in Files, Cut!Edit(f) PROVE HomeInv' /\ OwnersStep
  <2>1. HomeTypes'
    <3> USE DEF HomeInv, HomeTypes
    <3>1. edits' \in 0..MaxChanges /\ edits' + 1 \in 0..TornFile BY <1>11 DEF Cut!Edit, Cut!Etc, Cut!Files, Cut!Missing, Cut!Torn, Cut!Contents, Cut!Versions
    <3>2. card' \in [Files -> 0..TornFile] BY <3>1, <1>11 DEF Cut!Edit, Cut!Etc, Cut!Files, Cut!Missing, Cut!Torn, Cut!Contents, Cut!Versions
    <3>3. flash' \in [Files -> 0..TornFile] BY <3>1, <1>11 DEF Cut!Edit, Cut!Etc, Cut!Files, Cut!Missing, Cut!Torn, Cut!Contents, Cut!Versions
    <3>4. QED BY <3>1, <3>2, <3>3, <1>11 DEF Cut!Edit, Cut!Etc, Cut!Files, Cut!Missing, Cut!Torn, Cut!Contents, Cut!Versions
  <2>2. NewCamera' BY <1>11 DEF HomeInv, HomeTypes, NewCamera, Cut!Edit, Cut!Etc, Cut!Files, Cut!Missing, Cut!Torn, Cut!Contents, Cut!Versions
  <2>3. OwnersStep BY <1>11 DEF HomeInv, HomeTypes, NewCamera, OwnersStep, Cut!Edit, Cut!Etc, Cut!Files, Cut!Missing, Cut!Torn, Cut!Contents, Cut!Versions
  <2>4. QED BY <2>1, <2>2, <2>3 DEF HomeInv
<1>12. ASSUME NEW f \in Files, Cut!FillKilled(f) PROVE HomeInv' /\ OwnersStep
  <2>1. HomeTypes'
    <3> USE DEF HomeInv, HomeTypes
    <3>1. TornFile \in 0..TornFile OBVIOUS
    <3>2. ASSUME NEW h \in [Files -> 0..TornFile], NEW g \in Files PROVE [h EXCEPT ![g] = TornFile] \in [Files -> 0..TornFile]
      BY <3>1
    <3>3. card' = card \/ card' = [card EXCEPT ![f] = TornFile] BY <1>12 DEF Cut!FillKilled, Cut!Bind, Cut!Files, Cut!Missing, Cut!Torn, Cut!Contents, Cut!Versions
    <3>4. flash' = flash BY <1>12 DEF Cut!FillKilled, Cut!Bind, Cut!Files, Cut!Missing, Cut!Torn, Cut!Contents, Cut!Versions
    <3>5. card \in [Files -> 0..TornFile] /\ flash \in [Files -> 0..TornFile] OBVIOUS
    <3>6. card' \in [Files -> 0..TornFile]
      <4>1. CASE card' = card BY <3>5, <4>1
      <4>2. CASE card' = [card EXCEPT ![f] = TornFile] BY <3>2, <3>5, <4>2
      <4>3. QED BY <3>3, <4>1, <4>2
    <3>7. flash' \in [Files -> 0..TornFile] BY <3>4, <3>5
    <3>8. QED BY <3>6, <3>7, <1>12 DEF Cut!FillKilled, Cut!Bind, Cut!Files, Cut!Missing, Cut!Torn, Cut!Contents, Cut!Versions
  <2>2. NewCamera' BY <1>12 DEF HomeInv, HomeTypes, NewCamera, Cut!FillKilled, Cut!Bind, Cut!Files, Cut!Missing, Cut!Torn, Cut!Contents, Cut!Versions
  <2>3. OwnersStep BY <1>12 DEF HomeInv, HomeTypes, NewCamera, OwnersStep, Cut!FillKilled, Cut!Bind, Cut!Files, Cut!Missing, Cut!Torn, Cut!Contents, Cut!Versions
  <2>4. QED BY <2>1, <2>2, <2>3 DEF HomeInv
<1>13. QED BY <1>1, <1>2, <1>3, <1>4, <1>5, <1>6, <1>7, <1>8, <1>9, <1>10, <1>11, <1>12 DEF Cut!Next, Cut!Boot, Cut!Syncing, Cut!Files

\* Each home stays empty or whole.
LEMMA WholeKeeps ==
  ASSUME HomeInv, WholeHomes, Config!Next PROVE WholeHomes'
<1> USE HomeBounds DEF Files, TornFile, Versions, AllOf
<1>1. CASE Config!PowerOn
  <2>1. WholeHomes' BY <1>1 DEF HomeInv, HomeTypes, NewCamera, WholeHomes, Config!PowerOn, Config!Files, Config!Missing, Config!Torn, Config!Contents, Config!Versions
  <2>2. QED BY <2>1 DEF WholeHomes
<1>2. CASE Config!Prepare
  <2>1. WholeHomes' BY <1>2 DEF HomeInv, HomeTypes, NewCamera, WholeHomes, Config!Prepare, Config!Bind, Config!Files, Config!Missing, Config!Torn, Config!Contents, Config!Versions
  <2>2. QED BY <2>1 DEF WholeHomes
<1>3. CASE Config!SyncStarts
  <2>1. WholeHomes' BY <1>3 DEF HomeInv, HomeTypes, NewCamera, WholeHomes, Config!SyncStarts, Config!Files, Config!Missing, Config!Torn, Config!Contents, Config!Versions
  <2>2. QED BY <2>1 DEF WholeHomes
<1>4. CASE Config!SyncKilled
  <2>1. WholeHomes' BY <1>4 DEF HomeInv, HomeTypes, NewCamera, WholeHomes, Config!SyncKilled, Config!Files, Config!Missing, Config!Torn, Config!Contents, Config!Versions
  <2>2. QED BY <2>1 DEF WholeHomes
<1>5. CASE Config!MoveCard
  <2>1. WholeHomes' BY <1>5 DEF HomeInv, HomeTypes, NewCamera, WholeHomes, Config!MoveCard, Config!Files, Config!Missing, Config!Torn, Config!Contents, Config!Versions
  <2>2. QED BY <2>1 DEF WholeHomes
<1>6. CASE Config!PowerLoss
  <2>1. WholeHomes' BY <1>6 DEF HomeInv, HomeTypes, NewCamera, WholeHomes, Config!PowerLoss, Config!Files, Config!Missing, Config!Torn, Config!Contents, Config!Versions
  <2>2. QED BY <2>1 DEF WholeHomes
<1>7. ASSUME NEW f \in Files, Config!CopyDefault(f) PROVE WholeHomes'
  <2>1. WholeHomes' BY <1>7 DEF HomeInv, HomeTypes, NewCamera, WholeHomes, Config!CopyDefault, Config!Files, Config!Missing, Config!Torn, Config!Contents, Config!Versions
  <2>2. QED BY <2>1 DEF WholeHomes
<1>8. ASSUME NEW f \in Files, Config!Fill(f) PROVE WholeHomes'
  <2>1. WholeHomes' BY <1>8 DEF HomeInv, HomeTypes, NewCamera, WholeHomes, Config!Fill, Config!Bind, Config!Files, Config!Missing, Config!Torn, Config!Contents, Config!Versions
  <2>2. QED BY <2>1 DEF WholeHomes
<1>9. ASSUME NEW f \in Files, Config!SyncCopy(f) PROVE WholeHomes'
  <2>1. WholeHomes' BY <1>9 DEF HomeInv, HomeTypes, NewCamera, WholeHomes, Config!SyncCopy, Config!Files, Config!Missing, Config!Torn, Config!Contents, Config!Versions
  <2>2. QED BY <2>1 DEF WholeHomes
<1>10. ASSUME NEW f \in Files, Config!SyncRetire(f) PROVE WholeHomes'
  <2>1. WholeHomes' BY <1>10 DEF HomeInv, HomeTypes, NewCamera, WholeHomes, Config!SyncRetire, Config!Files, Config!Missing, Config!Torn, Config!Contents, Config!Versions
  <2>2. QED BY <2>1 DEF WholeHomes
<1>11. ASSUME NEW f \in Files, Config!Edit(f) PROVE WholeHomes'
  <2>1. WholeHomes' BY <1>11 DEF HomeInv, HomeTypes, NewCamera, WholeHomes, Config!Edit, Config!Etc, Config!Files, Config!Missing, Config!Torn, Config!Contents, Config!Versions
  <2>2. QED BY <2>1 DEF WholeHomes
<1>12. ASSUME NEW f \in Files, Config!FillKilled(f) PROVE WholeHomes'
  <2>1. WholeHomes' BY <1>12 DEF HomeInv, HomeTypes, NewCamera, WholeHomes, Config!FillKilled, Config!Bind, Config!Files, Config!Missing, Config!Torn, Config!Contents, Config!Versions
  <2>2. QED BY <2>1 DEF WholeHomes
<1>13. QED BY <1>1, <1>2, <1>3, <1>4, <1>5, <1>6, <1>7, <1>8, <1>9, <1>10, <1>11, <1>12 DEF Config!Next, Config!Boot, Config!Syncing, Config!Files

\* And no step takes a version of the owner in the flash for less than a version.
LEMMA OwnersGiveWay ==
  ASSUME HomeInv, WholeHomes, Config!Next PROVE Config!GivesWayToWhole
<1> USE HomeBounds DEF Files, TornFile, Versions, AllOf
<1>1. WholeHomes' BY WholeKeeps
<1>2. CASE Config!PowerOn \/ Config!Prepare \/ Config!SyncStarts \/ Config!SyncKilled \/ Config!MoveCard
  <2>1. UNCHANGED flash
    BY <1>2 DEF Config!PowerOn, Config!Prepare, Config!SyncStarts, Config!SyncKilled, Config!MoveCard
  <2>2. QED BY <2>1 DEF Config!GivesWayToWhole, Config!Replaced
<1>3. CASE Config!PowerLoss
  <2>1. flash' \in {flash} BY <1>3 DEF Config!PowerLoss
  <2>2. QED BY <2>1 DEF Config!GivesWayToWhole, Config!Replaced
<1>4. ASSUME NEW f \in Files, Config!CopyDefault(f) PROVE Config!GivesWayToWhole
  <2>1. AllOf(flash, {0, 1, TornFile}) BY <1>4 DEF HomeInv, NewCamera, Config!CopyDefault
  <2>2. TornFile \notin Versions OBVIOUS
  <2>3. QED BY <2>1, <2>2 DEF Config!GivesWayToWhole, Config!Replaced, Config!Files, Config!Versions
<1>5. ASSUME NEW f \in Files, Config!Fill(f) \/ Config!FillKilled(f) PROVE Config!GivesWayToWhole
  <2>1. UNCHANGED flash BY <1>5 DEF Config!Fill, Config!FillKilled
  <2>2. QED BY <2>1 DEF Config!GivesWayToWhole, Config!Replaced
<1>6. ASSUME NEW f \in Files, Config!SyncCopy(f) \/ Config!SyncRetire(f) \/ Config!Edit(f)
      PROVE  Config!GivesWayToWhole
  <2>1. boot = "run" /\ boot' = boot
    BY <1>6 DEF Config!SyncCopy, Config!SyncRetire, Config!Edit, HomeInv, NewCamera
  <2>2. AllOf(flash', Versions) BY <1>1, <2>1 DEF WholeHomes
  <2>3. QED BY <2>2 DEF Config!GivesWayToWhole, Config!Files, Config!Versions
<1>7. QED BY <1>2, <1>3, <1>4, <1>5, <1>6 DEF Config!Next, Config!Boot, Config!Syncing, Config!Files

HomesInv == HomeInv /\ (part = "config" => WholeHomes)

\* A camera that never ran, or one with its defaults, and no settings on the card.
LEMMA HomesStart == Init => HomesInv
<1> SUFFICES ASSUME Init PROVE HomesInv OBVIOUS
<1> USE HomeBounds DEF Files, TornFile, Versions, AllOf
<1>1. /\ card = [f \in Files |-> 0]
      /\ \E new \in BOOLEAN : flash = [f \in Files |-> IF new THEN 0 ELSE 1]
      /\ boot = "off" /\ source = "flash" /\ sync = "idle" /\ todo = {} /\ edits = 0
  BY DEF Init, Config!Init, Cut!Init, Config!Files, Cut!Files, Config!Missing, Cut!Missing
<1>2. flash = [f \in Files |-> 0] \/ flash = [f \in Files |-> 1] BY <1>1
<1>3. HomeTypes BY <1>1, <1>2 DEF HomeTypes
<1>4. NewCamera BY <1>1, <1>2 DEF NewCamera
<1>5. WholeHomes BY <1>1, <1>2 DEF WholeHomes
<1>6. QED BY <1>3, <1>4, <1>5 DEF HomesInv, HomeInv

\* The parts that interrupt the starts and that do not, and the ones that do
\* not touch the configuration.
LEMMA HomesStep ==
  ASSUME HomesInv, [Next]_vars
  PROVE  HomesInv' /\ (OwnersStep \/ UNCHANGED Cut!vars)
<1>1. CASE UNCHANGED config
  <2>1. UNCHANGED <<cardIn, card, flash, boot, source, sync, todo, edits, faults>> BY <1>1 DEF config
  <2>2. HomeInv' BY <2>1 DEF HomesInv, HomeInv, HomeTypes, NewCamera, AllOf
  <2>3. part' = part BY DEF Next, vars
  <2>4. WholeHomes' = WholeHomes BY <2>1 DEF WholeHomes, AllOf
  <2>5. UNCHANGED Cut!vars BY <2>1 DEF Cut!vars
  <2>6. QED BY <2>2, <2>3, <2>4, <2>5 DEF HomesInv
<1>2. CASE part = "config" /\ Config!Next
  <2>1. HomeInv' /\ OwnersStep BY <1>2, ConfigHomeKeeps DEF HomesInv
  <2>2. WholeHomes' BY <1>2, WholeKeeps DEF HomesInv
  <2>3. QED BY <2>1, <2>2 DEF HomesInv
<1>3. CASE part = "cut" /\ Cut!Next
  <2>1. HomeInv' /\ OwnersStep BY <1>3, CutHomeKeeps DEF HomesInv
  <2>2. part' # "config" BY <1>3 DEF Next, vars
  <2>3. QED BY <2>1, <2>2 DEF HomesInv
<1>4. QED BY <1>1, <1>2, <1>3 DEF Next, vars

(* After starts that were not cut off, the configuration in use is whole,  *)
(* and the fallback in the flash never holds a part of a file, whatever    *)
(* interrupts the copies between the card and the flash (flash_storage.sh: *)
(* 48; flash_config_sync.sh).                                              *)
LEMMA SettingsAreWhole == Spec => []Whole
<1>1. Init => HomesInv BY HomesStart
<1>2. HomesInv /\ [Next]_vars => HomesInv' BY HomesStep
<1>3. HomesInv => Whole
  <2>1. SUFFICES ASSUME HomesInv, part = "config", boot = "run"
                 PROVE  /\ \A f \in Files : Config!Etc[f] \in Versions
                        /\ \A f \in Files : flash[f] # TornFile
    BY DEF Whole, Config!UsedIsWhole, Config!FallbackWhole, Config!Configured, Files, TornFile, Versions,
           Config!Files, Config!Versions, Config!Torn
  <2>2. AllOf(flash, Versions) /\ (source = "sd" => AllOf(card, Versions))
    BY <2>1 DEF HomesInv, WholeHomes
  <2>3. TornFile \notin Versions BY HomeBounds DEF TornFile, Versions
  <2>4. QED BY <2>2, <2>3 DEF AllOf, Config!Etc
<1>4. QED BY <1>1, <1>2, <1>3, PTL DEF Spec

(* While starts are not cut off, a setting that the owner changed gives    *)
(* way in the flash only to a whole version, whatever kills or interrupts  *)
(* the copies (flash_config_sync.sh).                                      *)
LEMMA OwnersSettingsStayWhole == Spec => [][part = "config" => Config!GivesWayToWhole]_vars
<1>1. Init => HomesInv BY HomesStart
<1>2. HomesInv /\ [Next]_vars => HomesInv' BY HomesStep
<1>3. HomesInv /\ [Next]_vars => [part = "config" => Config!GivesWayToWhole]_vars
  <2>1. SUFFICES ASSUME HomesInv, Next, part = "config" PROVE Config!GivesWayToWhole OBVIOUS
  <2>2. CASE UNCHANGED config
    BY <2>2 DEF config, Config!GivesWayToWhole, Config!Replaced
  <2>3. CASE Config!Next BY <2>1, <2>3, OwnersGiveWay DEF HomesInv
  <2>4. QED BY <2>1, <2>2, <2>3 DEF Next
<1>4. QED BY <1>1, <1>2, <1>3, PTL DEF Spec

(* A setting that the owner changed gives way in the flash only to what    *)
(* the card holds or to a newer edit, never to the defaults of the image,  *)
(* whatever start is cut off (flash_storage.sh:35-37).                     *)
LEMMA OwnersSettingsStay == Spec => Cut!NoSilentDefaults
<1>1. Init => HomesInv BY HomesStart
<1>2. HomesInv /\ [Next]_vars => HomesInv' BY HomesStep
<1>3. HomesInv /\ [Next]_vars =>
        [\A f \in Cut!Files : Cut!Replaced(f) =>
             (flash'[f] = card[f] \/ flash'[f] = edits' + 1)]_(Cut!vars)
  BY HomesStep DEF OwnersStep, Files, Versions, Cut!Replaced, Cut!Files, Cut!Versions
<1>4. QED BY <1>1, <1>2, <1>3, PTL DEF Spec, Cut!NoSilentDefaults

(* With starts that are not cut off, the configuration in use and its      *)
(* fallback are whole, and a setting of the owner gives way only to a      *)
(* whole version, whatever interrupts the copies; and no start, cut off or *)
(* not, brings the defaults back over it.                                  *)
THEOREM SettingsAreKept == Spec => SettingsKept
BY SettingsAreWhole, OwnersSettingsStayWhole, OwnersSettingsStay, PTL DEF SettingsKept

-----------------------------------------------------------------------------
(* The Wi-Fi credentials.                                                  *)

FieldOf == [value : Credentials \cup {0}, cut : BOOLEAN]
PartitionOf == [ssid : FieldOf, key : FieldOf, clear : BOOLEAN]
Held(p) == [value |-> p, cut |-> FALSE]
Full(p) == [ssid |-> Held(p), key |-> Held(p), clear |-> TRUE]
IsWhole(m) == \E p \in Credentials : m = Full(p)

WifiTypes ==
    /\ mtd \in PartitionOf
    /\ system \in {"hotspot", "router"}
    /\ cfg \in {"none", "there", "applied", "rejected"} /\ asked \in Credentials \cup {0}
    /\ step \in {"idle", "stage", "compare", "backup", "zeroSsid", "zeroKey", "ssid", "key", "flag",
                 "verify", "settings", "fail", "ok"}
    /\ want \in Credentials \cup {0} /\ power \in {"off", "boot", "up"}

\* What configure_wifi.sh has in the partition at each step: a copy on the card
\* before the first write, a field that is not whole while there are writes to
\* come, and the credentials before the settings ask for the router.
WifiSteps ==
    /\ step \in {"compare", "backup", "zeroSsid", "zeroKey", "ssid", "key", "flag", "verify"} => want # 0
    /\ step = "zeroSsid" => mtd \in backups
    /\ step \in {"zeroKey", "ssid"} => mtd.ssid = Held(0)
    /\ step \in {"key", "flag"} => mtd.ssid = Held(want)
    /\ step \in {"ssid", "key"} => mtd.key = Held(0)
    /\ step = "flag" => mtd.key = Held(want)
    /\ step = "settings" /\ want # 0 => mtd = Full(want)

WifiInv == WifiTypes /\ WifiSteps

\* With power cuts only, a request on the card stays until it is served, and no
\* network starts before.
Served ==
    /\ power = "off" => step = "idle"
    /\ step # "idle" => power = "boot" /\ cfg = "there"
    /\ power # "off" /\ step = "idle" => cfg # "there"
    /\ step = "verify" => mtd = Full(want)
    /\ step # "fail"
    /\ step = "ok" => IF want = 0 THEN system = "hotspot" ELSE mtd = Full(want)
    /\ cfg # "there" => system = "hotspot" \/ mtd.key = Held(0) \/ IsWhole(mtd)

\* What CredentialsSaved and RouterHasCredentials say of a step.
SavedStep == IsWhole(mtd) /\ ~IsWhole(mtd') => mtd \in backups'
RouterStep == system = "hotspot" /\ system' = "router" => IsWhole(mtd')

\* What the writes of a field leave, and the ones that are cut off.
LEMMA FieldWrites ==
  ASSUME NEW m \in PartitionOf, NEW v \in Credentials \cup {0}
  PROVE  /\ [m EXCEPT !.ssid = Held(v)] \in PartitionOf
         /\ [m EXCEPT !.key = Held(v)] \in PartitionOf
         /\ [m EXCEPT !.clear = TRUE] \in PartitionOf
         /\ [m EXCEPT !.ssid.cut = TRUE] \in PartitionOf
         /\ [m EXCEPT !.key.cut = TRUE] \in PartitionOf
<1>1. Held(v) \in FieldOf BY DEF Held, FieldOf
<1>2. m.ssid \in FieldOf /\ m.key \in FieldOf /\ m.clear \in BOOLEAN BY DEF PartitionOf
<1>3. [m.ssid EXCEPT !.cut = TRUE] \in FieldOf BY <1>2 DEF FieldOf
<1>4. [m.key EXCEPT !.cut = TRUE] \in FieldOf BY <1>2 DEF FieldOf
<1> HIDE DEF FieldOf, Held
<1>5. [m EXCEPT !.ssid = Held(v)] \in PartitionOf BY <1>1 DEF PartitionOf
<1>6. [m EXCEPT !.key = Held(v)] \in PartitionOf BY <1>1 DEF PartitionOf
<1>7. [m EXCEPT !.clear = TRUE] \in PartitionOf BY DEF PartitionOf
<1>8. [m EXCEPT !.ssid.cut = TRUE] \in PartitionOf BY <1>3 DEF PartitionOf
<1>9. [m EXCEPT !.key.cut = TRUE] \in PartitionOf BY <1>4 DEF PartitionOf
<1>10. QED BY <1>5, <1>6, <1>7, <1>8, <1>9

LEMMA WifiBounds == 0 \notin Credentials /\ 1 \in Credentials
BY WifiConstants DEF FromCard!ProvisionAssumption

\* The invariant is inductive under power cuts, and no step gives up unsaved credentials.
LEMMA FromCardKeeps ==
  ASSUME WifiInv, FromCard!Next PROVE WifiInv' /\ SavedStep /\ RouterStep
<1> USE WifiBounds DEF Held, Full, IsWhole
<1>1. CASE FromCard!PowerOn
  <2>1. WifiTypes' BY <1>1 DEF WifiInv, WifiTypes, WifiSteps, PartitionOf, FromCard!PowerOn, FromCard!Holds, FromCard!Stored, FromCard!Blank
  <2>2. WifiSteps' BY <1>1 DEF WifiInv, WifiTypes, WifiSteps, PartitionOf, FromCard!PowerOn, FromCard!Holds, FromCard!Stored, FromCard!Blank
  <2>3. SavedStep BY <1>1 DEF WifiInv, WifiTypes, WifiSteps, PartitionOf, SavedStep, FromCard!PowerOn, FromCard!Holds, FromCard!Stored, FromCard!Blank
  <2>4. RouterStep BY <1>1 DEF WifiInv, WifiTypes, WifiSteps, PartitionOf, RouterStep, FromCard!PowerOn, FromCard!Holds, FromCard!Stored, FromCard!Blank
  <2>5. QED BY <2>1, <2>2, <2>3, <2>4 DEF WifiInv
<1>2. CASE FromCard!Stage
  <2>1. WifiTypes' BY <1>2 DEF WifiInv, WifiTypes, WifiSteps, PartitionOf, FromCard!Stage, FromCard!Go, FromCard!Holds, FromCard!Stored, FromCard!Blank
  <2>2. WifiSteps' BY <1>2 DEF WifiInv, WifiTypes, WifiSteps, PartitionOf, FromCard!Stage, FromCard!Go, FromCard!Holds, FromCard!Stored, FromCard!Blank
  <2>3. SavedStep BY <1>2 DEF WifiInv, WifiTypes, WifiSteps, PartitionOf, SavedStep, FromCard!Stage, FromCard!Go, FromCard!Holds, FromCard!Stored, FromCard!Blank
  <2>4. RouterStep BY <1>2 DEF WifiInv, WifiTypes, WifiSteps, PartitionOf, RouterStep, FromCard!Stage, FromCard!Go, FromCard!Holds, FromCard!Stored, FromCard!Blank
  <2>5. QED BY <2>1, <2>2, <2>3, <2>4 DEF WifiInv
<1>3. CASE FromCard!Compare
  <2>1. WifiTypes' BY <1>3 DEF WifiInv, WifiTypes, WifiSteps, PartitionOf, FromCard!Compare, FromCard!Go, FromCard!Holds, FromCard!Stored, FromCard!Blank
  <2>2. WifiSteps' BY <1>3 DEF WifiInv, WifiTypes, WifiSteps, PartitionOf, FromCard!Compare, FromCard!Go, FromCard!Holds, FromCard!Stored, FromCard!Blank
  <2>3. SavedStep BY <1>3 DEF WifiInv, WifiTypes, WifiSteps, PartitionOf, SavedStep, FromCard!Compare, FromCard!Go, FromCard!Holds, FromCard!Stored, FromCard!Blank
  <2>4. RouterStep BY <1>3 DEF WifiInv, WifiTypes, WifiSteps, PartitionOf, RouterStep, FromCard!Compare, FromCard!Go, FromCard!Holds, FromCard!Stored, FromCard!Blank
  <2>5. QED BY <2>1, <2>2, <2>3, <2>4 DEF WifiInv
<1>4. CASE FromCard!Backup
  <2>1. WifiTypes' BY <1>4 DEF WifiInv, WifiTypes, WifiSteps, PartitionOf, FromCard!Backup, FromCard!Go, FromCard!Holds, FromCard!Stored, FromCard!Blank
  <2>2. WifiSteps' BY <1>4 DEF WifiInv, WifiTypes, WifiSteps, PartitionOf, FromCard!Backup, FromCard!Go, FromCard!Holds, FromCard!Stored, FromCard!Blank
  <2>3. SavedStep BY <1>4 DEF WifiInv, WifiTypes, WifiSteps, PartitionOf, SavedStep, FromCard!Backup, FromCard!Go, FromCard!Holds, FromCard!Stored, FromCard!Blank
  <2>4. RouterStep BY <1>4 DEF WifiInv, WifiTypes, WifiSteps, PartitionOf, RouterStep, FromCard!Backup, FromCard!Go, FromCard!Holds, FromCard!Stored, FromCard!Blank
  <2>5. QED BY <2>1, <2>2, <2>3, <2>4 DEF WifiInv
<1>5. CASE FromCard!Zero
  <2>1. WifiTypes'
    <3>1. mtd \in PartitionOf /\ want \in Credentials \cup {0} BY DEF WifiInv, WifiTypes
    <3>2. mtd' \in PartitionOf
      BY <1>5, <3>1, FieldWrites DEF FromCard!Zero, FromCard!Go, FromCard!Holds, FromCard!Stored, FromCard!Blank
    <3>3. QED BY <1>5, <3>2 DEF WifiInv, WifiTypes, FromCard!Zero, FromCard!Go, FromCard!Holds, FromCard!Stored, FromCard!Blank
  <2>2. WifiSteps' BY <1>5 DEF WifiInv, WifiTypes, WifiSteps, PartitionOf, FromCard!Zero, FromCard!Go, FromCard!Holds, FromCard!Stored, FromCard!Blank
  <2>3. SavedStep BY <1>5 DEF WifiInv, WifiTypes, WifiSteps, PartitionOf, SavedStep, FromCard!Zero, FromCard!Go, FromCard!Holds, FromCard!Stored, FromCard!Blank
  <2>4. RouterStep BY <1>5 DEF WifiInv, WifiTypes, WifiSteps, PartitionOf, RouterStep, FromCard!Zero, FromCard!Go, FromCard!Holds, FromCard!Stored, FromCard!Blank
  <2>5. QED BY <2>1, <2>2, <2>3, <2>4 DEF WifiInv
<1>6. CASE FromCard!Write
  <2>1. WifiTypes'
    <3>1. mtd \in PartitionOf /\ want \in Credentials \cup {0} BY DEF WifiInv, WifiTypes
    <3>2. mtd' \in PartitionOf
      BY <1>6, <3>1, FieldWrites DEF FromCard!Write, FromCard!Go, FromCard!Holds, FromCard!Stored, FromCard!Blank
    <3>3. QED BY <1>6, <3>2 DEF WifiInv, WifiTypes, FromCard!Write, FromCard!Go, FromCard!Holds, FromCard!Stored, FromCard!Blank
  <2>2. WifiSteps'
    <3>1. mtd \in PartitionOf BY DEF WifiInv, WifiTypes
    <3>2. CASE step = "ssid" BY <1>6, <3>1, <3>2 DEF PartitionOf, FieldOf, WifiInv, WifiTypes, WifiSteps, PartitionOf, FromCard!Write, FromCard!Go, FromCard!Holds, FromCard!Stored, FromCard!Blank
    <3>3. CASE step = "key" BY <1>6, <3>1, <3>3 DEF PartitionOf, FieldOf, WifiInv, WifiTypes, WifiSteps, PartitionOf, FromCard!Write, FromCard!Go, FromCard!Holds, FromCard!Stored, FromCard!Blank
    <3>4. CASE step = "flag" BY <1>6, <3>1, <3>4 DEF PartitionOf, FieldOf, WifiInv, WifiTypes, WifiSteps, PartitionOf, FromCard!Write, FromCard!Go, FromCard!Holds, FromCard!Stored, FromCard!Blank
    <3>5. QED BY <1>6, <3>2, <3>3, <3>4 DEF FromCard!Write
  <2>3. SavedStep BY <1>6 DEF WifiInv, WifiTypes, WifiSteps, PartitionOf, SavedStep, FromCard!Write, FromCard!Go, FromCard!Holds, FromCard!Stored, FromCard!Blank
  <2>4. RouterStep BY <1>6 DEF WifiInv, WifiTypes, WifiSteps, PartitionOf, RouterStep, FromCard!Write, FromCard!Go, FromCard!Holds, FromCard!Stored, FromCard!Blank
  <2>5. QED BY <2>1, <2>2, <2>3, <2>4 DEF WifiInv
<1>7. CASE FromCard!Verify
  <2>1. WifiTypes' BY <1>7 DEF WifiInv, WifiTypes, WifiSteps, PartitionOf, FromCard!Verify, FromCard!Go, FromCard!Holds, FromCard!Stored, FromCard!Blank
  <2>2. WifiSteps' BY <1>7 DEF WifiInv, WifiTypes, WifiSteps, PartitionOf, FromCard!Verify, FromCard!Go, FromCard!Holds, FromCard!Stored, FromCard!Blank
  <2>3. SavedStep BY <1>7 DEF WifiInv, WifiTypes, WifiSteps, PartitionOf, SavedStep, FromCard!Verify, FromCard!Go, FromCard!Holds, FromCard!Stored, FromCard!Blank
  <2>4. RouterStep BY <1>7 DEF WifiInv, WifiTypes, WifiSteps, PartitionOf, RouterStep, FromCard!Verify, FromCard!Go, FromCard!Holds, FromCard!Stored, FromCard!Blank
  <2>5. QED BY <2>1, <2>2, <2>3, <2>4 DEF WifiInv
<1>8. CASE FromCard!InstallSettings
  <2>1. WifiTypes' BY <1>8 DEF WifiInv, WifiTypes, WifiSteps, PartitionOf, FromCard!InstallSettings, FromCard!Go, FromCard!Holds, FromCard!Stored, FromCard!Blank
  <2>2. WifiSteps' BY <1>8 DEF WifiInv, WifiTypes, WifiSteps, PartitionOf, FromCard!InstallSettings, FromCard!Go, FromCard!Holds, FromCard!Stored, FromCard!Blank
  <2>3. SavedStep BY <1>8 DEF WifiInv, WifiTypes, WifiSteps, PartitionOf, SavedStep, FromCard!InstallSettings, FromCard!Go, FromCard!Holds, FromCard!Stored, FromCard!Blank
  <2>4. RouterStep BY <1>8 DEF WifiInv, WifiTypes, WifiSteps, PartitionOf, RouterStep, FromCard!InstallSettings, FromCard!Go, FromCard!Holds, FromCard!Stored, FromCard!Blank
  <2>5. QED BY <2>1, <2>2, <2>3, <2>4 DEF WifiInv
<1>9. CASE FromCard!End
  <2>1. WifiTypes' BY <1>9 DEF WifiInv, WifiTypes, WifiSteps, PartitionOf, FromCard!End, FromCard!Go, FromCard!Holds, FromCard!Stored, FromCard!Blank
  <2>2. WifiSteps' BY <1>9 DEF WifiInv, WifiTypes, WifiSteps, PartitionOf, FromCard!End, FromCard!Go, FromCard!Holds, FromCard!Stored, FromCard!Blank
  <2>3. SavedStep BY <1>9 DEF WifiInv, WifiTypes, WifiSteps, PartitionOf, SavedStep, FromCard!End, FromCard!Go, FromCard!Holds, FromCard!Stored, FromCard!Blank
  <2>4. RouterStep BY <1>9 DEF WifiInv, WifiTypes, WifiSteps, PartitionOf, RouterStep, FromCard!End, FromCard!Go, FromCard!Holds, FromCard!Stored, FromCard!Blank
  <2>5. QED BY <2>1, <2>2, <2>3, <2>4 DEF WifiInv
<1>10. CASE FromCard!NetworkStarts
  <2>1. WifiTypes' BY <1>10 DEF WifiInv, WifiTypes, WifiSteps, PartitionOf, FromCard!NetworkStarts, FromCard!Holds, FromCard!Stored, FromCard!Blank
  <2>2. WifiSteps' BY <1>10 DEF WifiInv, WifiTypes, WifiSteps, PartitionOf, FromCard!NetworkStarts, FromCard!Holds, FromCard!Stored, FromCard!Blank
  <2>3. SavedStep BY <1>10 DEF WifiInv, WifiTypes, WifiSteps, PartitionOf, SavedStep, FromCard!NetworkStarts, FromCard!Holds, FromCard!Stored, FromCard!Blank
  <2>4. RouterStep BY <1>10 DEF WifiInv, WifiTypes, WifiSteps, PartitionOf, RouterStep, FromCard!NetworkStarts, FromCard!Holds, FromCard!Stored, FromCard!Blank
  <2>5. QED BY <2>1, <2>2, <2>3, <2>4 DEF WifiInv
<1>11. CASE FromCard!StepFails
  <2>1. WifiTypes'
    <3>1. mtd \in PartitionOf /\ want \in Credentials \cup {0} BY DEF WifiInv, WifiTypes
    <3>2. mtd' \in PartitionOf
      BY <1>11, <3>1, FieldWrites DEF FromCard!StepFails, FromCard!Interrupted, FromCard!Fault, FromCard!Go, FromCard!Holds, FromCard!Stored, FromCard!Blank
    <3>3. QED BY <1>11, <3>2 DEF WifiInv, WifiTypes, FromCard!StepFails, FromCard!Interrupted, FromCard!Fault, FromCard!Go, FromCard!Holds, FromCard!Stored, FromCard!Blank
  <2>2. WifiSteps' BY <1>11 DEF WifiInv, WifiTypes, WifiSteps, PartitionOf, FromCard!StepFails, FromCard!Interrupted, FromCard!Fault, FromCard!Go, FromCard!Holds, FromCard!Stored, FromCard!Blank
  <2>3. SavedStep BY <1>11 DEF WifiInv, WifiTypes, WifiSteps, PartitionOf, SavedStep, FromCard!StepFails, FromCard!Interrupted, FromCard!Fault, FromCard!Go, FromCard!Holds, FromCard!Stored, FromCard!Blank
  <2>4. RouterStep BY <1>11 DEF WifiInv, WifiTypes, WifiSteps, PartitionOf, RouterStep, FromCard!StepFails, FromCard!Interrupted, FromCard!Fault, FromCard!Go, FromCard!Holds, FromCard!Stored, FromCard!Blank
  <2>5. QED BY <2>1, <2>2, <2>3, <2>4 DEF WifiInv
<1>12. CASE FromCard!SwitchOff
  <2>1. WifiTypes' BY <1>12 DEF WifiInv, WifiTypes, WifiSteps, PartitionOf, FromCard!SwitchOff, FromCard!Holds, FromCard!Stored, FromCard!Blank
  <2>2. WifiSteps' BY <1>12 DEF WifiInv, WifiTypes, WifiSteps, PartitionOf, FromCard!SwitchOff, FromCard!Holds, FromCard!Stored, FromCard!Blank
  <2>3. SavedStep BY <1>12 DEF WifiInv, WifiTypes, WifiSteps, PartitionOf, SavedStep, FromCard!SwitchOff, FromCard!Holds, FromCard!Stored, FromCard!Blank
  <2>4. RouterStep BY <1>12 DEF WifiInv, WifiTypes, WifiSteps, PartitionOf, RouterStep, FromCard!SwitchOff, FromCard!Holds, FromCard!Stored, FromCard!Blank
  <2>5. QED BY <2>1, <2>2, <2>3, <2>4 DEF WifiInv
<1>13. CASE FromCard!PowerLoss
  <2>1. WifiTypes'
    <3>1. mtd \in PartitionOf /\ want \in Credentials \cup {0} BY DEF WifiInv, WifiTypes
    <3>2. mtd' \in PartitionOf
      BY <1>13, <3>1, FieldWrites DEF FromCard!PowerLoss, FromCard!Interrupted, FromCard!Fault, FromCard!Holds, FromCard!Stored, FromCard!Blank
    <3>3. QED BY <1>13, <3>2 DEF WifiInv, WifiTypes, FromCard!PowerLoss, FromCard!Interrupted, FromCard!Fault, FromCard!Holds, FromCard!Stored, FromCard!Blank
  <2>2. WifiSteps' BY <1>13 DEF WifiInv, WifiTypes, WifiSteps, PartitionOf, FromCard!PowerLoss, FromCard!Interrupted, FromCard!Fault, FromCard!Holds, FromCard!Stored, FromCard!Blank
  <2>3. SavedStep BY <1>13 DEF WifiInv, WifiTypes, WifiSteps, PartitionOf, SavedStep, FromCard!PowerLoss, FromCard!Interrupted, FromCard!Fault, FromCard!Holds, FromCard!Stored, FromCard!Blank
  <2>4. RouterStep BY <1>13 DEF WifiInv, WifiTypes, WifiSteps, PartitionOf, RouterStep, FromCard!PowerLoss, FromCard!Interrupted, FromCard!Fault, FromCard!Holds, FromCard!Stored, FromCard!Blank
  <2>5. QED BY <2>1, <2>2, <2>3, <2>4 DEF WifiInv
<1>14. ASSUME NEW p \in Credentials \cup {0}, FromCard!PutFile(p) PROVE WifiInv' /\ SavedStep /\ RouterStep
  <2>1. WifiTypes' BY <1>14 DEF WifiInv, WifiTypes, WifiSteps, PartitionOf, FromCard!PutFile, FromCard!Go, FromCard!Holds, FromCard!Stored, FromCard!Blank
  <2>2. WifiSteps' BY <1>14 DEF WifiInv, WifiTypes, WifiSteps, PartitionOf, FromCard!PutFile, FromCard!Go, FromCard!Holds, FromCard!Stored, FromCard!Blank
  <2>3. SavedStep BY <1>14 DEF WifiInv, WifiTypes, WifiSteps, PartitionOf, SavedStep, FromCard!PutFile, FromCard!Go, FromCard!Holds, FromCard!Stored, FromCard!Blank
  <2>4. RouterStep BY <1>14 DEF WifiInv, WifiTypes, WifiSteps, PartitionOf, RouterStep, FromCard!PutFile, FromCard!Go, FromCard!Holds, FromCard!Stored, FromCard!Blank
  <2>5. QED BY <2>1, <2>2, <2>3, <2>4 DEF WifiInv
<1>15. ASSUME NEW p \in Credentials, FromCard!SavePage(p) PROVE WifiInv' /\ SavedStep /\ RouterStep
  <2>1. WifiTypes' BY <1>15 DEF WifiInv, WifiTypes, WifiSteps, PartitionOf, FromCard!SavePage, FromCard!Go, FromCard!Holds, FromCard!Stored, FromCard!Blank
  <2>2. WifiSteps' BY <1>15 DEF WifiInv, WifiTypes, WifiSteps, PartitionOf, FromCard!SavePage, FromCard!Go, FromCard!Holds, FromCard!Stored, FromCard!Blank
  <2>3. SavedStep BY <1>15 DEF WifiInv, WifiTypes, WifiSteps, PartitionOf, SavedStep, FromCard!SavePage, FromCard!Go, FromCard!Holds, FromCard!Stored, FromCard!Blank
  <2>4. RouterStep BY <1>15 DEF WifiInv, WifiTypes, WifiSteps, PartitionOf, RouterStep, FromCard!SavePage, FromCard!Go, FromCard!Holds, FromCard!Stored, FromCard!Blank
  <2>5. QED BY <2>1, <2>2, <2>3, <2>4 DEF WifiInv
<1>16. QED BY <1>1, <1>2, <1>3, <1>4, <1>5, <1>6, <1>7, <1>8, <1>9, <1>10, <1>11, <1>12, <1>13, <1>14, <1>15 DEF FromCard!Next, FromCard!Run

\* The same with the page and with writes that fail.
LEMMA FromPageKeeps ==
  ASSUME WifiInv, FromPage!Next PROVE WifiInv' /\ SavedStep /\ RouterStep
<1> USE WifiBounds DEF Held, Full, IsWhole
<1>1. CASE FromPage!PowerOn
  <2>1. WifiTypes' BY <1>1 DEF WifiInv, WifiTypes, WifiSteps, PartitionOf, FromPage!PowerOn, FromPage!Holds, FromPage!Stored, FromPage!Blank
  <2>2. WifiSteps' BY <1>1 DEF WifiInv, WifiTypes, WifiSteps, PartitionOf, FromPage!PowerOn, FromPage!Holds, FromPage!Stored, FromPage!Blank
  <2>3. SavedStep BY <1>1 DEF WifiInv, WifiTypes, WifiSteps, PartitionOf, SavedStep, FromPage!PowerOn, FromPage!Holds, FromPage!Stored, FromPage!Blank
  <2>4. RouterStep BY <1>1 DEF WifiInv, WifiTypes, WifiSteps, PartitionOf, RouterStep, FromPage!PowerOn, FromPage!Holds, FromPage!Stored, FromPage!Blank
  <2>5. QED BY <2>1, <2>2, <2>3, <2>4 DEF WifiInv
<1>2. CASE FromPage!Stage
  <2>1. WifiTypes' BY <1>2 DEF WifiInv, WifiTypes, WifiSteps, PartitionOf, FromPage!Stage, FromPage!Go, FromPage!Holds, FromPage!Stored, FromPage!Blank
  <2>2. WifiSteps' BY <1>2 DEF WifiInv, WifiTypes, WifiSteps, PartitionOf, FromPage!Stage, FromPage!Go, FromPage!Holds, FromPage!Stored, FromPage!Blank
  <2>3. SavedStep BY <1>2 DEF WifiInv, WifiTypes, WifiSteps, PartitionOf, SavedStep, FromPage!Stage, FromPage!Go, FromPage!Holds, FromPage!Stored, FromPage!Blank
  <2>4. RouterStep BY <1>2 DEF WifiInv, WifiTypes, WifiSteps, PartitionOf, RouterStep, FromPage!Stage, FromPage!Go, FromPage!Holds, FromPage!Stored, FromPage!Blank
  <2>5. QED BY <2>1, <2>2, <2>3, <2>4 DEF WifiInv
<1>3. CASE FromPage!Compare
  <2>1. WifiTypes' BY <1>3 DEF WifiInv, WifiTypes, WifiSteps, PartitionOf, FromPage!Compare, FromPage!Go, FromPage!Holds, FromPage!Stored, FromPage!Blank
  <2>2. WifiSteps' BY <1>3 DEF WifiInv, WifiTypes, WifiSteps, PartitionOf, FromPage!Compare, FromPage!Go, FromPage!Holds, FromPage!Stored, FromPage!Blank
  <2>3. SavedStep BY <1>3 DEF WifiInv, WifiTypes, WifiSteps, PartitionOf, SavedStep, FromPage!Compare, FromPage!Go, FromPage!Holds, FromPage!Stored, FromPage!Blank
  <2>4. RouterStep BY <1>3 DEF WifiInv, WifiTypes, WifiSteps, PartitionOf, RouterStep, FromPage!Compare, FromPage!Go, FromPage!Holds, FromPage!Stored, FromPage!Blank
  <2>5. QED BY <2>1, <2>2, <2>3, <2>4 DEF WifiInv
<1>4. CASE FromPage!Backup
  <2>1. WifiTypes' BY <1>4 DEF WifiInv, WifiTypes, WifiSteps, PartitionOf, FromPage!Backup, FromPage!Go, FromPage!Holds, FromPage!Stored, FromPage!Blank
  <2>2. WifiSteps' BY <1>4 DEF WifiInv, WifiTypes, WifiSteps, PartitionOf, FromPage!Backup, FromPage!Go, FromPage!Holds, FromPage!Stored, FromPage!Blank
  <2>3. SavedStep BY <1>4 DEF WifiInv, WifiTypes, WifiSteps, PartitionOf, SavedStep, FromPage!Backup, FromPage!Go, FromPage!Holds, FromPage!Stored, FromPage!Blank
  <2>4. RouterStep BY <1>4 DEF WifiInv, WifiTypes, WifiSteps, PartitionOf, RouterStep, FromPage!Backup, FromPage!Go, FromPage!Holds, FromPage!Stored, FromPage!Blank
  <2>5. QED BY <2>1, <2>2, <2>3, <2>4 DEF WifiInv
<1>5. CASE FromPage!Zero
  <2>1. WifiTypes'
    <3>1. mtd \in PartitionOf /\ want \in Credentials \cup {0} BY DEF WifiInv, WifiTypes
    <3>2. mtd' \in PartitionOf
      BY <1>5, <3>1, FieldWrites DEF FromPage!Zero, FromPage!Go, FromPage!Holds, FromPage!Stored, FromPage!Blank
    <3>3. QED BY <1>5, <3>2 DEF WifiInv, WifiTypes, FromPage!Zero, FromPage!Go, FromPage!Holds, FromPage!Stored, FromPage!Blank
  <2>2. WifiSteps' BY <1>5 DEF WifiInv, WifiTypes, WifiSteps, PartitionOf, FromPage!Zero, FromPage!Go, FromPage!Holds, FromPage!Stored, FromPage!Blank
  <2>3. SavedStep BY <1>5 DEF WifiInv, WifiTypes, WifiSteps, PartitionOf, SavedStep, FromPage!Zero, FromPage!Go, FromPage!Holds, FromPage!Stored, FromPage!Blank
  <2>4. RouterStep BY <1>5 DEF WifiInv, WifiTypes, WifiSteps, PartitionOf, RouterStep, FromPage!Zero, FromPage!Go, FromPage!Holds, FromPage!Stored, FromPage!Blank
  <2>5. QED BY <2>1, <2>2, <2>3, <2>4 DEF WifiInv
<1>6. CASE FromPage!Write
  <2>1. WifiTypes'
    <3>1. mtd \in PartitionOf /\ want \in Credentials \cup {0} BY DEF WifiInv, WifiTypes
    <3>2. mtd' \in PartitionOf
      BY <1>6, <3>1, FieldWrites DEF FromPage!Write, FromPage!Go, FromPage!Holds, FromPage!Stored, FromPage!Blank
    <3>3. QED BY <1>6, <3>2 DEF WifiInv, WifiTypes, FromPage!Write, FromPage!Go, FromPage!Holds, FromPage!Stored, FromPage!Blank
  <2>2. WifiSteps'
    <3>1. mtd \in PartitionOf BY DEF WifiInv, WifiTypes
    <3>2. CASE step = "ssid" BY <1>6, <3>1, <3>2 DEF PartitionOf, FieldOf, WifiInv, WifiTypes, WifiSteps, PartitionOf, FromPage!Write, FromPage!Go, FromPage!Holds, FromPage!Stored, FromPage!Blank
    <3>3. CASE step = "key" BY <1>6, <3>1, <3>3 DEF PartitionOf, FieldOf, WifiInv, WifiTypes, WifiSteps, PartitionOf, FromPage!Write, FromPage!Go, FromPage!Holds, FromPage!Stored, FromPage!Blank
    <3>4. CASE step = "flag" BY <1>6, <3>1, <3>4 DEF PartitionOf, FieldOf, WifiInv, WifiTypes, WifiSteps, PartitionOf, FromPage!Write, FromPage!Go, FromPage!Holds, FromPage!Stored, FromPage!Blank
    <3>5. QED BY <1>6, <3>2, <3>3, <3>4 DEF FromPage!Write
  <2>3. SavedStep BY <1>6 DEF WifiInv, WifiTypes, WifiSteps, PartitionOf, SavedStep, FromPage!Write, FromPage!Go, FromPage!Holds, FromPage!Stored, FromPage!Blank
  <2>4. RouterStep BY <1>6 DEF WifiInv, WifiTypes, WifiSteps, PartitionOf, RouterStep, FromPage!Write, FromPage!Go, FromPage!Holds, FromPage!Stored, FromPage!Blank
  <2>5. QED BY <2>1, <2>2, <2>3, <2>4 DEF WifiInv
<1>7. CASE FromPage!Verify
  <2>1. WifiTypes' BY <1>7 DEF WifiInv, WifiTypes, WifiSteps, PartitionOf, FromPage!Verify, FromPage!Go, FromPage!Holds, FromPage!Stored, FromPage!Blank
  <2>2. WifiSteps' BY <1>7 DEF WifiInv, WifiTypes, WifiSteps, PartitionOf, FromPage!Verify, FromPage!Go, FromPage!Holds, FromPage!Stored, FromPage!Blank
  <2>3. SavedStep BY <1>7 DEF WifiInv, WifiTypes, WifiSteps, PartitionOf, SavedStep, FromPage!Verify, FromPage!Go, FromPage!Holds, FromPage!Stored, FromPage!Blank
  <2>4. RouterStep BY <1>7 DEF WifiInv, WifiTypes, WifiSteps, PartitionOf, RouterStep, FromPage!Verify, FromPage!Go, FromPage!Holds, FromPage!Stored, FromPage!Blank
  <2>5. QED BY <2>1, <2>2, <2>3, <2>4 DEF WifiInv
<1>8. CASE FromPage!InstallSettings
  <2>1. WifiTypes' BY <1>8 DEF WifiInv, WifiTypes, WifiSteps, PartitionOf, FromPage!InstallSettings, FromPage!Go, FromPage!Holds, FromPage!Stored, FromPage!Blank
  <2>2. WifiSteps' BY <1>8 DEF WifiInv, WifiTypes, WifiSteps, PartitionOf, FromPage!InstallSettings, FromPage!Go, FromPage!Holds, FromPage!Stored, FromPage!Blank
  <2>3. SavedStep BY <1>8 DEF WifiInv, WifiTypes, WifiSteps, PartitionOf, SavedStep, FromPage!InstallSettings, FromPage!Go, FromPage!Holds, FromPage!Stored, FromPage!Blank
  <2>4. RouterStep BY <1>8 DEF WifiInv, WifiTypes, WifiSteps, PartitionOf, RouterStep, FromPage!InstallSettings, FromPage!Go, FromPage!Holds, FromPage!Stored, FromPage!Blank
  <2>5. QED BY <2>1, <2>2, <2>3, <2>4 DEF WifiInv
<1>9. CASE FromPage!End
  <2>1. WifiTypes' BY <1>9 DEF WifiInv, WifiTypes, WifiSteps, PartitionOf, FromPage!End, FromPage!Go, FromPage!Holds, FromPage!Stored, FromPage!Blank
  <2>2. WifiSteps' BY <1>9 DEF WifiInv, WifiTypes, WifiSteps, PartitionOf, FromPage!End, FromPage!Go, FromPage!Holds, FromPage!Stored, FromPage!Blank
  <2>3. SavedStep BY <1>9 DEF WifiInv, WifiTypes, WifiSteps, PartitionOf, SavedStep, FromPage!End, FromPage!Go, FromPage!Holds, FromPage!Stored, FromPage!Blank
  <2>4. RouterStep BY <1>9 DEF WifiInv, WifiTypes, WifiSteps, PartitionOf, RouterStep, FromPage!End, FromPage!Go, FromPage!Holds, FromPage!Stored, FromPage!Blank
  <2>5. QED BY <2>1, <2>2, <2>3, <2>4 DEF WifiInv
<1>10. CASE FromPage!NetworkStarts
  <2>1. WifiTypes' BY <1>10 DEF WifiInv, WifiTypes, WifiSteps, PartitionOf, FromPage!NetworkStarts, FromPage!Holds, FromPage!Stored, FromPage!Blank
  <2>2. WifiSteps' BY <1>10 DEF WifiInv, WifiTypes, WifiSteps, PartitionOf, FromPage!NetworkStarts, FromPage!Holds, FromPage!Stored, FromPage!Blank
  <2>3. SavedStep BY <1>10 DEF WifiInv, WifiTypes, WifiSteps, PartitionOf, SavedStep, FromPage!NetworkStarts, FromPage!Holds, FromPage!Stored, FromPage!Blank
  <2>4. RouterStep BY <1>10 DEF WifiInv, WifiTypes, WifiSteps, PartitionOf, RouterStep, FromPage!NetworkStarts, FromPage!Holds, FromPage!Stored, FromPage!Blank
  <2>5. QED BY <2>1, <2>2, <2>3, <2>4 DEF WifiInv
<1>11. CASE FromPage!StepFails
  <2>1. WifiTypes'
    <3>1. mtd \in PartitionOf /\ want \in Credentials \cup {0} BY DEF WifiInv, WifiTypes
    <3>2. mtd' \in PartitionOf
      BY <1>11, <3>1, FieldWrites DEF FromPage!StepFails, FromPage!Interrupted, FromPage!Fault, FromPage!Go, FromPage!Holds, FromPage!Stored, FromPage!Blank
    <3>3. QED BY <1>11, <3>2 DEF WifiInv, WifiTypes, FromPage!StepFails, FromPage!Interrupted, FromPage!Fault, FromPage!Go, FromPage!Holds, FromPage!Stored, FromPage!Blank
  <2>2. WifiSteps' BY <1>11 DEF WifiInv, WifiTypes, WifiSteps, PartitionOf, FromPage!StepFails, FromPage!Interrupted, FromPage!Fault, FromPage!Go, FromPage!Holds, FromPage!Stored, FromPage!Blank
  <2>3. SavedStep BY <1>11 DEF WifiInv, WifiTypes, WifiSteps, PartitionOf, SavedStep, FromPage!StepFails, FromPage!Interrupted, FromPage!Fault, FromPage!Go, FromPage!Holds, FromPage!Stored, FromPage!Blank
  <2>4. RouterStep BY <1>11 DEF WifiInv, WifiTypes, WifiSteps, PartitionOf, RouterStep, FromPage!StepFails, FromPage!Interrupted, FromPage!Fault, FromPage!Go, FromPage!Holds, FromPage!Stored, FromPage!Blank
  <2>5. QED BY <2>1, <2>2, <2>3, <2>4 DEF WifiInv
<1>12. CASE FromPage!SwitchOff
  <2>1. WifiTypes' BY <1>12 DEF WifiInv, WifiTypes, WifiSteps, PartitionOf, FromPage!SwitchOff, FromPage!Holds, FromPage!Stored, FromPage!Blank
  <2>2. WifiSteps' BY <1>12 DEF WifiInv, WifiTypes, WifiSteps, PartitionOf, FromPage!SwitchOff, FromPage!Holds, FromPage!Stored, FromPage!Blank
  <2>3. SavedStep BY <1>12 DEF WifiInv, WifiTypes, WifiSteps, PartitionOf, SavedStep, FromPage!SwitchOff, FromPage!Holds, FromPage!Stored, FromPage!Blank
  <2>4. RouterStep BY <1>12 DEF WifiInv, WifiTypes, WifiSteps, PartitionOf, RouterStep, FromPage!SwitchOff, FromPage!Holds, FromPage!Stored, FromPage!Blank
  <2>5. QED BY <2>1, <2>2, <2>3, <2>4 DEF WifiInv
<1>13. CASE FromPage!PowerLoss
  <2>1. WifiTypes'
    <3>1. mtd \in PartitionOf /\ want \in Credentials \cup {0} BY DEF WifiInv, WifiTypes
    <3>2. mtd' \in PartitionOf
      BY <1>13, <3>1, FieldWrites DEF FromPage!PowerLoss, FromPage!Interrupted, FromPage!Fault, FromPage!Holds, FromPage!Stored, FromPage!Blank
    <3>3. QED BY <1>13, <3>2 DEF WifiInv, WifiTypes, FromPage!PowerLoss, FromPage!Interrupted, FromPage!Fault, FromPage!Holds, FromPage!Stored, FromPage!Blank
  <2>2. WifiSteps' BY <1>13 DEF WifiInv, WifiTypes, WifiSteps, PartitionOf, FromPage!PowerLoss, FromPage!Interrupted, FromPage!Fault, FromPage!Holds, FromPage!Stored, FromPage!Blank
  <2>3. SavedStep BY <1>13 DEF WifiInv, WifiTypes, WifiSteps, PartitionOf, SavedStep, FromPage!PowerLoss, FromPage!Interrupted, FromPage!Fault, FromPage!Holds, FromPage!Stored, FromPage!Blank
  <2>4. RouterStep BY <1>13 DEF WifiInv, WifiTypes, WifiSteps, PartitionOf, RouterStep, FromPage!PowerLoss, FromPage!Interrupted, FromPage!Fault, FromPage!Holds, FromPage!Stored, FromPage!Blank
  <2>5. QED BY <2>1, <2>2, <2>3, <2>4 DEF WifiInv
<1>14. ASSUME NEW p \in Credentials \cup {0}, FromPage!PutFile(p) PROVE WifiInv' /\ SavedStep /\ RouterStep
  <2>1. WifiTypes' BY <1>14 DEF WifiInv, WifiTypes, WifiSteps, PartitionOf, FromPage!PutFile, FromPage!Go, FromPage!Holds, FromPage!Stored, FromPage!Blank
  <2>2. WifiSteps' BY <1>14 DEF WifiInv, WifiTypes, WifiSteps, PartitionOf, FromPage!PutFile, FromPage!Go, FromPage!Holds, FromPage!Stored, FromPage!Blank
  <2>3. SavedStep BY <1>14 DEF WifiInv, WifiTypes, WifiSteps, PartitionOf, SavedStep, FromPage!PutFile, FromPage!Go, FromPage!Holds, FromPage!Stored, FromPage!Blank
  <2>4. RouterStep BY <1>14 DEF WifiInv, WifiTypes, WifiSteps, PartitionOf, RouterStep, FromPage!PutFile, FromPage!Go, FromPage!Holds, FromPage!Stored, FromPage!Blank
  <2>5. QED BY <2>1, <2>2, <2>3, <2>4 DEF WifiInv
<1>15. ASSUME NEW p \in Credentials, FromPage!SavePage(p) PROVE WifiInv' /\ SavedStep /\ RouterStep
  <2>1. WifiTypes' BY <1>15 DEF WifiInv, WifiTypes, WifiSteps, PartitionOf, FromPage!SavePage, FromPage!Go, FromPage!Holds, FromPage!Stored, FromPage!Blank
  <2>2. WifiSteps' BY <1>15 DEF WifiInv, WifiTypes, WifiSteps, PartitionOf, FromPage!SavePage, FromPage!Go, FromPage!Holds, FromPage!Stored, FromPage!Blank
  <2>3. SavedStep BY <1>15 DEF WifiInv, WifiTypes, WifiSteps, PartitionOf, SavedStep, FromPage!SavePage, FromPage!Go, FromPage!Holds, FromPage!Stored, FromPage!Blank
  <2>4. RouterStep BY <1>15 DEF WifiInv, WifiTypes, WifiSteps, PartitionOf, RouterStep, FromPage!SavePage, FromPage!Go, FromPage!Holds, FromPage!Stored, FromPage!Blank
  <2>5. QED BY <2>1, <2>2, <2>3, <2>4 DEF WifiInv
<1>16. QED BY <1>1, <1>2, <1>3, <1>4, <1>5, <1>6, <1>7, <1>8, <1>9, <1>10, <1>11, <1>12, <1>13, <1>14, <1>15 DEF FromPage!Next, FromPage!Run

\* A request on the card stays until it is served.
LEMMA ServedKeeps ==
  ASSUME WifiInv, Served, FromCard!Next PROVE Served'
<1> USE WifiBounds DEF Held, Full, IsWhole
<1>1. CASE FromCard!PowerOn
  <2>1. Served' BY <1>1 DEF WifiInv, WifiTypes, WifiSteps, PartitionOf, Served, FromCard!PowerOn, FromCard!Holds, FromCard!Stored, FromCard!Blank
  <2>2. QED BY <2>1 DEF Served
<1>2. CASE FromCard!Stage
  <2>1. Served' BY <1>2 DEF WifiInv, WifiTypes, WifiSteps, PartitionOf, Served, FromCard!Stage, FromCard!Go, FromCard!Holds, FromCard!Stored, FromCard!Blank
  <2>2. QED BY <2>1 DEF Served
<1>3. CASE FromCard!Compare
  <2>1. Served' BY <1>3 DEF WifiInv, WifiTypes, WifiSteps, PartitionOf, Served, FromCard!Compare, FromCard!Go, FromCard!Holds, FromCard!Stored, FromCard!Blank
  <2>2. QED BY <2>1 DEF Served
<1>4. CASE FromCard!Backup
  <2>1. Served' BY <1>4 DEF WifiInv, WifiTypes, WifiSteps, PartitionOf, Served, FromCard!Backup, FromCard!Go, FromCard!Holds, FromCard!Stored, FromCard!Blank
  <2>2. QED BY <2>1 DEF Served
<1>5. CASE FromCard!Zero
  <2>1. Served' BY <1>5 DEF WifiInv, WifiTypes, WifiSteps, PartitionOf, Served, FromCard!Zero, FromCard!Go, FromCard!Holds, FromCard!Stored, FromCard!Blank
  <2>2. QED BY <2>1 DEF Served
<1>6. CASE FromCard!Write
  <2>1. Served' BY <1>6 DEF WifiInv, WifiTypes, WifiSteps, PartitionOf, Served, FromCard!Write, FromCard!Go, FromCard!Holds, FromCard!Stored, FromCard!Blank
  <2>2. QED BY <2>1 DEF Served
<1>7. CASE FromCard!Verify
  <2>1. Served' BY <1>7 DEF WifiInv, WifiTypes, WifiSteps, PartitionOf, Served, FromCard!Verify, FromCard!Go, FromCard!Holds, FromCard!Stored, FromCard!Blank
  <2>2. QED BY <2>1 DEF Served
<1>8. CASE FromCard!InstallSettings
  <2>1. Served' BY <1>8 DEF WifiInv, WifiTypes, WifiSteps, PartitionOf, Served, FromCard!InstallSettings, FromCard!Go, FromCard!Holds, FromCard!Stored, FromCard!Blank
  <2>2. QED BY <2>1 DEF Served
<1>9. CASE FromCard!End
  <2>1. Served' BY <1>9 DEF WifiInv, WifiTypes, WifiSteps, PartitionOf, Served, FromCard!End, FromCard!Go, FromCard!Holds, FromCard!Stored, FromCard!Blank
  <2>2. QED BY <2>1 DEF Served
<1>10. CASE FromCard!NetworkStarts
  <2>1. Served' BY <1>10 DEF WifiInv, WifiTypes, WifiSteps, PartitionOf, Served, FromCard!NetworkStarts, FromCard!Holds, FromCard!Stored, FromCard!Blank
  <2>2. QED BY <2>1 DEF Served
<1>11. CASE FromCard!StepFails
  <2>1. Served' BY <1>11 DEF WifiInv, WifiTypes, WifiSteps, PartitionOf, Served, FromCard!StepFails, FromCard!Interrupted, FromCard!Fault, FromCard!Go, FromCard!Holds, FromCard!Stored, FromCard!Blank
  <2>2. QED BY <2>1 DEF Served
<1>12. CASE FromCard!SwitchOff
  <2>1. Served' BY <1>12 DEF WifiInv, WifiTypes, WifiSteps, PartitionOf, Served, FromCard!SwitchOff, FromCard!Holds, FromCard!Stored, FromCard!Blank
  <2>2. QED BY <2>1 DEF Served
<1>13. CASE FromCard!PowerLoss
  <2>1. Served' BY <1>13 DEF WifiInv, WifiTypes, WifiSteps, PartitionOf, Served, FromCard!PowerLoss, FromCard!Interrupted, FromCard!Fault, FromCard!Holds, FromCard!Stored, FromCard!Blank
  <2>2. QED BY <2>1 DEF Served
<1>14. ASSUME NEW p \in Credentials \cup {0}, FromCard!PutFile(p) PROVE Served'
  <2>1. Served' BY <1>14 DEF WifiInv, WifiTypes, WifiSteps, PartitionOf, Served, FromCard!PutFile, FromCard!Go, FromCard!Holds, FromCard!Stored, FromCard!Blank
  <2>2. QED BY <2>1 DEF Served
<1>15. ASSUME NEW p \in Credentials, FromCard!SavePage(p) PROVE Served'
  <2>1. Served' BY <1>15 DEF WifiInv, WifiTypes, WifiSteps, PartitionOf, Served, FromCard!SavePage, FromCard!Go, FromCard!Holds, FromCard!Stored, FromCard!Blank
  <2>2. QED BY <2>1 DEF Served
<1>16. QED BY <1>1, <1>2, <1>3, <1>4, <1>5, <1>6, <1>7, <1>8, <1>9, <1>10, <1>11, <1>12, <1>13, <1>14, <1>15 DEF FromCard!Next, FromCard!Run

ProvisionInv == WifiInv /\ (part = "fromCard" => Served)

\* A camera with saved credentials, or one that was never provisioned.
LEMMA WifiStart == Init => ProvisionInv
<1> SUFFICES ASSUME Init PROVE ProvisionInv OBVIOUS
<1> USE WifiBounds
<1>1. /\ mtd \in {Full(1), [ssid |-> Held(0), key |-> Held(0), clear |-> FALSE]}
      /\ system \in {"hotspot", "router"}
      /\ cfg = "none" /\ asked = 0 /\ step = "idle" /\ want = 0 /\ power = "off"
  BY DEF Init, FromCard!Init, FromCard!Stored, FromCard!Holds, FromCard!Blank, Full, Held
<1>2. Held(0) \in FieldOf /\ Held(1) \in FieldOf BY DEF Held, FieldOf
<1>3. mtd \in PartitionOf
  <2> DEFINE blank == Held(0) one == Held(1)
  <2>1. one \in FieldOf /\ blank \in FieldOf BY <1>2
  <2>2. mtd = [ssid |-> one, key |-> one, clear |-> TRUE] \/ mtd = [ssid |-> blank, key |-> blank, clear |-> FALSE]
    BY <1>1 DEF Full
  <2> HIDE DEF one, blank
  <2>3. [ssid |-> one, key |-> one, clear |-> TRUE] \in PartitionOf BY <2>1, Zenon DEF PartitionOf
  <2>4. [ssid |-> blank, key |-> blank, clear |-> FALSE] \in PartitionOf BY <2>1, Zenon DEF PartitionOf
  <2>5. QED BY <2>2, <2>3, <2>4
<1>4. WifiTypes BY <1>1, <1>3 DEF WifiTypes
<1>5. WifiSteps BY <1>1 DEF WifiSteps
<1>6. mtd.key = Held(0) \/ IsWhole(mtd) BY <1>1 DEF IsWhole
<1>7. Served BY <1>1, <1>6 DEF Served
<1>8. QED BY <1>4, <1>5, <1>7 DEF ProvisionInv, WifiInv

\* With the page and without, and in the parts that do not touch the partition.
LEMMA WifiStep ==
  ASSUME ProvisionInv, [Next]_vars
  PROVE  ProvisionInv' /\ ((SavedStep /\ RouterStep) \/ UNCHANGED FromPage!vars)
<1>1. CASE UNCHANGED wifi
  <2>1. UNCHANGED <<mtd, system, cfg, asked, backups, step, want, power, runs, cuts>> BY <1>1 DEF wifi
  <2>2. WifiInv' BY <2>1 DEF ProvisionInv, WifiInv, WifiTypes, WifiSteps
  <2>3. part' = part BY DEF Next, vars
  <2>4. Served' = Served BY <2>1 DEF Served, IsWhole
  <2>5. UNCHANGED FromPage!vars BY <2>1 DEF FromPage!vars
  <2>6. QED BY <2>2, <2>3, <2>4, <2>5 DEF ProvisionInv
<1>2. CASE part = "fromCard" /\ FromCard!Next
  <2>1. WifiInv' /\ SavedStep /\ RouterStep BY <1>2, FromCardKeeps DEF ProvisionInv
  <2>2. Served' BY <1>2, ServedKeeps DEF ProvisionInv
  <2>3. QED BY <2>1, <2>2 DEF ProvisionInv
<1>3. CASE part = "fromPage" /\ FromPage!Next
  <2>1. WifiInv' /\ SavedStep /\ RouterStep BY <1>3, FromPageKeeps DEF ProvisionInv
  <2>2. part' # "fromCard" BY <1>3 DEF Next, vars
  <2>3. QED BY <2>1, <2>2 DEF ProvisionInv
<1>4. QED BY <1>1, <1>2, <1>3 DEF Next, vars

(* Whatever power cuts leave of a request on the card, the camera that has *)
(* started is reached by the hotspot or with whole credentials             *)
(* (configure_wifi.sh, and boot_request of hotspot.sh).                    *)
LEMMA CameraIsReached == Spec => []Reached
<1>1. Init => ProvisionInv BY WifiStart
<1>2. ProvisionInv /\ [Next]_vars => ProvisionInv' BY WifiStep
<1>3. ProvisionInv => Reached
  BY DEF ProvisionInv, Served, IsWhole, Full, Held, Reached, FromCard!AlwaysReached, FromCard!Reached,
     FromCard!Whole, FromCard!Stored, FromCard!Holds, FromCard!Blank
<1>4. QED BY <1>1, <1>2, <1>3, PTL DEF Spec

(* Whole credentials are given up only with a copy of the partition on the *)
(* card, whichever write fails or is cut off (configure_wifi.sh:193).      *)
LEMMA CredentialsAreSaved == Spec => FromPage!CredentialsSaved
<1>1. Init => ProvisionInv BY WifiStart
<1>2. ProvisionInv /\ [Next]_vars => ProvisionInv' BY WifiStep
<1>3. ProvisionInv /\ [Next]_vars =>
        [FromPage!Whole(mtd) /\ ~FromPage!Whole(mtd') => mtd \in backups']_(FromPage!vars)
  BY WifiStep DEF SavedStep, IsWhole, Full, Held, FromPage!Whole, FromPage!Stored, FromPage!Holds
<1>4. QED BY <1>1, <1>2, <1>3, PTL DEF Spec, FromPage!CredentialsSaved

(* A camera that starts as a hotspot is turned to the router only with     *)
(* whole credentials (configure_wifi.sh installs the settings last).       *)
LEMMA RouterIsReady == Spec => FromPage!RouterHasCredentials
<1>1. Init => ProvisionInv BY WifiStart
<1>2. ProvisionInv /\ [Next]_vars => ProvisionInv' BY WifiStep
<1>3. ProvisionInv /\ [Next]_vars =>
        [system = "hotspot" /\ system' = "router" => FromPage!Whole(mtd')]_(FromPage!vars)
  BY WifiStep DEF RouterStep, IsWhole, Full, Held, FromPage!Whole, FromPage!Stored, FromPage!Holds
<1>4. QED BY <1>1, <1>2, <1>3, PTL DEF Spec, FromPage!RouterHasCredentials

(* A power cut never leaves a camera that cannot be reached, nor one whose *)
(* credentials are gone without a copy (configure_wifi.sh).                *)
THEOREM CredentialsAreKept == Spec => CredentialsKept
BY CameraIsReached, CredentialsAreSaved, RouterIsReady, PTL DEF CredentialsKept
=============================================================================
