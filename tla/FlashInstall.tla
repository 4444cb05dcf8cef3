----------------------------- MODULE FlashInstall -----------------------------
(***************************************************************************)
(* The installer of the flash core: install.sh, run by the stock SD hook   *)
(* or by the dispatcher that replaces /backup/init.sh, and the dispatcher  *)
(* itself.  U-Boot writes the two filesystems between two runs.  Every     *)
(* write that survives a loss of power is a step of its own.               *)
(*                                                                         *)
(* A file is an element of bk.files (/backup) or sd.files (the card):      *)
(*   "dispatcher"  init.sh is this release's dispatcher; absent, it is the *)
(*                 previous startup (the vendor's, or the dispatcher of    *)
(*                 the release before in a clean reinstall)                *)
(*   "core"        flash-core-init.sh of this release; "oldcore", of the   *)
(*                 release before                                          *)
(*   "pending"     the journal exists; "release", it names this release    *)
(*   "recovery"    flash-core-recovery/, "manifest" its checksums.md5,     *)
(*                 "stockKernel" its mtd/y623-boot-stock.bin               *)
(* The remaining names are those of the files.                             *)
(***************************************************************************)
EXTENDS Naturals, FiniteSets

CONSTANTS
    Kinds,        \* installations considered: "vendor", "clean"
    Kernels,      \* boot partitions of the cameras considered (see kern)
    Tools,        \* the updater components the installer reclaims
    MaxAttempts,  \* runs of the bootloader that may be tried (the code's 3)
    MaxLosses,    \* bound: times the power goes
    Faults        \* what may go wrong: "power", "io", "bootloader", "layout", "card", "restore"

FlashAssumption ==
    /\ Kinds \subseteq {"vendor", "clean"}
    /\ Kernels \subseteq {"other", "stock", "patched", "unknown"}
    /\ MaxAttempts \in Nat
    /\ MaxLosses \in Nat
    /\ Faults \subseteq {"power", "io", "bootloader", "layout", "card", "restore"}

VARIABLES
    kind,      \* the installation under way
    kern,      \* the boot partition: "other" on a y28ga, where no script writes it; on a
               \* y623 the stock or the patched kernel, one unknown to the script, or "torn"
    bk,        \* /backup: its files and its updater tools
    sd,        \* the card: files, bootloader images, saved tools, attempts
    inserted,  \* the card is in the camera
    img,       \* the root and home filesystems in flash
    pc,        \* what the camera is doing
    ready,     \* ROLLBACK_READY of the running installer
    losses     \* times the power went (bound)

vars == <<kind, kern, bk, sd, inserted, img, pc, ready, losses>>

Parts == {"rootfs", "home"}
BackupFiles == {"dispatcher", "initNew", "core", "oldcore", "coreNew", "original",
                "config", "oldconfig", "pending", "release"}
CardFiles == {"hook", "CLEAN_INSTALL", "recovery", "manifest", "clean.conf",
              "RESTORE", "automatic", "config", "stockKernel"}
Running == {"runs prev", "runs new"}
Rest == Running \cup {"stuck"}
Steps == {"install", "backup", "manifest", "save", "stage", "settings", "kernel",
          "write kernel", "read kernel", "dispatcher", "activate", "journal", "release", "forget", "rename", "resume", "repair", "retire",
          "unhook", "commit", "attempt", "rootfs", "home",
          "prepare", "prepareConf", "prepareManifest", "prepareStage", "prepareRename",
          "restore", "restoreTools", "restoreFiles", "restoreInit", "rmPending",
          "rmTriggers", "rmRestore", "rmHook",
          "rollback", "rollbackTools", "rollbackHook"}

TypeOK ==
    /\ kind \in Kinds
    /\ kern \in Kernels \cup {"torn", "patched"}
    /\ bk \in [files: SUBSET BackupFiles, tools: [Tools -> {"whole", "torn", "gone"}]]
    /\ sd \in [files: SUBSET CardFiles, trig: [Parts -> {"none", "prev", "new"}],
               saved: [Tools -> {"none", "torn", "whole"}], attempts: 0..MaxAttempts]
    /\ inserted \in BOOLEAN
    /\ img \in [Parts -> {"prev", "new", "torn"}]
    /\ pc \in {"off", "uboot", "boot"} \cup Parts \cup {"flash rootfs", "flash home"}
              \cup Rest \cup Steps
    /\ ready \in BOOLEAN
    /\ losses \in 0..MaxLosses

Init ==
    /\ kind \in Kinds
    /\ kern \in Kernels
    /\ bk = [files |-> IF kind = "clean" THEN {"oldcore", "original", "oldconfig"} ELSE {},
             tools |-> [t \in Tools |-> "whole"]]
    /\ sd = [files |-> {"hook", "CLEAN_INSTALL"}, trig |-> [p \in Parts |-> "none"],
             saved |-> [t \in Tools |-> "none"], attempts |-> 0]
    /\ inserted = TRUE
    /\ img = [p \in Parts |-> "prev"]
    /\ pc = "off"
    /\ ready = FALSE
    /\ losses = 0

All(v) == \A p \in Parts : img[p] = v
Flash(f) == f \in bk.files
Card(f) == f \in sd.files

-----------------------------------------------------------------------------
(* U-Boot (external): it writes the staged images that differ from flash,  *)
(* or, with the fault "bootloader", starts the kernel without them.        *)
PowerOn == /\ pc = "off"
           /\ pc' = "uboot"
           /\ UNCHANGED <<kind, kern, bk, sd, inserted, img, ready, losses>>

Staged(p) == inserted /\ sd.trig[p] # "none" /\ sd.trig[p] # img[p]

UBootErase(p) == /\ pc = "uboot"
                 /\ Staged(p)
                 /\ img' = [img EXCEPT ![p] = "torn"]
                 /\ pc' = IF p = "home" THEN "flash home" ELSE "flash rootfs"
                 /\ UNCHANGED <<kind, kern, bk, sd, inserted, ready, losses>>

UBootWrite(p) == /\ pc = (IF p = "home" THEN "flash home" ELSE "flash rootfs")
                 /\ img' = [img EXCEPT ![p] = sd.trig[p]]
                 /\ pc' = "uboot"
                 /\ UNCHANGED <<kind, kern, bk, sd, inserted, ready, losses>>

Kernel == /\ pc = "uboot"
          /\ "bootloader" \in Faults \/ \A p \in Parts : ~Staged(p)
          /\ pc' = "boot"
          /\ UNCHANGED <<kind, kern, bk, sd, inserted, img, ready, losses>>

-----------------------------------------------------------------------------
(* What the startup entry does with the card in, or not: the dispatcher's  *)
(* early exits in their order.  The previous startup is the vendor's (its  *)
(* SD hook runs the installer), or the dispatcher of another release.  A   *)
(* torn kernel starts nothing.                                             *)
HandOver(in) ==
    IF Flash("pending") THEN "install"
    ELSE IF in /\ Card("CLEAN_INSTALL")
         THEN IF Card("clean.conf") THEN "install" ELSE "prepare"
    ELSE IF Flash("core") THEN "runs new"
    ELSE IF Flash("oldcore") THEN "runs prev" ELSE "stuck"

DispatcherWith(in) ==
    LET has(f) == in /\ Card(f) IN
    IF ~in /\ Flash("pending") THEN "stuck"
    ELSE IF has("clean.conf") /\ ~(Flash("dispatcher") /\ has("manifest")) THEN "stuck"
    ELSE IF has("RESTORE") THEN "restore" ELSE HandOver(in)

VendorInitWith(in) == IF in /\ Card("hook") THEN "install" ELSE "runs prev"

StartupWith(in) ==
    IF kern = "torn" \/ \E p \in Parts : img[p] = "torn" THEN "stuck"
    ELSE IF kind = "vendor" /\ ~Flash("dispatcher") THEN VendorInitWith(in)
    ELSE DispatcherWith(in)

Boot == /\ pc = "boot"
        /\ pc' = StartupWith(inserted)
        /\ ready' = FALSE
        /\ UNCHANGED <<kind, kern, bk, sd, inserted, img, losses>>

-----------------------------------------------------------------------------
(* fail(): before the journal, and once ROLLBACK_READY, the installer      *)
(* undoes what it staged; otherwise it leaves everything as it is.         *)
Refused(isReady) ==
    IF ~isReady \/ Flash("pending") \/ ~All("prev") THEN "stuck"
    ELSE IF Card("clean.conf") THEN "restore"
    ELSE IF ~Flash("dispatcher") /\ Card("manifest") THEN "rollback" ELSE "stuck"

FailLeaving(kernel, isReady) ==
    /\ kern' = kernel
    /\ pc' = Refused(isReady)
    /\ sd' = IF Refused(isReady) = "restore"
             THEN [sd EXCEPT !.files = @ \cup {"RESTORE"}] ELSE sd
    /\ ready' = isReady
    /\ UNCHANGED <<kind, bk, inserted, img, losses>>

FailWith(isReady) == FailLeaving(kern, isReady)

Write(files, next) ==
    /\ bk' = [bk EXCEPT !.files = files]
    /\ pc' = next
    /\ UNCHANGED <<kind, kern, sd, inserted, img, ready, losses>>

CardWrite(files, next) ==
    /\ sd' = [sd EXCEPT !.files = files]
    /\ pc' = next
    /\ UNCHANGED <<kind, kern, bk, inserted, img, ready, losses>>

Goto(next) ==
    /\ pc' = next
    /\ UNCHANGED <<kind, kern, bk, sd, inserted, img, ready, losses>>

\* The checks before a first run may touch anything.
Fresh ==
    /\ All("prev")
    /\ \A p \in Parts : sd.trig[p] = "none"
    /\ ~Card("clean.conf") => /\ ~Card("recovery") /\ ~Card("config")
                              /\ bk.files \cap {"original", "coreNew", "initNew", "config"} = {}

\* A clean reinstallation may be undone from the start.
RollbackReady == Card("clean.conf")

Enter ==
    /\ pc = "install"
    /\ \/ /\ Card("RESTORE")
          /\ Goto("restore")
       \/ /\ ~Card("RESTORE")
          /\ Flash("release") \/ (~Flash("pending") /\ Fresh)
          /\ ready' = RollbackReady
          /\ pc' = IF Flash("pending") THEN "resume"
                   ELSE IF RollbackReady THEN "stage" ELSE "backup"
          /\ UNCHANGED <<kind, kern, bk, sd, inserted, img, losses>>
       \/ /\ ~Card("RESTORE") /\ ~Flash("release")
          /\ Flash("pending") \/ ~Fresh
          /\ FailWith(RollbackReady)

\* A card the bootloader of y623 cannot read: the triggers are retired.
RefuseCard ==
    /\ pc = "backup" /\ kern # "other"
    /\ "layout" \in Faults
    /\ CardWrite(sd.files \ {"hook"}, "off")

\* ensure_y623_ve_kernel.sh --check: the kernel is the stock or the patched one.
\* A clean reinstallation has passed it in Prepare.
KernelKnown == kern \in {"other", "stock", "patched"}

Backup == /\ pc = "backup"
          /\ \/ KernelKnown /\ CardWrite(sd.files \cup {"recovery"}, "manifest")
             \/ ~KernelKnown /\ FailWith(ready)

Manifest == /\ pc = "manifest"
            /\ CardWrite(sd.files \cup {"manifest"}, "save")

\* A component is copied to the card, the copy verified, the original removed.
SaveTool(t) ==
    /\ pc = "save"
    /\ \A u \in Tools \ {t} : sd.saved[u] # "none" => bk.tools[u] = "gone"
    /\ \/ /\ sd.saved[t] # "whole"
          /\ sd' = [sd EXCEPT !.saved[t] = IF @ = "none" THEN "torn" ELSE "whole"]
          /\ UNCHANGED bk
       \/ /\ sd.saved[t] = "whole" /\ bk.tools[t] = "whole"
          /\ bk' = [bk EXCEPT !.tools[t] = "gone"]
          /\ UNCHANGED sd
    /\ UNCHANGED <<kind, kern, inserted, img, pc, ready, losses>>

Reclaimed ==
    /\ pc = "save"
    /\ \A t \in Tools : bk.tools[t] = "gone"
    /\ pc' = "stage"
    /\ ready' = TRUE
    /\ UNCHANGED <<kind, kern, bk, sd, inserted, img, losses>>

StageStartup ==
    /\ pc = "stage"
    /\ Write((bk.files \ {"oldconfig"}) \cup {"original", "coreNew"}, "settings")

StageSettings ==
    /\ pc = "settings"
    /\ \/ /\ ~Card("config")
          /\ sd' = [sd EXCEPT !.files = @ \cup {"config"}]
          /\ bk' = [bk EXCEPT !.files = @ \cup {"config"}]
          /\ pc' = "kernel"
          /\ UNCHANGED <<kind, kern, inserted, img, ready, losses>>
       \/ Card("config") /\ FailWith(ready)

\* ensure_y623_ve_kernel.sh: a stock kernel is kept on the card, overwritten in
\* place with the patched one, and read back.
KeepStockKernel ==
    /\ pc = "kernel"
    /\ \/ kern = "stock" /\ CardWrite(sd.files \cup {"stockKernel"}, "write kernel")
       \/ kern \in {"other", "patched"} /\ Goto("dispatcher")

WriteKernel ==
    /\ pc = "write kernel"
    /\ kern' = "torn"
    /\ pc' = "read kernel"
    /\ UNCHANGED <<kind, bk, sd, inserted, img, ready, losses>>

ReadKernelBack ==
    /\ pc = "read kernel"
    /\ kern' = "patched"
    /\ pc' = "dispatcher"
    /\ UNCHANGED <<kind, bk, sd, inserted, img, ready, losses>>

\* The write fails or reads back wrong; the stock kernel is put back, or that fails too.
KernelWriteFails ==
    /\ pc = "read kernel"
    /\ \E k \in {"stock", "torn"} : FailLeaving(k, ready)

StageDispatcher == pc = "dispatcher" /\ Write(bk.files \cup {"initNew"}, "activate")

\* MUTANT: the dispatcher is activated before the journal.
ActivateEarly == /\ pc = "activate"
                 /\ Write((bk.files \ {"coreNew", "oldcore"}) \cup {"core", "dispatcher"}, "journal")

Activate == /\ pc = "activate"
            /\ Write((bk.files \ {"coreNew", "oldcore"}) \cup {"core"}, "journal")

\* The shell creates the journal, then writes the release into it.
Journal == \/ pc = "journal" /\ Write(bk.files \cup {"pending"}, "release")
           \/ pc = "release" /\ Write(bk.files \cup {"release"}, "forget")

ForgetRequest == pc = "forget" /\ CardWrite(sd.files \ {"CLEAN_INSTALL"}, "rename")

Rename == /\ pc = "rename"
          /\ Write((bk.files \ {"initNew"}) \cup {"dispatcher"}, "attempt")

-----------------------------------------------------------------------------
(* --resume: an interrupted rename is repaired, the images are compared    *)
(* with the ones staged, and either the triggers and the journal go, or    *)
(* the images are staged once more.                                        *)
Resume ==
    /\ pc = "resume"
    /\ \/ /\ ~Flash("dispatcher")
          /\ Write(bk.files \cup {"initNew"}, "repair")
       \/ /\ Flash("dispatcher") /\ All("new") /\ Flash("core")
          /\ Goto("retire")
       \/ /\ Flash("dispatcher") /\ ~All("new")
          /\ Goto("attempt")
       \/ /\ Flash("dispatcher") /\ All("new") /\ ~Flash("core")
          /\ FailWith(ready)

Repair == /\ pc = "repair"
          /\ Write((bk.files \ {"initNew"}) \cup {"dispatcher"}, "resume")

Unstage(next) ==
    /\ sd' = [sd EXCEPT !.trig = [p \in Parts |-> "none"]]
    /\ pc' = next
    /\ UNCHANGED <<kind, kern, bk, inserted, img, ready, losses>>

RetireTriggers == pc = "retire" /\ Unstage("unhook")

RetireHook == pc = "unhook" /\ CardWrite(sd.files \ {"hook"}, "commit")

Commit == pc = "commit" /\ Write(bk.files \ {"pending", "release"}, "off")

Attempt ==
    /\ pc = "attempt"
    /\ \/ /\ sd.attempts < MaxAttempts
          /\ sd' = [sd EXCEPT !.attempts = @ + 1]
          /\ pc' = "rootfs"
          /\ UNCHANGED <<kind, kern, bk, inserted, img, ready, losses>>
       \/ /\ sd.attempts = MaxAttempts
          /\ sd' = [sd EXCEPT !.trig = [p \in Parts |-> "none"],
                              !.files = IF All("prev") THEN @ \cup {"automatic", "RESTORE"} ELSE @]
          /\ pc' = IF All("prev") THEN "restore" ELSE "stuck"
          /\ UNCHANGED <<kind, kern, bk, inserted, img, ready, losses>>

StageImage(p) ==
    /\ pc = p
    /\ sd' = [sd EXCEPT !.trig[p] = "new"]
    /\ pc' = IF p = "rootfs" THEN "home" ELSE "off"
    /\ UNCHANGED <<kind, kern, bk, inserted, img, ready, losses>>

-----------------------------------------------------------------------------
(* --prepare-clean: the backup of a working flash core, and a dispatcher   *)
(* that will reinstall it.                                                 *)
Prepare ==
    /\ pc = "prepare"
    /\ IF /\ bk.files \cap {"core", "oldcore"} # {} /\ Flash("original")
          /\ bk.files \cap {"pending", "initNew", "coreNew"} = {}
          /\ ~Card("recovery") /\ ~Card("config")
          /\ \A p \in Parts : sd.trig[p] = "none"
          /\ KernelKnown
       THEN CardWrite(sd.files \cup {"recovery"}, "prepareConf")
       ELSE Goto("stuck")

PrepareConf == /\ pc = "prepareConf"
               /\ CardWrite(sd.files \cup {"clean.conf"}, "prepareManifest")

PrepareManifest == /\ pc = "prepareManifest"
                   /\ CardWrite(sd.files \cup {"manifest"}, "prepareStage")

PrepareStage == pc = "prepareStage" /\ Write(bk.files \cup {"initNew"}, "prepareRename")

PrepareRename == /\ pc = "prepareRename"
                 /\ Write((bk.files \ {"initNew"}) \cup {"dispatcher"}, "off")

-----------------------------------------------------------------------------
(* The dispatcher's RESTORE path, in the order of its writes.              *)
\* MUTANT: a restore does not look at the filesystems.
RestoreUnchecked ==
    /\ pc = "restore"
    /\ Write(bk.files \ {"core", "oldcore", "coreNew", "initNew", "config", "oldconfig"}, "restoreTools")

Restore ==
    /\ pc = "restore"
    /\ IF All("prev") /\ Card("manifest")
       THEN Write(bk.files \ {"core", "oldcore", "coreNew", "initNew", "config", "oldconfig"},
                  "restoreTools")
       ELSE Goto("stuck")

PutBackTools(next) ==
    /\ bk' = [bk EXCEPT !.tools = [t \in Tools |-> IF sd.saved[t] = "none" THEN @[t]
                                                   ELSE sd.saved[t]]]
    /\ pc' = next
    /\ UNCHANGED <<kind, kern, sd, inserted, img, ready, losses>>

RestoreTools == pc = "restoreTools" /\ PutBackTools("restoreFiles")

RestoreFiles ==
    /\ pc = "restoreFiles"
    /\ bk' = [bk EXCEPT !.files = IF Card("clean.conf")
                                  THEN @ \cup {"oldcore", "original", "oldconfig"}
                                  ELSE @ \ {"original"}]
    /\ sd' = [sd EXCEPT !.files = @ \ ({"CLEAN_INSTALL"} \cup
                                       IF Card("clean.conf") THEN {"config"} ELSE {})]
    /\ pc' = "restoreInit"
    /\ UNCHANGED <<kind, kern, inserted, img, ready, losses>>

RestoreInit == pc = "restoreInit" /\ Write(bk.files \ {"dispatcher"}, "rmPending")

RemovePending == pc = "rmPending" /\ Write(bk.files \ {"pending", "release"}, "rmTriggers")

RemoveTriggers == pc = "rmTriggers" /\ Unstage("rmRestore")

RemoveRestore == pc = "rmRestore" /\ CardWrite(sd.files \ {"RESTORE"}, "rmHook")

\* MUTANT: a restore leaves the installer hook.
RemoveHookSkipped == pc = "rmHook" /\ Goto("off")

RemoveHook == pc = "rmHook" /\ CardWrite(sd.files \ {"hook"}, "off")

RestoreNext == \/ Restore \/ RestoreTools \/ RestoreFiles \/ RestoreInit
               \/ RemovePending \/ RemoveTriggers \/ RemoveRestore \/ RemoveHook

-----------------------------------------------------------------------------
(* rollback_uncommitted of a first installation.                           *)
Rollback ==
    /\ pc = "rollback"
    /\ bk' = [bk EXCEPT !.files = @ \ {"config", "coreNew", "original", "initNew"}]
    /\ sd' = [sd EXCEPT !.files = @ \ {"config"}]
    /\ pc' = "rollbackTools"
    /\ UNCHANGED <<kind, kern, inserted, img, ready, losses>>

RollbackTools == pc = "rollbackTools" /\ PutBackTools("rollbackHook")

RollbackHook == pc = "rollbackHook" /\ CardWrite(sd.files \ {"hook"}, "off")

-----------------------------------------------------------------------------
(* What goes wrong: a command of the installer fails, the power goes, and  *)
(* what the owner does with the camera off.                                *)
Fails ==
    /\ "io" \in Faults
    /\ \/ pc \in {"backup", "manifest", "save", "stage", "settings", "kernel", "write kernel",
                  "dispatcher", "activate", "journal", "release", "rename", "resume", "repair", "unhook", "attempt"} \cup Parts
          /\ FailWith(ready)
       \/ KernelWriteFails
       \/ pc \in {"prepare", "prepareConf", "prepareManifest", "prepareStage", "prepareRename",
                  "restore", "restoreTools", "restoreFiles", "restoreInit",
                  "rollbackTools", "rollbackHook"}
          /\ Goto("stuck")

PowerOff ==
    /\ losses < MaxLosses
    /\ pc \in Rest \/ ("power" \in Faults /\ pc # "off")
    /\ losses' = losses + 1
    /\ pc' = "off"
    /\ ready' = FALSE
    /\ UNCHANGED <<kind, kern, bk, sd, inserted, img>>

\* RECOVERY.txt keeps the card in the camera until a restore has ended.
MoveCard ==
    /\ pc = "off" /\ "card" \in Faults
    /\ ~Card("RESTORE")
    /\ inserted' = ~inserted
    /\ UNCHANGED <<kind, kern, bk, sd, img, pc, ready, losses>>

\* RECOVERY.txt, steps 2 to 4.
RequestRestore ==
    /\ pc = "off" /\ "restore" \in Faults
    /\ inserted /\ Card("manifest") /\ ~Card("RESTORE")
    /\ sd' = [sd EXCEPT !.files = @ \cup {"RESTORE"}, !.trig = [p \in Parts |-> "prev"]]
    /\ UNCHANGED <<kind, kern, bk, inserted, img, pc, ready, losses>>

-----------------------------------------------------------------------------
InstallNext ==
    \/ Enter \/ RefuseCard \/ Backup \/ Manifest
    \/ \E t \in Tools : SaveTool(t)
    \/ Reclaimed \/ StageStartup \/ StageSettings
    \/ KeepStockKernel \/ WriteKernel \/ ReadKernelBack \/ StageDispatcher
    \/ Activate \/ Journal \/ ForgetRequest \/ Rename
    \/ Resume \/ Repair \/ RetireTriggers \/ RetireHook \/ Commit
    \/ Attempt \/ \E p \in Parts : StageImage(p)
    \/ Prepare \/ PrepareConf \/ PrepareManifest \/ PrepareStage \/ PrepareRename
    \/ Rollback \/ RollbackTools \/ RollbackHook

Machine ==
    \/ PowerOn \/ Kernel \/ Boot
    \/ \E p \in Parts : UBootErase(p) \/ UBootWrite(p)
    \/ InstallNext \/ RestoreNext

Next == Machine \/ Fails \/ PowerOff \/ MoveCard \/ RequestRestore

Spec == Init /\ [][Next]_vars /\ WF_vars(Machine)

-----------------------------------------------------------------------------
(* A startup never runs on the filesystems of the other firmware: the old  *)
(* startup on new or mixed images (install.sh:250-253), or the new         *)
(* bootstrap on old ones (install.sh:137-147).                             *)
StartupMatchesImages ==
    /\ pc = "runs prev" => All("prev")
    /\ pc = "runs new" => All("new") /\ Flash("core") /\ Flash("dispatcher")

(* Nothing that only the recovery directory can give back is changed       *)
(* before that directory is complete: a filesystem, the startup entry, an  *)
(* updater component (install.sh:192-212, RECOVERY.txt).                   *)
BackedUp ==
    /\ (~All("prev") \/ Flash("dispatcher")) => Card("manifest")
    /\ \A t \in Tools : bk.tools[t] = "gone" => sd.saved[t] = "whole"

(* While the journal is closed and no restore is under way, the camera     *)
(* starts without the card, whatever was interrupted but the write of its  *)
(* kernel (dispatcher.sh.in:2, "Pending installs and explicit recovery     *)
(* need the SD card; ordinary boots do not").                              *)
BootsWithoutCard ==
    kern # "torn" /\ ~Flash("pending") /\ ~Card("RESTORE")
        => \/ StartupWith(FALSE) = "runs prev" /\ All("prev")
           \/ StartupWith(FALSE) = "runs new" /\ All("new")

(* There is always a way forward that does not need a serial console: the  *)
(* camera starts with the card or without it, or U-Boot has an image to    *)
(* write, or the recovery directory can be used; or else the kernel is     *)
(* torn, which nothing on the card repairs.                                *)
NoDeadEnd ==
    \/ kern = "torn"
    \/ StartupWith(FALSE) # "stuck"
    \/ StartupWith(TRUE) # "stuck"
    \/ \E p \in Parts : img[p] # "prev" /\ Card("manifest")

(* For a torn kernel "UART may be needed" (RECOVERY.txt:42), and whoever   *)
(* puts the old one back has all of it and finds the camera as it was: the *)
(* partition is on the card twice, in the complete recovery directory and  *)
(* in the copy the script checked; the previous filesystems are still in   *)
(* place, no image of the new ones is staged and no journal is open        *)
(* (install.sh:194-212, 242-249, ensure_y623_ve_kernel.sh:78-101).         *)
TornKernelKept ==
    kern = "torn" => /\ Card("manifest") /\ Card("stockKernel")
                     /\ All("prev") /\ ~Flash("pending")
                     /\ \A p \in Parts : sd.trig[p] # "new"

(* With sound power and storage the kernel is torn only while it is        *)
(* written: the script reads it back before anything else.                 *)
TornWhileWritten == kern = "torn" => pc = "read kernel"

(* Once the journal is closed over the new images, only a RESTORE asked    *)
(* for by the owner takes the camera back (install.sh:137-149).            *)
KeepsCommitted ==
    (All("new") /\ ~Flash("pending") /\ ~Card("RESTORE") /\ pc # "restore")
        => (All("new") /\ Flash("dispatcher") /\ Flash("core") /\ ~Flash("pending"))'

CommittedStays == [][KeepsCommitted]_vars

(* The automatic reboots end: the camera comes to rest, running or         *)
(* waiting for its owner (install.sh:256-273).                             *)
NoRebootLoop == <>[](pc \in Rest)

(* With sound power and storage and whatever the bootloader does with the  *)
(* staged images, an installation ends with a camera that runs, except     *)
(* when the bootloader wrote one filesystem and not the other              *)
(* (install.sh:261-271).                                                   *)
EndsRunning == <>[](pc \in Running \/ (pc = "stuck" /\ img["rootfs"] # img["home"]))

(* README.txt:57, "the verified recovery path restores previous startup    *)
(* and reboots the camera": after an automatic restore the previous        *)
(* firmware starts, the card still being in.                               *)
AutomaticRestoreStarts ==
    Card("automatic") /\ ~Card("RESTORE") /\ All("prev") /\ pc \in {"off", "stuck"}
        => StartupWith(inserted) \in {"runs prev", "install"}

(* install.sh:148, "Flash-core images verified. Starting camera; keep SD   *)
(* inserted until startup finishes": after the journal is closed the       *)
(* camera starts with the card in.                                         *)
VerifiedStarts ==
    All("new") /\ ~Flash("pending") /\ ~Card("RESTORE") /\ Flash("dispatcher")
        => StartupWith(inserted) = "runs new"

(* RECOVERY.txt:12, a failure "before images were staged": "remove the SD  *)
(* card with power OFF and boot again".                                    *)
FailedBeforeStaging ==
    pc = "stuck" /\ ~Card("RESTORE") /\ All("prev") /\ (\A p \in Parts : sd.trig[p] = "none")
        => StartupWith(FALSE) \in Running

(* dispatcher.sh.in:41, "Restore only the explicitly reclaimed updater     *)
(* files": a restore leaves no updater component damaged.                  *)
ToolsIntact == \A t \in Tools : bk.tools[t] # "torn"
===============================================================================
