----------------------------- MODULE MCStorage -----------------------------
(* What survives a reboot: the installer (FlashInstall), the upgrade of a  *)
(* camera that runs from the card (WebUpgrade), the two homes of the       *)
(* configuration (FlashConfig), the requests that save and load it         *)
(* (ConfigWork) and the Wi-Fi credentials (WifiProvision).  They share no  *)
(* state, so part says which of them moves in a behaviour, and with which  *)
(* constants; the others rest.                                             *)
EXTENDS Naturals

CONSTANTS
    Tools, MaxAttempts, MaxLosses, MaxRestarts,  \* the installers
    ConfigRequests, r1, r2,  \* requests for a backup or a restore of the configuration
    Releases, Slots, MaxEdits, MaxBroken,  \* the upgrades whose steps fail
    CutSlots, CutTriggers, CutFresh, MaxCutEdits, MaxCutFaults,  \* the ones that are cut off
    Keys, MaxChanges, MaxKills, MaxStartCuts,  \* the two homes of the configuration
    Credentials, MaxProvisions, MaxPowerCuts, MaxFailures  \* Wi-Fi credentials

VARIABLES
    part,
    kind, kern, bk, sd, inserted, img, pc, ready, losses,
    cardIn, card, flash, boot, source, sync, todo, edits, faults,
    dir, pid, root, r, page,
    fs, init, initNew, kernel, mode, req, saved, broken,
    mtd, system, cfg, asked, backups, step, want, power, runs, cuts

\* Installation over the vendor's firmware, and a clean one, with every fault.
Vendor == INSTANCE FlashInstall WITH
    Kinds <- {"vendor"}, Kernels <- {"other", "stock", "patched", "unknown"},
    Tools <- Tools, MaxAttempts <- MaxAttempts, MaxLosses <- MaxLosses,
    Faults <- {"power", "io", "bootloader", "layout", "card", "restore"}
Clean == INSTANCE FlashInstall WITH
    Kinds <- {"clean"}, Kernels <- {"other", "stock", "patched", "unknown"},
    Tools <- Tools, MaxAttempts <- MaxAttempts, MaxLosses <- MaxLosses,
    Faults <- {"power", "io", "bootloader", "restore"}

\* Sound power and storage, and a bootloader that does what it likes.
Sound == INSTANCE FlashInstall WITH
    Kinds <- {"vendor"}, Kernels <- {"other", "stock", "patched"},
    Tools <- Tools, MaxAttempts <- MaxAttempts, MaxLosses <- MaxRestarts,
    Faults <- {"bootloader", "layout"}

\* Power cuts and kills after the first start of the camera, and also in it.
Config == INSTANCE FlashConfig WITH
    inserted <- cardIn, sd <- card, Main <- {"system", "camera"}, Others <- Keys, System <- "system",
    FirstBoot <- BOOLEAN, InitFaults <- FALSE, OldCard <- FALSE, MaxEdits <- MaxChanges, MaxFaults <- MaxKills
Cut == INSTANCE FlashConfig WITH
    inserted <- cardIn, sd <- card, Main <- {"system", "camera"}, Others <- Keys, System <- "system",
    FirstBoot <- BOOLEAN, InitFaults <- TRUE, OldCard <- FALSE, MaxEdits <- MaxChanges, MaxFaults <- MaxStartCuts

\* Requests that are told to end, and two that may also be killed.
Ended == INSTANCE ConfigWork WITH Requests <- ConfigRequests, Faults <- {"term", "late"}
Killed == INSTANCE ConfigWork WITH Requests <- {r1, r2}, Faults <- {"term", "kill"}

\* Steps that fail in repeated upgrades, and upgrades and installations cut off.
Upgrading == INSTANCE WebUpgrade WITH
    faults <- broken, Requests <- {r1}, Releases <- Releases, Slots <- Slots, Triggers <- {0}, Fresh <- {},
    Faults <- {"io"}, EditsAlways <- FALSE, MaxEdits <- MaxEdits, MaxFaults <- MaxBroken
CutUpgrade == INSTANCE WebUpgrade WITH
    faults <- broken, Requests <- {r1}, Releases <- Releases, Slots <- CutSlots,
    Triggers <- CutTriggers, Fresh <- CutFresh, Faults <- {"power", "term", "io", "restore"},
    EditsAlways <- FALSE, MaxEdits <- MaxCutEdits, MaxFaults <- MaxCutFaults

\* Credentials from the card with power cuts, and from the page too with failing writes.
FromCard == INSTANCE WifiProvision WITH
    pc <- step, faults <- cuts, Pairs <- Credentials, Sources <- {"card"}, Faults <- {"power"},
    MaxRuns <- MaxProvisions, MaxFaults <- MaxPowerCuts
FromPage == INSTANCE WifiProvision WITH
    pc <- step, faults <- cuts, Pairs <- Credentials, Sources <- {"card", "page"}, Faults <- {"power", "io"},
    MaxRuns <- MaxProvisions, MaxFaults <- MaxFailures

ASSUME FlashConstants == Vendor!FlashAssumption /\ Clean!FlashAssumption /\ Sound!FlashAssumption
ASSUME SettingsConstants == Config!ConfigAssumption /\ Cut!ConfigAssumption
ASSUME LockConstants == Ended!ConfigAssumption /\ Killed!ConfigAssumption
ASSUME UpgradeConstants == Upgrading!UpgradeAssumption /\ CutUpgrade!UpgradeAssumption
ASSUME WifiConstants == FromCard!ProvisionAssumption /\ FromPage!ProvisionAssumption

install == <<kind, kern, bk, sd, inserted, img, pc, ready, losses>>
config  == <<cardIn, card, flash, boot, source, sync, todo, edits, faults>>
request == <<dir, pid, root, r, page>>
upgrade == <<fs, init, initNew, kernel, mode, req, saved, broken>>
wifi    == <<mtd, system, cfg, asked, backups, step, want, power, runs, cuts>>
vars    == <<part, install, config, request, upgrade, wifi>>

Configuring == {"config", "cut"}
Requesting == {"ended", "killed"}
Parts == {"vendor", "clean", "sound"} \cup Configuring \cup Requesting \cup
         {"upgrade", "cutUpgrade", "fromCard", "fromPage"}

\* At rest: one initial state of the parts that do not move.
Init ==
    /\ part \in Parts
    /\ CASE part = "clean" -> Clean!Init
         [] part = "sound" -> Sound!Init
         [] OTHER -> Vendor!Init
    /\ part \notin {"vendor", "clean", "sound"} => kern = "other"
    /\ IF part = "cut" THEN Cut!Init ELSE Config!Init
    /\ part \notin Configuring => cardIn /\ flash["system"] = 1
    /\ IF part = "killed" THEN Killed!Init ELSE Ended!Init
    /\ part \notin Requesting => \A i \in DOMAIN page : page[i] = "save"
    /\ IF part = "cutUpgrade" THEN CutUpgrade!Init ELSE Upgrading!Init
    /\ FromCard!Init
    /\ part \notin {"fromCard", "fromPage"} => mtd = FromCard!Stored(1) /\ system = "router"

Next ==
    /\ UNCHANGED part
    /\ \/ /\ \/ part = "vendor" /\ Vendor!Next
             \/ part = "clean" /\ Clean!Next
             \/ part = "sound" /\ Sound!Next
          /\ UNCHANGED <<config, request, upgrade, wifi>>
       \/ /\ \/ part = "config" /\ Config!Next
             \/ part = "cut" /\ Cut!Next
          /\ UNCHANGED <<install, request, upgrade, wifi>>
       \/ /\ \/ part = "ended" /\ Ended!Next
             \/ part = "killed" /\ Killed!Next
          /\ UNCHANGED <<install, config, upgrade, wifi>>
       \/ /\ \/ part = "upgrade" /\ Upgrading!Next
             \/ part = "cutUpgrade" /\ CutUpgrade!Next
          /\ UNCHANGED <<install, config, request, wifi>>
       \/ /\ \/ part = "fromCard" /\ FromCard!Next
             \/ part = "fromPage" /\ FromPage!Next
          /\ UNCHANGED <<install, config, request, upgrade>>

\* Scripts run on once started, and the camera starts again after a power cut.
Spec ==
    /\ Init /\ [][Next]_vars
    /\ WF_install(part = "clean" /\ Clean!Machine)
    /\ WF_install(part = "sound" /\ Sound!Machine)
    /\ WF_config(part = "config" /\ Config!Boot)
    /\ WF_config(part = "config" /\ Config!Syncing)
    /\ \A i \in ConfigRequests : WF_request(part = "ended" /\ Ended!Step(i))
    /\ WF_upgrade(part = "cutUpgrade" /\ CutUpgrade!Start)
    /\ WF_upgrade(part = "upgrade" /\ Upgrading!Upgrade(r1))
    /\ WF_wifi(part = "fromCard" /\ FromCard!Run)
    /\ WF_wifi(part = "fromCard" /\ FromCard!PowerOn)

-----------------------------------------------------------------------------
(* What is checked, each where its module states and explains it.          *)

\* Type correctness.
TypeOK ==
    /\ part = "vendor" => Vendor!TypeOK
    /\ part = "config" => Config!TypeOK
    /\ part = "cutUpgrade" => CutUpgrade!TypeOK
    /\ part = "fromPage" => FromPage!TypeOK

(* Whenever power is lost, what is left can be started or taken back: a    *)
(* startup never runs on the filesystems of the other firmware, nothing is *)
(* changed before its backup is complete, and an installation over the     *)
(* vendor's firmware that is not open starts without the card, or else has *)
(* a way forward without a serial console.  The one exception is a y623    *)
(* whose kernel is torn: it does not start again.  That takes a loss of    *)
(* power or a failing flash while its stock kernel is overwritten, and     *)
(* leaves all of the old kernel on the card and all else as it was.        *)
AlwaysRecoverable ==
    /\ Vendor!StartupMatchesImages
    /\ Vendor!BackedUp
    /\ Vendor!TornKernelKept
    /\ part = "sound" => Vendor!TornWhileWritten
    /\ part = "vendor" => Vendor!BootsWithoutCard /\ Vendor!NoDeadEnd

\* Only a RESTORE of the owner takes back an installation that has closed its journal.
CommittedStays == [][Vendor!KeepsCommitted]_vars

(* The upgrade of a camera that runs from the card: one that fails is      *)
(* undone and one that finishes starts, with the settings that were saved; *)
(* and wherever power is lost or a signal arrives, the card holds the tree *)
(* that the bootstrap wants.                                               *)
UpgradeSafe ==
    /\ part = "upgrade" => Upgrading!UpgradeUndone /\ Upgrading!WantedOnCard
    /\ part = "cutUpgrade" => CutUpgrade!WantedOnCard

Starting   == part = "cutUpgrade" /\ mode \in {"off"} \cup CutUpgrade!Installer
Started    == part = "cutUpgrade" => mode \in {"on", "stuck", "dead"}
Requested  == part = "upgrade" /\ req[r1].pc # "idle"
Answered   == part = "upgrade" => req[r1].pc = "idle"

Waiting == part = "fromCard" /\ cfg = "there"
Applied == part = "fromCard" => cfg \in {"applied", "rejected"}

(* What was begun ends: the automatic reboots of the installers, with      *)
(* sound power and storage in a camera that runs; a request for an         *)
(* upgrade, or for other credentials; the hold of the configuration lock;  *)
(* and with the card left in, the copy of its configuration to the flash.  *)
WorkEnds ==
    /\ part \in {"clean", "sound"} => Vendor!NoRebootLoop
    /\ part = "sound" => Sound!EndsRunning
    /\ Starting ~> Started
    /\ Requested ~> Answered
    /\ part = "ended" => Ended!LockReturned
    /\ part = "config" => Config!FallbackFollows
    /\ Waiting ~> Applied

Whole == part = "config" => Config!UsedIsWhole /\ Config!FallbackWhole

(* With starts that are not cut off, the configuration in use and the      *)
(* fallback in the flash are whole, and a setting of the owner in the      *)
(* flash gives way only to a whole version of it; and whatever start is    *)
(* cut off, never to the defaults of the image, but then what the card     *)
(* holds, which it also gives way to, may be torn or missing.              *)
SettingsKept ==
    /\ []Whole
    /\ [][part = "config" => Config!GivesWayToWhole]_vars
    /\ Cut!NoSilentDefaults

(* Of two configuration requests, none removes the staging directory of    *)
(* one at work, killed or not; and without kills, a lock that nobody holds *)
(* can be recognised as such.                                              *)
LockSound ==
    /\ part = "killed" => Killed!StagingIsOwn
    /\ part = "ended" => Ended!LockRecoverable

Reached == part = "fromCard" => FromCard!AlwaysReached

(* Whatever power cuts leave of a request on the card, the camera that has *)
(* started is reached; credentials are given up only with a copy of them   *)
(* on the card, and the hotspot only for whole credentials.                *)
CredentialsKept ==
    /\ []Reached
    /\ FromPage!CredentialsSaved
    /\ FromPage!RouterHasCredentials
===============================================================================
