----------------------------- MODULE FlashConfig -----------------------------
(***************************************************************************)
(* The two homes of the configuration of a flash-core camera: the card     *)
(* (/tmp/sd/yi-hack-config) when there is one, the internal flash          *)
(* (/backup/yi-hack-config) otherwise.  At boot flash_storage_init chooses *)
(* one and fills an empty one; flash_config_sync.sh copies the card's to   *)
(* the flash and retires there what the card does not have.                *)
(***************************************************************************)
EXTENDS Naturals, FiniteSets

CONSTANTS
    Main,       \* system.conf and camera.conf, in this order of the checks
    Others,     \* the other settings and the SSH keys
    System,     \* system.conf
    FirstBoot,  \* which cameras are considered: TRUE for one that never ran
    InitFaults, \* the first copy to a card or to the flash may be interrupted
    OldCard,    \* the card holds a configuration of an SD installation
    MaxEdits, MaxFaults  \* bounds

Files == Main \cup Others

ConfigAssumption ==
    /\ System \in Main /\ FirstBoot \subseteq BOOLEAN /\ InitFaults \in BOOLEAN /\ OldCard \in BOOLEAN
    /\ MaxEdits \in Nat /\ MaxFaults \in Nat

VARIABLES
    inserted,  \* a card is in the camera
    sd,        \* the card's configuration: a version of every file
    flash,     \* the configuration in the internal flash
    boot,      \* how far the boot is; "run" when the camera runs
    source,    \* the directory bound over etc: "sd" or "flash"
    sync,      \* flash_config_sync.sh: "idle", "copy" or "retire"
    todo,      \* the files a copy in progress has not reached
    edits, faults  \* bounds

vars == <<inserted, sd, flash, boot, source, sync, todo, edits, faults>>

Missing == 0
Torn == MaxEdits + 2            \* part of a file, not empty; versions are 1..MaxEdits + 1
Versions == 1..MaxEdits + 1
Contents == 0..MaxEdits + 2

TypeOK ==
    /\ inserted \in BOOLEAN
    /\ sd \in [Files -> Contents] /\ flash \in [Files -> Contents]
    /\ boot \in {"off", "defaults", "prepare", "fill", "run"}
    /\ source \in {"sd", "flash"} /\ sync \in {"idle", "copy", "retire"}
    /\ todo \subseteq Files
    /\ edits \in 0..MaxEdits /\ faults \in 0..MaxFaults

Init ==
    /\ inserted \in BOOLEAN
    /\ sd = [f \in Files |-> Missing]
    /\ \E new \in FirstBoot : flash = [f \in Files |-> IF new THEN Missing ELSE 1]
    /\ boot = "off" /\ source = "flash"
    /\ sync = "idle" /\ todo = {}
    /\ edits = 0 /\ faults = 0

-----------------------------------------------------------------------------
(* flash_storage_init                                                      *)
MoveCard ==
    /\ boot = "off" /\ faults < MaxFaults
    /\ inserted' = ~inserted
    /\ faults' = faults + 1
    /\ UNCHANGED <<sd, flash, boot, source, sync, todo, edits>>

\* MUTANT: any file that is missing makes it a new camera.
PowerOnAnyMissing ==
    /\ boot = "off"
    /\ IF \E f \in Files : flash[f] = Missing THEN boot' = "defaults" /\ todo' = Files
       ELSE boot' = "prepare" /\ UNCHANGED todo
    /\ UNCHANGED <<inserted, sd, flash, source, sync, edits, faults>>

PowerOn ==
    /\ boot = "off"
    /\ IF flash[System] = Missing THEN boot' = "defaults" /\ todo' = Files
       ELSE boot' = "prepare" /\ UNCHANGED todo
    /\ UNCHANGED <<inserted, sd, flash, source, sync, edits, faults>>

\* cp -a of the defaults of the image, file by file.
CopyDefault(f) ==
    /\ boot = "defaults" /\ f \in todo
    /\ flash' = [flash EXCEPT ![f] = 1]
    /\ todo' = todo \ {f}
    /\ boot' = IF todo' = {} THEN "prepare" ELSE boot
    /\ UNCHANGED <<inserted, sd, source, sync, edits, faults>>

Bind(where) ==
    /\ source' = where
    /\ boot' = "run"

\* No card, a card that does not mount or cannot be written, or an initialized one.
Prepare ==
    /\ boot = "prepare"
    /\ \/ ~inserted /\ Bind("flash") /\ UNCHANGED <<todo, faults>>
       \/ /\ inserted /\ faults < MaxFaults
          /\ faults' = faults + 1
          /\ Bind("flash") /\ UNCHANGED todo
       \/ inserted /\ sd[System] # Missing /\ Bind("sd") /\ UNCHANGED <<todo, faults>>
       \/ inserted /\ sd[System] = Missing /\ boot' = "fill" /\ todo' = Files /\ UNCHANGED <<source, faults>>
    /\ UNCHANGED <<inserted, sd, flash, sync, edits>>

\* cp -a of the old card's configuration, or of the flash's.
Fill(f) ==
    /\ boot = "fill" /\ f \in todo
    /\ sd' = [sd EXCEPT ![f] = IF OldCard THEN 1 ELSE flash[f]]
    /\ todo' = todo \ {f}
    /\ IF todo' = {} THEN Bind("sd") ELSE UNCHANGED <<boot, source>>
    /\ UNCHANGED <<inserted, flash, sync, edits, faults>>

\* The guard ends --prepare-sd after 8 seconds: the card is unmounted.
FillKilled(f) ==
    /\ boot = "fill" /\ f \in todo /\ InitFaults /\ faults < MaxFaults
    /\ sd' \in {sd, [sd EXCEPT ![f] = Torn]}
    /\ todo' = {} /\ faults' = faults + 1
    /\ Bind("flash")
    /\ UNCHANGED <<inserted, flash, sync, edits>>

-----------------------------------------------------------------------------
(* flash_config_sync.sh, at boot and every half minute.                    *)
Etc == IF source = "sd" THEN sd ELSE flash

SyncStarts ==
    /\ boot = "run" /\ sync = "idle" /\ source = "sd"
    /\ \A f \in Main : sd[f] # Missing
    /\ sync' = "copy" /\ todo' = Files
    /\ UNCHANGED <<inserted, sd, flash, boot, source, edits, faults>>

\* cp to *.new and mv: the whole version that the card has now.
SyncCopy(f) ==
    /\ sync = "copy" /\ f \in todo
    /\ flash' = IF sd[f] = Missing THEN flash ELSE [flash EXCEPT ![f] = sd[f]]
    /\ IF todo = {f} THEN sync' = "retire" /\ todo' = Files
       ELSE todo' = todo \ {f} /\ UNCHANGED sync
    /\ UNCHANGED <<inserted, sd, boot, source, edits, faults>>

SyncRetire(f) ==
    /\ sync = "retire" /\ f \in todo
    /\ flash' = IF sd[f] = Missing THEN [flash EXCEPT ![f] = Missing] ELSE flash
    /\ todo' = todo \ {f}
    /\ sync' = IF todo' = {} THEN "idle" ELSE sync
    /\ UNCHANGED <<inserted, sd, boot, source, edits, faults>>

\* The guard ends it after 5 seconds, or the set is over a limit.
SyncKilled ==
    /\ sync # "idle" /\ faults < MaxFaults
    /\ sync' = "idle" /\ todo' = {}
    /\ faults' = faults + 1
    /\ UNCHANGED <<inserted, sd, flash, boot, source, edits>>

-----------------------------------------------------------------------------
\* The owner saves a setting; the pages replace the file.
Edit(f) ==
    /\ boot = "run" /\ edits < MaxEdits /\ Etc[f] # Missing
    /\ edits' = edits + 1
    /\ IF source = "sd"
       THEN sd' = [sd EXCEPT ![f] = edits' + 1] /\ UNCHANGED flash
       ELSE flash' = [flash EXCEPT ![f] = edits' + 1] /\ UNCHANGED sd
    /\ UNCHANGED <<inserted, boot, source, sync, todo, faults>>

\* Power is lost; what cp was writing in place is torn.
PowerLoss ==
    /\ boot # "off" /\ faults < MaxFaults
    /\ boot \in {"defaults", "fill"} => InitFaults
    /\ sd' \in {sd} \cup {[sd EXCEPT ![f] = Torn] : f \in IF boot = "fill" THEN todo ELSE {}}
    /\ flash' \in {flash} \cup {[flash EXCEPT ![f] = Torn] : f \in IF boot = "defaults" THEN todo ELSE {}}
    /\ boot' = "off" /\ source' = "flash" /\ sync' = "idle" /\ todo' = {}
    /\ faults' = faults + 1
    /\ UNCHANGED <<inserted, edits>>

-----------------------------------------------------------------------------
Boot == PowerOn \/ Prepare \/ \E f \in Files : CopyDefault(f) \/ Fill(f)
Syncing == SyncStarts \/ \E f \in Files : SyncCopy(f) \/ SyncRetire(f)

Next ==
    \/ Boot \/ Syncing \/ SyncKilled \/ MoveCard \/ PowerLoss
    \/ \E f \in Files : Edit(f) \/ FillKilled(f)

Spec == Init /\ [][Next]_vars /\ WF_vars(Boot) /\ WF_vars(Syncing)

-----------------------------------------------------------------------------
Configured == boot = "run"

(* FLASH_CORE.md:77, "An empty FAT32 card is initialized from the saved    *)
(* internal settings": a camera that runs has every setting, whole, on the *)
(* card or in the flash, whatever was cut off before.                      *)
WholeSomewhere ==
    Configured => \A f \in Files : sd[f] \in Versions \/ flash[f] \in Versions

(* The configuration bound over etc is whole, whichever home it came from  *)
(* and whatever interrupted the copies between the two (flash_storage.sh:  *)
(* 48).                                                                    *)
UsedIsWhole == Configured => \A f \in Files : Etc[f] \in Versions

(* FLASH_CORE.md:84, "Each file is replaced atomically": the fallback      *)
(* never holds a part of a file.                                           *)
FallbackWhole == Configured => \A f \in Files : flash[f] # Torn

\* A version of the owner in the flash is replaced.
Replaced(f) == flash[f] \in Versions \ {1} /\ flash'[f] # flash[f]

(* A setting the owner changed is replaced in the flash by a newer edit or *)
(* by what the card holds, never by the defaults of the image: a start     *)
(* that was cut off does not make the camera a new one (flash_storage.sh:  *)
(* 35-37).  What the card holds may be older; and after a first fill that  *)
(* was cut off it may be a part of the file, or nothing, and the setting   *)
(* is lost.                                                                *)
NoSilentDefaults ==
    [][\A f \in Files : Replaced(f) => flash'[f] = sd[f] \/ flash'[f] = edits' + 1]_vars

(* With starts that are not cut off, it is replaced only by a whole        *)
(* version: the copies to the flash, killed or not, neither tear it nor    *)
(* retire it (flash_config_sync.sh).                                       *)
GivesWayToWhole == \A f \in Files : Replaced(f) => flash'[f] \in Versions

(* With the card left in, the fallback becomes the card's configuration    *)
(* (flash_config_sync.sh; wd.sh:462).                                      *)
FallbackFollows ==
    (source = "sd" /\ boot = "run") ~> (flash = sd \/ boot # "run")
===============================================================================
