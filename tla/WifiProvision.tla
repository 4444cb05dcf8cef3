---------------------------- MODULE WifiProvision ----------------------------
(***************************************************************************)
(* configure_wifi.sh: router credentials in the vendor's provisioning      *)
(* partition and the choice between router and hotspot in system.conf,     *)
(* written for a file on the card (by the bootstrap, before the network    *)
(* starts) or for the Wi-Fi page.  At the end of a start, boot_request of  *)
(* hotspot.sh decides how the camera is reached.                           *)
(***************************************************************************)
EXTENDS Naturals

CONSTANTS
    Pairs,    \* pairs of SSID and key, as positive numbers
    Sources,  \* "card", "page"
    Faults,   \* "power", "io"
    MaxRuns, MaxFaults  \* bounds

ProvisionAssumption ==
    /\ Pairs \subseteq Nat \ {0} /\ 1 \in Pairs /\ Sources \subseteq {"card", "page"}
    /\ Faults \subseteq {"power", "io"} /\ MaxRuns \in Nat /\ MaxFaults \in Nat

VARIABLES
    mtd,      \* the fields of the partition: ssid, key and whether the flag is clear
    system,   \* WIFI_HOTSPOT_BOOT: "hotspot" or "router"
    cfg,      \* configure_wifi.cfg on the card: "none", "there", "applied" or "rejected"
    asked,    \* what it asks for: a pair, or 0 for the hotspot
    backups,  \* the copies of the partition on the card
    pc,       \* the step of configure_wifi.sh
    want,     \* what this run writes, as asked
    power,    \* "off", "boot" (before the network) or "up"
    runs, faults  \* bounds

vars == <<mtd, system, cfg, asked, backups, pc, want, power, runs, faults>>

Blank == 0
Field == [value : Pairs \cup {Blank}, cut : BOOLEAN]  \* cut: it was being written
Holds(p) == [value |-> p, cut |-> FALSE]
Stored(p) == [ssid |-> Holds(p), key |-> Holds(p), clear |-> TRUE]

TypeOK ==
    /\ mtd \in [ssid : Field, key : Field, clear : BOOLEAN]
    /\ backups \subseteq [ssid : Field, key : Field, clear : BOOLEAN]
    /\ system \in {"hotspot", "router"}
    /\ cfg \in {"none", "there", "applied", "rejected"} /\ asked \in Pairs \cup {0}
    /\ pc \in {"idle", "stage", "compare", "backup", "zeroSsid", "zeroKey", "ssid", "key", "flag",
               "verify", "settings", "fail", "ok"}
    /\ want \in Pairs \cup {0} /\ power \in {"off", "boot", "up"}
    /\ runs \in 0..MaxRuns /\ faults \in 0..MaxFaults

\* A camera with saved credentials, or one that was never provisioned.
Init ==
    /\ mtd \in {Stored(1), [ssid |-> Holds(Blank), key |-> Holds(Blank), clear |-> FALSE]}
    /\ system \in {"hotspot", "router"}
    /\ cfg = "none" /\ asked = 0 /\ backups = {} /\ pc = "idle" /\ want = 0
    /\ power = "off" /\ runs = 0 /\ faults = 0

Fault(f) ==
    /\ f \in Faults /\ faults < MaxFaults
    /\ faults' = faults + 1

-----------------------------------------------------------------------------
\* The owner puts a request on the card of a camera that is switched off.
PutFile(p) ==
    /\ "card" \in Sources /\ power = "off" /\ cfg # "there" /\ runs < MaxRuns
    /\ cfg' = "there" /\ asked' = p /\ runs' = runs + 1
    /\ UNCHANGED <<mtd, system, backups, pc, want, power, faults>>

PowerOn ==
    /\ power = "off"
    /\ power' = "boot"
    /\ IF cfg = "there" THEN pc' = "stage" /\ want' = asked ELSE UNCHANGED <<pc, want>>
    /\ UNCHANGED <<mtd, system, cfg, asked, backups, runs, faults>>

\* The Wi-Fi page saves router credentials.
SavePage(p) ==
    /\ "page" \in Sources /\ power = "up" /\ pc = "idle" /\ runs < MaxRuns
    /\ pc' = "stage" /\ want' = p /\ runs' = runs + 1
    /\ UNCHANGED <<mtd, system, cfg, asked, backups, power, faults>>

Go(step) == pc' = step

\* Parsing and the staged copy of system.conf; an invalid file fails here.
Stage ==
    /\ pc = "stage"
    /\ Go(IF want = 0 THEN "settings" ELSE "compare")
    /\ UNCHANGED <<mtd, system, cfg, asked, backups, want, power, runs, faults>>

Compare ==
    /\ pc = "compare"
    /\ Go(IF mtd = Stored(want) THEN "settings" ELSE "backup")
    /\ UNCHANGED <<mtd, system, cfg, asked, backups, want, power, runs, faults>>

\* MUTANT: a copy that is there is taken for the one to make.
BackupOnce ==
    /\ pc = "backup"
    /\ backups' = (IF backups = {} THEN {mtd} ELSE backups) /\ Go("zeroSsid")
    /\ UNCHANGED <<mtd, system, cfg, asked, want, power, runs, faults>>

Backup ==
    /\ pc = "backup"
    /\ backups' = backups \cup {mtd} /\ Go("zeroSsid")
    /\ UNCHANGED <<mtd, system, cfg, asked, want, power, runs, faults>>

Zero ==
    /\ \/ pc = "zeroSsid" /\ mtd' = [mtd EXCEPT !.ssid = Holds(Blank)] /\ Go("zeroKey")
       \/ pc = "zeroKey" /\ mtd' = [mtd EXCEPT !.key = Holds(Blank)] /\ Go("ssid")
    /\ UNCHANGED <<system, cfg, asked, backups, want, power, runs, faults>>

Write ==
    /\ \/ pc = "ssid" /\ mtd' = [mtd EXCEPT !.ssid = Holds(want)] /\ Go("key")
       \/ pc = "key" /\ mtd' = [mtd EXCEPT !.key = Holds(want)] /\ Go("flag")
       \/ pc = "flag" /\ mtd' = [mtd EXCEPT !.clear = TRUE] /\ Go("verify")
    /\ UNCHANGED <<system, cfg, asked, backups, want, power, runs, faults>>

Verify ==
    /\ pc = "verify"
    /\ Go(IF mtd = Stored(want) THEN "settings" ELSE "fail")
    /\ UNCHANGED <<mtd, system, cfg, asked, backups, want, power, runs, faults>>

InstallSettings ==
    /\ pc = "settings"
    /\ system' = IF want = 0 THEN "hotspot" ELSE "router"
    /\ Go("ok")
    /\ UNCHANGED <<mtd, cfg, asked, backups, want, power, runs, faults>>

\* What a write that fails, or is cut off, leaves of the field at hand.
Interrupted ==
    mtd' \in {mtd} \cup
             (IF pc \in {"zeroSsid", "ssid"} THEN {[mtd EXCEPT !.ssid.cut = TRUE]} ELSE {}) \cup
             (IF pc \in {"zeroKey", "key"} THEN {[mtd EXCEPT !.key.cut = TRUE]} ELSE {})

StepFails ==
    /\ pc \notin {"idle", "fail", "ok"} /\ Fault("io")
    /\ Interrupted /\ Go("fail")
    /\ UNCHANGED <<system, cfg, asked, backups, want, power, runs>>

\* The bootstrap renames the file by the outcome; the page only reports it.
End ==
    /\ pc \in {"fail", "ok"}
    /\ cfg' = IF power = "boot" THEN (IF pc = "ok" THEN "applied" ELSE "rejected") ELSE cfg
    /\ Go("idle")
    /\ UNCHANGED <<mtd, system, asked, backups, want, power, runs, faults>>

NetworkStarts ==
    /\ power = "boot" /\ pc = "idle"
    /\ power' = "up"
    /\ UNCHANGED <<mtd, system, cfg, asked, backups, pc, want, runs, faults>>

SwitchOff ==
    /\ power = "up" /\ pc = "idle"
    /\ power' = "off"
    /\ UNCHANGED <<mtd, system, cfg, asked, backups, pc, want, runs, faults>>

PowerLoss ==
    /\ power # "off" /\ pc # "idle" /\ Fault("power")
    /\ Interrupted
    /\ power' = "off" /\ pc' = "idle"
    /\ UNCHANGED <<system, cfg, asked, backups, want, runs>>

Run == Stage \/ Compare \/ Backup \/ Zero \/ Write \/ Verify \/ InstallSettings \/ End \/ NetworkStarts

Next ==
    \/ PowerOn \/ Run \/ StepFails \/ SwitchOff \/ PowerLoss
    \/ \E p \in Pairs \cup {0} : PutFile(p)
    \/ \E p \in Pairs : SavePage(p)

Spec == Init /\ [][Next]_vars /\ WF_vars(Run) /\ WF_vars(PowerOn)

-----------------------------------------------------------------------------
Whole(m) == \E p \in Pairs : m = Stored(p)

\* boot_request: an empty key and no request on the card start the hotspot.
Reached ==
    \/ system = "hotspot"
    \/ mtd.key = Holds(Blank) /\ cfg # "there"
    \/ Whole(mtd)

(* Whatever a power cut leaves of a request on the card, the camera that   *)
(* has started is reached: by the hotspot, or with whole credentials.      *)
AlwaysReached == power = "up" /\ pc = "idle" => Reached

(* Whole credentials are given up only once a copy of them is on the card  *)
(* (configure_wifi.sh:193: "Preserve the complete partition before the     *)
(* first write").                                                          *)
CredentialsSaved == [][Whole(mtd) /\ ~Whole(mtd') => mtd \in backups']_vars

\* A camera that starts as a hotspot is turned to the router only with whole credentials.
RouterHasCredentials == [][system = "hotspot" /\ system' = "router" => Whole(mtd')]_vars

\* A request on the card is consumed, also when starts are cut off.
RequestConsumed == (cfg = "there") ~> (cfg \in {"applied", "rejected"})
=============================================================================
