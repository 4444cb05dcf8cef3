----------------------------- MODULE MCWifiRadio -----------------------------
(* Small instances of WifiRadio for TLC. *)
EXTENDS WifiRadio, TLC

(* Every combination of recovery mode, hotspot password and router profile,
   and the default camera: hotspot recovery, a password, provisioned. *)
AllConfigs == [mode : Modes, password : {"set", "unset"}, primary : {"saved", "empty"}]
DefaultConfig == {[mode |-> "hotspot", password |-> "set", primary |-> "saved"]}

(* The slots of the worker processes are interchangeable. *)
WorkerSymmetry == Permutations(Workers)
=============================================================================
