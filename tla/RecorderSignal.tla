--------------------------- MODULE RecorderSignal ---------------------------
(***************************************************************************)
(* What motiond promises the recorder about one connection to the broker:  *)
(* the first message is STOP, which clears motion that an earlier process  *)
(* or connection may have left behind, and from then on START and STOP     *)
(* alternate.  A connection can be lost at any time.                       *)
(***************************************************************************)

VARIABLE link   (* the last message of this connection, "fresh" before the first *)

Init == link = "fresh"

Lose      == link' = "fresh"
SendStop  == link \in {"fresh", "START"} /\ link' = "STOP"
SendStart == link = "STOP" /\ link' = "START"

Next == Lose \/ SendStop \/ SendStart

Spec == Init /\ [][Next]_link
=============================================================================
