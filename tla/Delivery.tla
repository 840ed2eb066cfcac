------------------------------ MODULE Delivery ------------------------------
(***************************************************************************)
(* What the assembler promises whoever runs it: one source in, one output  *)
(* out, and an exit status to be believed when it is 0.                    *)
(***************************************************************************)
EXTENDS Naturals

CONSTANT Running

VARIABLES
  source,       \* "unread", then "good" or "bad"
  output,       \* the output file: "untouched", "open" or "closed"
  total,        \* entries there are to write
  delivered,    \* entries dealt with so far
  sealed,       \* whether the file was completed
  status        \* the exit status, Running before

vars == <<source, output, total, delivered, sealed, status>>

Init ==
  /\ source = "unread" /\ output = "untouched"
  /\ total = 0 /\ delivered = 0 /\ sealed = FALSE
  /\ status = Running

\* Reading may end the program by itself.
Read ==
  /\ source = "unread"
  /\ source' \in {"good", "bad"}
  /\ status' \in {Running, 1}
  /\ UNCHANGED <<output, total, delivered, sealed>>

GiveUp ==
  /\ source # "unread" /\ output = "untouched"
  /\ status = Running /\ status' = 1
  /\ UNCHANGED <<source, output, total, delivered, sealed>>

Open ==
  /\ source = "good" /\ output = "untouched" /\ status = Running
  /\ output' = "open"
  /\ total' \in Nat
  /\ UNCHANGED <<source, delivered, sealed, status>>

Deliver ==
  /\ output = "open" /\ ~sealed /\ delivered < total
  /\ delivered' = delivered + 1
  /\ UNCHANGED <<source, output, total, sealed, status>>

Seal ==
  /\ output = "open" /\ ~sealed
  /\ sealed' = TRUE
  /\ UNCHANGED <<source, output, total, delivered, status>>

\* Success may be claimed for a sealed file with everything in it, and need not be.
Close ==
  /\ output = "open" /\ output' = "closed"
  /\ status' \in IF sealed /\ delivered = total THEN {0, 1} ELSE {1}
  /\ UNCHANGED <<source, total, delivered, sealed>>

Next == Read \/ GiveUp \/ Open \/ Deliver \/ Seal \/ Close

Spec == Init /\ [][Next]_vars
=============================================================================
