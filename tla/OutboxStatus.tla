---------------------------- MODULE OutboxStatus ----------------------------
(* The states of an outbox message (outbox/outbox-interfaces.ts).          *)

Absent     == "ABSENT"      \* not saved yet
Pending    == "PENDING"
Processing == "PROCESSING"
Processed  == "PROCESSED"
Failed     == "FAILED"

StoredStatus == {Pending, Processing, Processed, Failed}
Status       == {Absent} \cup StoredStatus

=============================================================================
