--------------------------- MODULE MCRequestLedger ---------------------------
(* Instances of RequestLedger for TLC.                                      *)
EXTENDS RequestLedger, TLC

CONSTANTS o1, o2, r1, r2, k1, k2, k3

(* One streamed request and one that is not, of the same limited client.    *)
MCOwner == {o1, o2}
MCRequest == {r1, r2}
MCStreamed == {r1}
MCBuffered == {r2}
MCKey == {k1, k2}
MCRotatedKeys == {k1, k2, k3}
KeySymmetry == Permutations(Key)
MCOne == {r1}
MCNone == {}

(* A bound of the large instance: one of the two requests is sent, whichever. *)
OneIsSent == \E r \in Request : handler[r].pc = "idle"

(* Only OpenVault reads the lock, and only for a process that has yet to    *)
(* start: states that differ in a lock nobody will read are one.            *)
UsedState == <<proc, lease, lapsed, watchdog, tables, handler,
               IF "unborn" \in {proc[o] : o \in Owner} THEN lock ELSE NoOwner>>

AllFaults == FaultKinds
ErrorsAndSessions == {"error", "session"}
Lapses == {"lapse"}
LostAnswers == {"lost"}
=============================================================================
