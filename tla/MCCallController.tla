------------------------- MODULE MCCallController -------------------------
(***************************************************************************)
(* Small instances of CallController for TLC: one HTTP client task, one or *)
(* two audio sockets and the three tasks of the gateway itself.            *)
(***************************************************************************)
EXTENDS CallController, TLC

CONSTANTS client, s1, s2, modem, poller, timeout

TwoSocketTasks == {client, s1, s2, modem, poller, timeout}
OneSocketTasks == {client, s1, modem, poller, timeout}

\* Bound: the service does not restart before its first call, which leads back
\* to an idle controller.
RestartMeetsCall == crashes = 0 \/ active # 0

CallSymmetry == Permutations({s1, s2}) \cup Permutations(Inst)
=============================================================================
