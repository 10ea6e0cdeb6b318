------------------------------ MODULE MCPodCli -------------------------------
(* Values of the constants of PodCli for TLC.  Second and MaxInt are scaled *)
(* so that their ratio is Go's: (2 MaxInt + 2) / Second^2 is about 18.4.    *)
EXTENDS PodCli

AllCommands == Retrying \cup {"cert", "ws"}
AllBounds == {<<1, 2>>, <<1, 1>>, <<2, 1>>}
TwoAttempts == 0..1

Plain == {Target(r, 0) : r \in {"info", "version", "env", "headers", "swagger.json", "echo",
            "token", "validate", "ws", "unmatched", "metrics/healthz", "malformed"}}
Waits == {Target("delay", w) : w \in {0, 1, 2, 3, 31, 150, 2000}}
Chunks == {Target("chunked", w) : w \in {1, 31, 2000}}
Codes == {Target("status", c) : c \in {99, 100, 200, 302, 404, 500, 999, 1000, 2000}}
AllTargets == Plain \cup Waits \cup Chunks \cup Codes
=============================================================================
