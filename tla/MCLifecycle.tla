---------------------------- MODULE MCLifecycle ----------------------------
(* Values of the constants of Lifecycle for TLC.                           *)
EXTENDS Lifecycle

HttpOnly == {"http"}
HttpAndHttps == {"http", "https"}
HttpAndGrpc == {"http", "grpc"}

WorkOnly == {"work"}
WorkAndEnable == {"work", "enable"}
=============================================================================
