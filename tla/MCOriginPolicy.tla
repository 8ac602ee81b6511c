---------------------------- MODULE MCOriginPolicy ----------------------------
(* Instances of OriginPolicy for TLC: every list of at most two parts.     *)
EXTENDS OriginPolicy

MCScheme == {"http", "https"}
MCHost == {"localhost", "127.0.0.1", "app"}
MCPort == {"", "8080"}
MCEnvironments == UNION {[1..n -> Text] : n \in 0..2}
=============================================================================
