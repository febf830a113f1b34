---------------------------- MODULE MCSharedSigner ----------------------------
(* Small instances of SharedSigner for TLC. *)
EXTENDS SharedSigner

BoardAndMaintenance == {"board", "maint"}
BoardAndGlobal == {"board", "global"}
EarnOnly == {"earn"}
BoardAndEarn == {"board", "earn"}

===============================================================================
