------------------------------ MODULE MCStartup ------------------------------
(* Analytics.tla from the start of its constructor on, with MCAnalytics's   *)
(* values, for TLC.                                                         *)
EXTENDS MCAnalytics, Startup

MCThreads == Permutations(Threads)

=============================================================================
