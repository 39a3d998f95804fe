------------------------ MODULE MCInstrumentServers ------------------------
(* InstrumentServers with a few clients; connections of one kind differ    *)
(* only by name.                                                           *)
EXTENDS InstrumentServers, TLC

ConnSymmetry == Permutations(RawConns) \cup Permutations(VxiConns)
=============================================================================
