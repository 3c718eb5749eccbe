------------------------------ MODULE MCForeach ------------------------------
(* Instances of Foreach for TLC: an array and an ordered hash of the same   *)
(* two elements.                                                            *)
EXTENDS Foreach
CONSTANTS cArray, cHash, eOne, eTwo, cNone
MCArrays == {cArray}
MCHashes == {cHash}
MCElements == {eOne, eTwo}
MCStarts == {<<eOne, eTwo>>}
=============================================================================
