-------------------------------- MODULE MCHeap --------------------------------
(* An instance of Heap for TLC: the table of globals, a closure, whose     *)
(* scope stands for every other container, and two addresses for strings   *)
(* of one text.                                                            *)
EXTENDS Heap
CONSTANTS oGlobals, oClosure, oString, oCopy, tText
MCObjects == {oGlobals, oClosure, oString, oCopy}
MCStrings == {oString, oCopy}
MCClosures == {oClosure}
MCText == [s \in MCStrings |-> tText]
=============================================================================
