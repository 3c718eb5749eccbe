----------------------------- MODULE MCVmControl -----------------------------
(* Instances of VmControl for TLC.                                         *)
EXTENDS VmControl
CONSTANTS cMain, cPlain, cInline, cNone
MCClosures == {cMain, cPlain, cInline}
MCInline == {cInline}

(* Bounds of the part of the state space in which callcc was used: whole   *)
(* contexts are saved there.                                               *)
SmallWithContinuations ==
  /\ conts # <<>> =>
       /\ sp <= 4 /\ Len(frames) <= 2 /\ Len(handlers) <= 1
       /\ coro[cInline] = cNone
       /\ \A i \in 1..Len(frames) : frames[i].cl # cInline
  /\ Len(conts) > 1 => sp <= 3 /\ natives = <<>> /\ coro[cPlain] = cNone
=============================================================================
