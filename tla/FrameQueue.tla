----------------------------- MODULE FrameQueue -----------------------------
(***************************************************************************)
(* What a frame queue promises: frames leave in the order in which they    *)
(* came, each once, and never more than Depth wait.  The queue may be      *)
(* emptied as a whole.                                                     *)
(***************************************************************************)
EXTENDS Naturals, Sequences

CONSTANTS Frame, NoFrame, Depth

VARIABLES
  frames,   \* the frames that wait, the oldest first
  taken     \* the frame that the consumer has got and not used yet

fvars == <<frames, taken>>

Init == frames = <<>> /\ taken = NoFrame

Put ==
  /\ Len(frames) < Depth
  /\ \E f \in Frame : frames' = Append(frames, f)
  /\ UNCHANGED taken

Take ==
  /\ frames # <<>> /\ taken = NoFrame
  /\ taken' = Head(frames)
  /\ frames' = Tail(frames)

Use == taken' = NoFrame /\ UNCHANGED frames

Clear == frames' = <<>> /\ UNCHANGED taken

Next == Put \/ Take \/ Use \/ Clear

Spec == Init /\ [][Next]_fvars
=============================================================================
