----------------------------- MODULE FrameStack -----------------------------
(***************************************************************************)
(* What lib/stack.c promises its clients: two sequences of frames, those   *)
(* of the last pause and those of earlier ones, and a scratch text.  No    *)
(* memory, no sizes: a frame that is on the stack stays there until it is  *)
(* popped, one that was popped can be put back as long as nothing else is  *)
(* done, and only the client changes the text.                             *)
(***************************************************************************)
EXTENDS Naturals, Sequences

CONSTANTS Frames, Chars, None

VARIABLES
    fresh,      \* the frames of the last pause, innermost first
    base,       \* the frames of earlier pauses, innermost first
    text,       \* the scratch text
    taken       \* the frame popped last, and whether it was a fresh one

fvars == <<fresh, base, text, taken>>

FInit == /\ fresh = <<>>
         /\ base \in {<<fr>> : fr \in Frames}
         /\ text = <<>>
         /\ taken = None

\* eu_stack_begin_pause: the new frames become old ones.
Consolidated == fresh' = <<>> /\ base' = fresh \o base

BeginSave == Consolidated /\ taken' = None /\ UNCHANGED text

Save == /\ \E fr \in Frames : fresh' = Append(fresh, fr)
        /\ taken' = None
        /\ UNCHANGED <<base, text>>

\* The innermost frame is popped: a fresh one before any other.
TakeFresh == /\ fresh # <<>>
             /\ fresh' = Tail(fresh)
             /\ taken' \in {None, [frame |-> Head(fresh), fresh |-> TRUE]}
             /\ UNCHANGED <<base, text>>

TakeBase == /\ fresh = <<>> /\ base # <<>>
            /\ base' = Tail(base)
            /\ taken' \in {None, [frame |-> Head(base), fresh |-> FALSE]}
            /\ UNCHANGED <<fresh, text>>

\* ... and put back where it was, or done with.
PutBack == /\ taken # None
           /\ IF taken.fresh
              THEN fresh' = <<taken.frame>> \o fresh /\ UNCHANGED base
              ELSE base' = <<taken.frame>> \o base /\ UNCHANGED fresh
           /\ taken' = None
           /\ UNCHANGED text

Finish == taken' = None /\ UNCHANGED <<fresh, base, text>>

\* Making room for text may take the new frames to the old ones, and does no
\* more to the frames.
Write == /\ UNCHANGED <<fresh, base>> \/ Consolidated
         /\ text' \in Seq(Chars)
         /\ taken' = None

ClearText == text' = <<>> /\ UNCHANGED <<fresh, base, taken>>

FNext == \/ BeginSave \/ Save \/ TakeFresh \/ TakeBase \/ PutBack \/ Finish
         \/ Write \/ ClearText

FSpec == FInit /\ [][FNext]_fvars
=============================================================================
