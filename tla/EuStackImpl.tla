---------------------------- MODULE EuStackImpl ----------------------------
(***************************************************************************)
(* EuStack implements FrameStack: the frames are read back from the bytes  *)
(* of the block, the way eu_stack_run walks it.                            *)
(***************************************************************************)
EXTENDS EuStack, Sequences

Frames == [depth : 1 .. MaxDepth, kind : Kinds]
None == [depth |-> 0, kind |-> Garbage]

Saved(s, o) == [depth |-> s.stack[o].depth, kind |-> s.stack[o].kind]

\* The offsets at which frames start.
Starts(s, from, to) == {o \in from .. to - 1 : s.stack[o].ix = 0}

FramesIn(s, from, to) ==
    LET walk[o \in Starts(s, from, to) \cup {to}] ==
            IF o = to THEN <<>>
            ELSE <<Saved(s, o)>> \o walk[o + FrameSize(s.stack[o].kind)]
    IN  walk[from]

FreshFrames(s) == FramesIn(s, s.new_stack_bottom, s.new_stack_top)
BaseFrames(s) == FramesIn(s, s.old_stack_bottom, s.stack_area_size)

ScratchText == [i \in 1 .. st.scratch_size |-> st.stack[i - 1].kind]

Taken == IF pc = "resumed" /\ ~touched
         THEN [frame |-> Saved(st, f), fresh |-> fromNew]
         ELSE None

\* Freeing the block ends the abstract stack, which has no frames then.
Abstract == INSTANCE FrameStack WITH
                fresh <- FreshFrames(st),
                base  <- BaseFrames(st),
                text  <- ScratchText,
                taken <- Taken

\* The stack keeps FrameStack's promise: frames come back complete, in order
\* and with their contents, and nothing but a write changes the scratch text,
\* through every consolidation (stack.c:32-41, 144-150) and move to a bigger
\* block.
ImplementsFrameStack == Abstract!FSpec

\* Text from earlier chunks is still in front of what is appended to it,
\* wherever the block moved in between; only writing from the start of the
\* scratch area and resetting it lose text.
WriteFromStart == \E n \in 0 .. MaxChunk : \E m \in 0 .. n : ReserveAndWrite(0, n, m)

KeepsText == [][\/ ResetScratch \/ WriteFromStart
                \/ \A i \in DOMAIN ScratchText : /\ i \in DOMAIN ScratchText'
                                                 /\ ScratchText'[i] = ScratchText[i]
               ]_vars
=============================================================================
