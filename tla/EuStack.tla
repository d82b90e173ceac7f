------------------------------ MODULE EuStack ------------------------------
(***************************************************************************)
(* The continuation stack of lib/stack.c: one malloc'ed block that holds   *)
(*                                                                         *)
(*   0 ... scratch_size        text that was split across input chunks     *)
(*   new_stack_bottom ... top  frames of the pause made last ("new")       *)
(*   old_stack_bottom ... end  frames of earlier pauses       ("old")      *)
(*                                                                         *)
(* A parser that runs out of input saves itself in a frame and returns     *)
(* EU_PAUSED; the parsers that called it do the same, innermost first.     *)
(* eu_stack_run pops the frames, innermost first, when input arrives.      *)
(*                                                                         *)
(* The block is modelled byte by byte, so that a frame or a scratch byte   *)
(* that a move of memory overwrites is really lost.                        *)
(***************************************************************************)
EXTENDS Integers

CONSTANTS
    WordSize,       \* sizeof(void *)
    Kinds,          \* the frame types
    Size,           \* Size[k] = sizeof the frame struct of kind k
    InitialKind,    \* the frame eu_stack_init makes room for
    Chars,          \* the bytes of scratch text
    Garbage,        \* what an uninitialized byte holds
    MallocFails,    \* may the mallocs that enlarge the block fail?
    MaxDepth,       \* bound: nested parsers
    MaxArea,        \* bound: bytes in the block
    MaxScratch,     \* bound: bytes of scratch text
    MaxChunk        \* bound: bytes one call adds to the scratch text

ASSUME WordSizeAssumption == WordSize \in Nat \ {0}
ASSUME KindsAssumption == /\ InitialKind \in Kinds
                          /\ Size \in [Kinds -> Nat \ {0}]
                          /\ Chars \cap Kinds = {}
                          /\ Garbage \notin Kinds \cup Chars
\* A struct that starts with struct eu_stack_frame is a multiple of its
\* alignment, so the first block is.
ASSUME InitialSizeAssumption == Size[InitialKind] % WordSize = 0
ASSUME BoundsAssumption == /\ MaxDepth \in Nat \ {0} /\ MaxArea \in Nat
                           /\ MaxScratch \in Nat /\ MaxChunk \in Nat
ASSUME MallocAssumption == MallocFails \in BOOLEAN

-----------------------------------------------------------------------------
(***************************************************************************)
(* Memory.  A byte of a frame says which frame it belongs to (the nesting  *)
(* depth of the parser that saved it, and its kind) and its place in it; a *)
(* byte of text has depth 0.                                               *)
(***************************************************************************)
FrameByte(d, k, i) == [depth |-> d, kind |-> k, ix |-> i]
TextByte(c) == [depth |-> 0, kind |-> c, ix |-> 0]
Junk == [depth |-> 0, kind |-> Garbage, ix |-> 0]

Byte == [depth : Nat, kind : Kinds \cup Chars \cup {Garbage}, ix : Nat]

\* Mutant of RoundUp: the mask alone.
RoundedDown(n) == ((n - 1) \div WordSize) * WordSize

\* ROUND_UP: & -sizeof(void *) rounds n - 1 down to a multiple.
RoundUp(n) == ((n - 1) \div WordSize) * WordSize + WordSize

\* f->size, as eu_stack_alloc and eu_stack_init set it.
FrameSize(k) == RoundUp(Size[k])

\* memcpy / memmove of n bytes into mem, and a block fresh from malloc.
Copy(mem, to, src, from, n) ==
    [o \in DOMAIN mem |-> IF o \in to .. to + n - 1 THEN src[o - to + from]
                                                    ELSE mem[o]]
Malloc(n) == [o \in 0 .. n - 1 |-> Junk]

-----------------------------------------------------------------------------
(***************************************************************************)
(* struct eu_stack and the operations on it.  Each takes the fields before *)
(* the call to the fields after it.                                        *)
(***************************************************************************)
Fields(mem, scratch, nb, nt, ob, area) ==
    [stack |-> mem, scratch_size |-> scratch,
     new_stack_bottom |-> nb, new_stack_top |-> nt,
     old_stack_bottom |-> ob, stack_area_size |-> area]

NewEmpty(s) == s.new_stack_bottom = s.new_stack_top

\* Mutant of OldEmpty: the loops run while bottom <= size.
OldEmptyPast(s) == s.old_stack_bottom > s.stack_area_size

OldEmpty(s) == s.old_stack_bottom = s.stack_area_size

\* Mutants of BeginPause: it does nothing; it forgets the scratch text.
NoConsolidation(s) == s
BeginPauseOverText(s) ==
    LET n  == s.new_stack_top - s.new_stack_bottom
        ob == s.old_stack_bottom - n
    IN  Fields(Copy(s.stack, ob, s.stack, s.new_stack_bottom, n),
               s.scratch_size, 0, 0, ob, s.stack_area_size)

\* eu_stack_begin_pause: put the new frames that are left in front of the old.
BeginPause(s) ==
    LET n  == s.new_stack_top - s.new_stack_bottom
        ob == s.old_stack_bottom - n
        b  == RoundUp(s.scratch_size)
    IN  Fields(Copy(s.stack, ob, s.stack, s.new_stack_bottom, n),
               s.scratch_size, b, b, ob, s.stack_area_size)

\* do { area *= 2; } while (area < min): the size the loops stop at.
PowersOfTwo == {p \in 2 .. MaxArea : \A d \in 3 .. p : p % d = 0 => d % 2 = 0}

Doubled(area, min) ==
    {area * p : p \in {q \in PowersOfTwo : /\ area * q \in min .. MaxArea
                                           /\ q > 2 => area * (q \div 2) < min}}

\* The gap between new and old frames of a block of a bytes, made wider.
Widened(s, a) ==
    LET old == s.stack_area_size - s.old_stack_bottom
        low == Copy(Malloc(a), 0, s.stack, 0, s.new_stack_top)
    IN  Fields(Copy(low, a - old, s.stack, s.old_stack_bottom, old),
               s.scratch_size, s.new_stack_bottom, s.new_stack_top,
               a - old, a)

AllocFits(s, k) == s.new_stack_top + FrameSize(k) <= s.old_stack_bottom

\* The block eu_stack_alloc puts the frame in.
RoomFor(s, k) ==
    IF AllocFits(s, k)
    THEN {s}
    ELSE LET old == s.stack_area_size - s.old_stack_bottom
         IN  {Widened(s, a) : a \in Doubled(s.stack_area_size,
                                    s.new_stack_top + FrameSize(k) + old)}

\* The frame itself, which its owner fills in.
Push(s, d, k) ==
    LET nt  == s.new_stack_top
        end == nt + FrameSize(k)
    IN  Fields([o \in DOMAIN s.stack |-> IF o \in nt .. end - 1
                                         THEN FrameByte(d, k, o - nt)
                                         ELSE s.stack[o]],
               s.scratch_size, s.new_stack_bottom, end,
               s.old_stack_bottom, s.stack_area_size)

-----------------------------------------------------------------------------
(***************************************************************************)
(* eu_stack_reserve_scratch(n): room for n bytes of scratch text.          *)
(***************************************************************************)
NewSize(s) == s.new_stack_top - s.new_stack_bottom

\* Mutant of HasRoom: the wrong end of the new frames.
HasRoomBelowTop(s, n) == IF NewEmpty(s) THEN n <= s.old_stack_bottom
                                        ELSE n <= s.new_stack_top

HasRoom(s, n) == IF NewEmpty(s) THEN n <= s.old_stack_bottom
                                ELSE n <= s.new_stack_bottom
ConsolidatingHelps(s, n) == ~NewEmpty(s) /\ n <= s.old_stack_bottom - NewSize(s)

\* All frames go to the end of the new block; the scratch text is kept.
MovedUp(s, a) ==
    LET old == s.stack_area_size - s.old_stack_bottom
        ob  == a - old
        nb  == ob - NewSize(s)
        m1  == Copy(Malloc(a), 0, s.stack, 0, s.scratch_size)
        m2  == Copy(m1, ob, s.stack, s.old_stack_bottom, old)
        m3  == Copy(m2, nb, s.stack, s.new_stack_bottom, NewSize(s))
    IN  Fields(m3, s.scratch_size, nb, ob, ob, a)

ReserveSize(s, n) ==
    RoundUp(n) + NewSize(s) + (s.stack_area_size - s.old_stack_bottom)

Reserve(s, n) ==
    CASE HasRoom(s, n) -> {s}
      [] ~HasRoom(s, n) /\ ConsolidatingHelps(s, n) -> {BeginPause(s)}
      [] OTHER -> {MovedUp(s, a) : a \in Doubled(s.stack_area_size,
                                                 ReserveSize(s, n))}

\* Mutant of WriteText: = for +=.
WriteTextForgetting(s, keep, n, m, c) ==
    Fields([o \in DOMAIN s.stack |-> IF o \in keep .. keep + n - 1
                                     THEN TextByte(c) ELSE s.stack[o]],
           m, s.new_stack_bottom, s.new_stack_top,
           s.old_stack_bottom, s.stack_area_size)

\* memcpy n bytes of text behind the first keep bytes of scratch, of which
\* the first m are made part of the scratch text.
WriteText(s, keep, n, m, c) ==
    Fields([o \in DOMAIN s.stack |-> IF o \in keep .. keep + n - 1
                                     THEN TextByte(c) ELSE s.stack[o]],
           keep + m, s.new_stack_bottom, s.new_stack_top,
           s.old_stack_bottom, s.stack_area_size)

\* The growth loop has run when malloc says no: the size is doubled, the
\* block is not.
Overstated(s, min) ==
    {[s EXCEPT !.stack_area_size = a] : a \in Doubled(s.stack_area_size, min)}

-----------------------------------------------------------------------------
(***************************************************************************)
(* The stack in use.  The parsers on the C stack have nesting depths       *)
(* lo .. hi: lo is that of the frame eu_stack_run resumed, the others were *)
(* called from it.  The frames on the stack should be those of depths      *)
(* 1 .. top.                                                               *)
(***************************************************************************)
VARIABLES
    st,         \* struct eu_stack
    pc,         \* where the client is, see States
    lo, hi,     \* depths of the parsers on the C stack; in eu_stack_fini,
                \* of the frame destroyed last
    top,        \* depth of the innermost frame on the stack
    f,          \* eu_stack_run's f: the offset of the frame it popped last
    fromNew,    \* and the loop that popped it
    touched     \* has the resumed parser changed the layout of the stack?

vars == <<st, pc, lo, hi, top, f, fromNew, touched>>

States == {"waiting",   \* between calls of eu_parse
           "running",   \* at the head of a loop of eu_stack_run
           "resumed",   \* in a frame's resume function
           "pausing",   \* the parsers save themselves, innermost first
           "failed",    \* a parser returned EU_ERROR
           "fini",      \* in eu_stack_fini
           "freed"}

Init ==
    LET n == Size[InitialKind]
    IN  /\ st = Fields([o \in 0 .. n - 1 |-> FrameByte(1, InitialKind, o)],
                       0, 0, 0, 0, n)
        /\ pc = "waiting"
        /\ lo = 0 /\ hi = 0 /\ top = 1
        /\ f = 0 /\ fromNew = FALSE /\ touched = FALSE

\* Nobody may rely on what the bytes of no region hold between two calls.
InRegion(s, o) == \/ o < s.scratch_size
                  \/ o >= s.new_stack_bottom /\ o < s.new_stack_top
                  \/ o >= s.old_stack_bottom
Forgotten(s) == [s EXCEPT !.stack = [o \in DOMAIN s.stack |->
                    IF InRegion(s, o) THEN s.stack[o] ELSE Junk]]

\* eu_parse, eu_generate: enter eu_stack_run.
Run == /\ pc = "waiting"
       /\ st' = Forgotten(st)
       /\ pc' = "running"
       /\ lo' = 0 /\ hi' = 0 /\ f' = 0 /\ fromNew' = FALSE /\ touched' = FALSE
       /\ UNCHANGED top

\* The frame at offset o leaves the stack: its size moves the bottom up.
\* Reading a frame where there is none is undefined: the model stops.
PopFrom(isNew) ==
    LET o    == IF isNew THEN st.new_stack_bottom ELSE st.old_stack_bottom
        size == FrameSize(st.stack[o].kind)
    IN  /\ IF isNew THEN ~NewEmpty(st) ELSE NewEmpty(st) /\ ~OldEmpty(st)
        /\ o \in DOMAIN st.stack /\ st.stack[o].kind \in Kinds
        /\ st' = IF isNew THEN [st EXCEPT !.new_stack_bottom = o + size]
                          ELSE [st EXCEPT !.old_stack_bottom = o + size]
        /\ f' = o /\ fromNew' = isNew
        /\ lo' = st.stack[o].depth /\ hi' = st.stack[o].depth
        /\ top' = top - 1

Pop == /\ pc = "running"
       /\ \E isNew \in BOOLEAN : PopFrom(isNew)
       /\ pc' = "resumed"
       /\ touched' = FALSE

\* Both loops of eu_stack_run are through: EU_OK.
RunEnds == /\ pc = "running" /\ NewEmpty(st) /\ OldEmpty(st)
           /\ pc' = "waiting"
           /\ UNCHANGED <<st, lo, hi, top, f, fromNew, touched>>

\* A resumed parser calls a parser of its own, or one returns EU_OK.
Nest == /\ pc = "resumed" /\ hi < MaxDepth
        /\ hi' = hi + 1
        /\ UNCHANGED <<st, pc, lo, top, f, fromNew, touched>>

ReturnOk == /\ pc = "resumed"
            /\ IF hi > lo THEN hi' = hi - 1 /\ pc' = pc
                          ELSE hi' = hi /\ pc' = "running"
            /\ UNCHANGED <<st, lo, top, f, fromNew, touched>>

ReturnError == /\ pc = "resumed"
               /\ pc' = "failed"
               /\ UNCHANGED <<st, lo, hi, top, f, fromNew, touched>>

\* Mutant of Reinstated: the frame always counts as an old one.
ReinstatedAsOld(s) ==
    [s EXCEPT !.old_stack_bottom = @ - FrameSize(s.stack[f].kind)]

\* EU_REINSTATE_PAUSED: eu_stack_run puts the frame it popped back.  A
\* parser that may have moved the stack does not ask for it.
Reinstated(s) == IF fromNew THEN [s EXCEPT !.new_stack_bottom =
                                      @ - FrameSize(s.stack[f].kind)]
                            ELSE [s EXCEPT !.old_stack_bottom =
                                      @ - FrameSize(s.stack[f].kind)]

ReturnReinstate == /\ pc = "resumed" /\ hi = lo /\ ~touched
                   /\ st' = Reinstated(st)
                   /\ top' = top + 1
                   /\ pc' = "waiting"
                   /\ UNCHANGED <<lo, hi, f, fromNew, touched>>

-----------------------------------------------------------------------------
(***************************************************************************)
(* Scratch text, as the resumed parser uses it.                            *)
(***************************************************************************)
\* Reserve n bytes in all, write those behind the first keep bytes, make m
\* of the bytes written scratch text.
ReserveAndWrite(keep, n, m) ==
    /\ pc = "resumed"
    /\ keep + n <= MaxScratch
    /\ \E s \in Reserve(st, keep + n), c \in Chars :
          st' = WriteText(s, keep, n, m, c)
    /\ touched' = TRUE
    /\ UNCHANGED <<pc, lo, hi, top, f, fromNew>>

\* Text that the parser of a number left behind is overwritten.
SetScratch == \E n \in 0 .. MaxChunk : ReserveAndWrite(0, n, n)
AppendScratch == \E n \in 0 .. MaxChunk : ReserveAndWrite(st.scratch_size, n, n)
\* eu_stack_reserve_scratch or eu_stack_reserve_more_scratch, then as much of
\* it as unescaping needs, then eu_stack_set_scratch_end.
UnescapeIntoScratch == \E keep \in {0, st.scratch_size}, n \in 0 .. MaxChunk :
                          \E m \in 0 .. n : ReserveAndWrite(keep, n, m)

ResetScratch == /\ pc = "resumed"
                /\ st' = [st EXCEPT !.scratch_size = 0]
                /\ UNCHANGED <<pc, lo, hi, top, f, fromNew, touched>>

ReserveFails == /\ MallocFails /\ pc = "resumed"
                /\ \E n \in 0 .. MaxScratch :
                      /\ ~HasRoom(st, n) /\ ~ConsolidatingHelps(st, n)
                      /\ st' \in Overstated(st, ReserveSize(st, n))
                /\ pc' = "failed"
                /\ UNCHANGED <<lo, hi, top, f, fromNew, touched>>

-----------------------------------------------------------------------------
(***************************************************************************)
(* Pausing: the innermost parser calls eu_stack_begin_pause, then it and   *)
(* each parser it returns EU_PAUSED to calls eu_stack_alloc.               *)
(***************************************************************************)
StartPause == /\ pc = "resumed"
              /\ st' = BeginPause(st)
              /\ pc' = "pausing"
              /\ top' = hi
              /\ UNCHANGED <<lo, hi, f, fromNew, touched>>

Alloc == /\ pc = "pausing"
         /\ \E k \in Kinds \ {InitialKind} : \E s \in RoomFor(st, k) :
               st' = Push(s, hi, k)
         /\ hi' = hi - 1
         /\ pc' = IF hi = lo THEN "waiting" ELSE "pausing"
         /\ UNCHANGED <<lo, top, f, fromNew, touched>>

AllocFails == /\ MallocFails /\ pc = "pausing"
              /\ \E k \in Kinds \ {InitialKind} :
                    /\ ~AllocFits(st, k)
                    /\ st' \in Overstated(st, st.new_stack_top + FrameSize(k)
                                 + (st.stack_area_size - st.old_stack_bottom))
              /\ pc' = "failed"
              /\ UNCHANGED <<lo, hi, top, f, fromNew, touched>>

-----------------------------------------------------------------------------
(***************************************************************************)
(* eu_stack_fini: destroy the frames that are left, innermost first.       *)
(***************************************************************************)
Fini == /\ pc \in {"waiting", "failed"}
        /\ pc' = "fini"
        /\ lo' = top + 1 /\ hi' = top + 1    \* nothing is destroyed yet
        /\ UNCHANGED <<st, top, f, fromNew, touched>>

Destroy == /\ pc = "fini"
           /\ \E isNew \in BOOLEAN : PopFrom(isNew)
           /\ UNCHANGED <<pc, touched>>

Free == /\ pc = "fini" /\ NewEmpty(st) /\ OldEmpty(st)
        /\ pc' = "freed"
        /\ UNCHANGED <<st, lo, hi, top, f, fromNew, touched>>

Freed == pc = "freed" /\ UNCHANGED vars

Next == \/ Run \/ Pop \/ RunEnds
        \/ Nest \/ ReturnOk \/ ReturnError \/ ReturnReinstate
        \/ SetScratch \/ AppendScratch \/ UnescapeIntoScratch \/ ResetScratch
        \/ ReserveFails
        \/ StartPause \/ Alloc \/ AllocFails
        \/ Fini \/ Destroy \/ Free \/ Freed

Spec == Init /\ [][Next]_vars

\* eu_stack_fini is one call, which runs to its end.
FairSpec == Spec /\ WF_vars(Destroy) /\ WF_vars(Free)

-----------------------------------------------------------------------------
(***************************************************************************)
(* Correctness.                                                            *)
(***************************************************************************)
StackTypeOK(s) ==
    /\ s = Fields(s.stack, s.scratch_size, s.new_stack_bottom,
                  s.new_stack_top, s.old_stack_bottom, s.stack_area_size)
    /\ s.stack \in [DOMAIN s.stack -> Byte]
    /\ s.scratch_size \in Nat
    /\ s.new_stack_bottom \in Nat /\ s.new_stack_top \in Nat
    /\ s.old_stack_bottom \in Nat /\ s.stack_area_size \in Nat

\* Every variable has its type.
TypeOK == /\ StackTypeOK(st)
          /\ pc \in States
          /\ lo \in Nat /\ hi \in Nat /\ top \in Nat
          /\ f \in Nat /\ fromNew \in BOOLEAN /\ touched \in BOOLEAN

\* The regions of the block do not overlap, and the frames are aligned
\* (stack.c:8, the reason for ROUND_UP).
Layout(s) ==
    /\ DOMAIN s.stack = 0 .. s.stack_area_size - 1
    /\ s.new_stack_bottom <= s.new_stack_top
    /\ s.new_stack_top <= s.old_stack_bottom
    /\ s.old_stack_bottom <= s.stack_area_size
    /\ s.scratch_size <= IF NewEmpty(s) THEN s.old_stack_bottom
                                        ELSE s.new_stack_bottom
    /\ \A p \in {s.new_stack_bottom, s.new_stack_top,
                 s.old_stack_bottom, s.stack_area_size} : p % WordSize = 0

\* Byte o belongs to a frame that lies within from .. to - 1, of which every
\* byte is in its place.
End(s, o) == o - s.stack[o].ix + FrameSize(s.stack[o].kind)

InFrame(s, from, to, o) ==
    LET b == s.stack[o]
    IN  /\ b.kind \in Kinds
        /\ from <= o - b.ix /\ o < End(s, o) /\ End(s, o) <= to
        /\ \A i \in 0 .. FrameSize(b.kind) - 1 :
              s.stack[o - b.ix + i] = FrameByte(b.depth, b.kind, i)

Framed(s, from, to) == \A o \in from .. to - 1 : InFrame(s, from, to, o)

\* The frames were saved by the parsers of depths first, ..., last + 1.
NextDepth(s, to, last, o) ==
    IF End(s, o) = to THEN last ELSE s.stack[End(s, o)].depth

Descending(s, from, to, first, last) ==
    /\ from = to => first = last
    /\ from < to => s.stack[from].depth = first
    /\ \A o \in from .. to - 1 :
          s.stack[o].depth = 1 + NextDepth(s, to, last, o)

\* The old frames are those of depths below ..., the new ones those above.
Holds(s, t, mid, bottom) ==
    /\ Framed(s, s.new_stack_bottom, s.new_stack_top)
    /\ Framed(s, s.old_stack_bottom, s.stack_area_size)
    /\ Descending(s, s.new_stack_bottom, s.new_stack_top, t, mid)
    /\ Descending(s, s.old_stack_bottom, s.stack_area_size, bottom, 0)

OldDepth(s) == IF OldEmpty(s) THEN 0 ELSE s.stack[s.old_stack_bottom].depth

Intact(s, t) == Layout(s) /\ Holds(s, t, OldDepth(s), OldDepth(s))

\* The stack holds the frames of all paused parsers, each complete and the
\* innermost first, whatever was consolidated, moved to a bigger block or
\* written as scratch text; while the parsers save themselves it holds those
\* saved so far above those paused before.
FramesIntact ==
    /\ pc = "pausing" => /\ Layout(st) /\ lo >= 1 /\ hi >= lo
                         /\ st.scratch_size <= st.new_stack_bottom
                         /\ Holds(st, top, hi, lo - 1)
    /\ pc \notin {"pausing", "freed"} => Intact(st, top)

\* The frame eu_stack_run resumes is that of the innermost paused parser: its
\* caller in the parse finds it done when it is resumed itself.
ResumesInnermost ==
    pc = "resumed" => lo = top + 1 /\ hi >= lo

\* EU_REINSTATE_PAUSED really puts back the frame that was popped.
CanReinstate ==
    pc = "resumed" /\ ~touched =>
        /\ Intact(Reinstated(st), top + 1)
        /\ f = IF fromNew THEN Reinstated(st).new_stack_bottom
                          ELSE Reinstated(st).old_stack_bottom

\* The scratch text is text: no frame was ever put over it.
ScratchIsText ==
    \A o \in 0 .. st.scratch_size - 1 :
        o \in DOMAIN st.stack /\ st.stack[o].kind \in Chars

\* eu_stack_run and eu_stack_fini never look for a frame outside the block.
ReadsInBlock ==
    pc \in {"running", "fini"} =>
        /\ ~NewEmpty(st) => st.new_stack_bottom \in DOMAIN st.stack
        /\ NewEmpty(st) /\ ~OldEmpty(st) => st.old_stack_bottom \in DOMAIN st.stack

\* eu_stack_fini destroys the frame of a nested parser before that of its
\* parent, and none twice, even when a malloc failed halfway through a pause
\* (stack.c:237-242).
DestroysInnermostFirst == [][Destroy => lo' < lo]_vars

\* eu_stack_fini ends: it gets to the end of both regions exactly.
FiniEnds == pc = "fini" ~> pc = "freed"
=============================================================================
