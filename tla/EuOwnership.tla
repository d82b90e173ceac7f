---------------------------- MODULE EuOwnership ----------------------------
(***************************************************************************)
(* Who owns which block of memory: what the parsers of struct.c, array.c,  *)
(* string.c and variant.c allocate for a document, how a pause hands it to *)
(* the frames, what an error or eu_parse_destroy releases, what the client *)
(* claims with eu_parse_finish, and what it then does with it.             *)
(*                                                                         *)
(* Memory is a function from the live blocks to sequences of cells; a      *)
(* cell is a pointer with the length and capacity that go with it, behind  *)
(* the metadata pointer of a variant.  The input is left out: a parser may *)
(* at any time meet anything that may follow (EuParse models what may).    *)
(***************************************************************************)
EXTENDS Integers, Sequences, FiniteSets, TLC

S == INSTANCE SequencesExt

CONSTANTS
    Types,           \* the types of the schema, and those a variant may have
    Kind,            \* Kind[t]: scalar, string, array, struct, structptr, variant
    Members,         \* Members[t]: the types of a struct's members
    Element,         \* Element[t]: of the elements, or of the extra members
    Tags,            \* the types a variant may take
    RootTypes,       \* the types of the values the client parses
    InitialCapacity, \* elements and members that are first made room for
    Repeats,         \* may a member occur twice in an object?
    MaxLen,          \* bound: elements of an array, extra members
    MaxDepth,        \* bound: nested parsers
    MaxBlocks        \* bound: mallocs

CONSTANT None

AllKinds == {"scalar", "string", "array", "struct", "structptr", "variant"}

\* Cells of a value: an inline struct has one for each member, and the extras.
Width(t) == IF Kind[t] = "struct" THEN Len(Members[t]) + 1 ELSE 1

ASSUME TypesAssumption ==
    /\ None \notin Types \cup (Nat \X Nat)
    /\ Kind \in [Types -> AllKinds]
    /\ Members \in [Types -> Seq(Types)] /\ Element \in [Types -> Types]
    /\ \A t \in Types : \A i \in DOMAIN Members[t] : Width(Members[t][i]) = 1
    /\ Tags \subseteq {t \in Types : Kind[t] # "variant" /\ Width(t) = 1}
    /\ RootTypes \subseteq Types
ASSUME SizeAssumption == /\ InitialCapacity \in Nat \ {0}
                         /\ MaxLen \in Nat /\ MaxDepth \in Nat
                         /\ MaxBlocks \in Nat \ {0}
                         /\ Repeats \in BOOLEAN

VARIABLES
    mem,        \* the live blocks
    used,       \* blocks allocated so far: their addresses are 1 .. used
    calls,      \* the parsers on the C stack, innermost first
    frames,     \* the frames on the continuation stack, innermost first
    phase,
    root,       \* the type of the value
    claimed,    \* is the value the client's?
    held,       \* the variant of it that the client has at hand
    work,       \* what the releasing functions still have to do
    fault,      \* a wild read, or a free of what malloc did not return
    dropped     \* an error path forgot a block (Owning, Forgotten)

ownVars == <<mem, used, calls, frames, phase, root, claimed, held, work, fault,
             dropped>>

Phases == {"between",    \* calls of eu_parse
           "running",    \* at the head of the loop of eu_stack_run
           "parsing",    \* in the innermost of calls
           "unwinding",  \* calls return EU_ERROR, innermost first
           "failed",     \* ep->error
           "releasing",  \* in eu_parse_destroy, or a fini function
           "gone"}       \* the parse is destroyed

-----------------------------------------------------------------------------
(***************************************************************************)
(* Cells, and the pointers in them.                                        *)
(***************************************************************************)
Null == 0
ZeroLengthPtr == -1         \* EU_ZERO_LENGTH_PTR
Junk == -2                  \* the bits of a number

Client == 1                 \* the block of the client's variable

Cell(tag, p, len, cap) == [tag |-> tag, p |-> p, len |-> len, cap |-> cap]
Cleared == Cell(None, Null, 0, 0)
Zeroed(n) == [i \in 1 .. n |-> Cleared]

Address(b, i) == <<b, i>>
Live == DOMAIN mem
Valid(a) == a[1] \in Live /\ a[2] \in DOMAIN mem[a[1]]
At(a) == mem[a[1]][a[2]]

\* mem with cell a written; malloc, free and realloc of a block.
Put(m, a, c) == [m EXCEPT ![a[1]][a[2]] = c]
With(m, b, cells) == [x \in DOMAIN m \cup {b} |-> IF x = b THEN cells ELSE m[x]]
Without(m, b) == [x \in DOMAIN m \ {b} |-> m[x]]
Fresh == used + 1
CanAllocate == used < MaxBlocks

\* Mutant of Moved: malloc for realloc.
MovedCopy(m, b, new, n) == With(m, new, m[b] \o Zeroed(n - Len(m[b])))

Moved(m, b, new, n) == With(Without(m, b), new, m[b] \o Zeroed(n - Len(m[b])))

\* The cell of elements i of an array, of the name and the value of extra i.
ElementAt(t, b, i) == Address(b, (i - 1) * Width(Element[t]) + 1)
EntryWidth(t) == 1 + Width(Element[t])
NameAt(t, b, i) == Address(b, (i - 1) * EntryWidth(t) + 1)
ValueAt(t, b, i) == Address(b, (i - 1) * EntryWidth(t) + 2)

StructWidth(t) == Len(Members[t]) + 1
Extras(t, a) == Address(a[1], a[2] + Len(Members[t]))

-----------------------------------------------------------------------------
(***************************************************************************)
(* Parsers.                                                                *)
(***************************************************************************)
\* The function; the type and the address of its value; the pointer to the
\* struct, if it was allocated; the state; len and capacity of an array; the
\* buffer of a string; the members met so far; the member to parse next.
Parser(fn, t, a, st) ==
    [fn |-> fn, type |-> t, at |-> a, ptr |-> None, st |-> st, len |-> 0,
     cap |-> 0, buf |-> Null, seen |-> {}, child |-> None, childAt |-> None]

Top == Head(calls)
Inside(fn) == phase = "parsing" /\ Top.fn = fn
In(fn, st) == Inside(fn) /\ Top.st = st

Keep == UNCHANGED <<frames, root, claimed, held, work, fault>>
KeepMemory == UNCHANGED <<mem, used, dropped>>

GoOn(act) == calls' = <<act>> \o Tail(calls) /\ Keep /\ UNCHANGED phase
Call(act, t, a) == /\ Len(calls) + Len(frames) < MaxDepth
                   /\ calls' = <<Parser("value", t, a, "start"), act>> \o Tail(calls)
                   /\ Keep /\ UNCHANGED phase

\* return EU_OK: to the caller, or to eu_stack_run.
Return == /\ calls' = Tail(calls)
          /\ phase' = IF Tail(calls) = <<>> THEN "running" ELSE phase
          /\ Keep

\* goto error
Fail == phase' = "unwinding" /\ UNCHANGED calls /\ Keep

\* malloc gives a block of n cells; m is the memory with the pointer to it.
Allocate(m, n) == /\ CanAllocate
                  /\ mem' = With(m, Fresh, Zeroed(n)) /\ used' = Fresh
                  /\ UNCHANGED dropped

Pointer(a, b) == Put(mem, a, [At(a) EXCEPT !.p = b])

-----------------------------------------------------------------------------
(***************************************************************************)
(* Where a value starts: initial_parse_resume, the start of each parse     *)
(* function, and variant_parse, which writes the metadata pointer first.   *)
(***************************************************************************)
\* The memory is now m, and the value at Top.at of type t.
BeginScalar(t, m) ==
    /\ Kind[t] = "scalar" /\ Return /\ UNCHANGED <<used, dropped>>
    /\ mem' = IF m[Top.at[1]][Top.at[2]].tag = None THEN m
              ELSE Put(m, Top.at, [m[Top.at[1]][Top.at[2]] EXCEPT !.p = Junk])

BeginString(t, m) ==
    /\ Kind[t] = "string" /\ GoOn(Parser("string", t, Top.at, "text"))
    /\ mem' = m /\ UNCHANGED <<used, dropped>>

BeginArray(t, m) ==
    /\ Kind[t] = "array"
    /\ GoOn([Parser("array", t, Top.at, "open") EXCEPT !.cap = InitialCapacity])
    /\ mem' = m /\ UNCHANGED <<used, dropped>>

BeginStruct(t, m) ==
    /\ Kind[t] = "struct" /\ GoOn(Parser("struct", t, Top.at, "open"))
    /\ mem' = m /\ UNCHANGED <<used, dropped>>

\* struct_ptr_parse
BeginStructPtr(t) ==
    /\ Kind[t] = "structptr"
    /\ \/ /\ Allocate(Pointer(Top.at, Fresh), StructWidth(t))
          /\ GoOn([Parser("struct", t, Address(Fresh, 1), "open")
                   EXCEPT !.ptr = Top.at])
       \/ Fail /\ mem' = Pointer(Top.at, Null) /\ UNCHANGED <<used, dropped>>

Begin(t, m) == \/ BeginScalar(t, m)
               \/ BeginString(t, m)
               \/ BeginArray(t, m)
               \/ BeginStruct(t, m)

Value == /\ phase = "parsing" /\ Top.fn \in {"initial", "value"}
         /\ \/ Begin(Top.type, mem)
            \/ BeginStructPtr(Top.type)
            \/ /\ Kind[Top.type] = "variant"
               /\ \E t \in Tags : Begin(t, Put(mem, Top.at,
                                               [At(Top.at) EXCEPT !.tag = t]))
            \/ Fail /\ KeepMemory

-----------------------------------------------------------------------------
(***************************************************************************)
(* Strings: string_parse_common, and string_parse_resume once a pause has  *)
(* put the text into a buffer.  That a realloc may move it changes nothing *)
(* here: nobody else has its address.                                      *)
(***************************************************************************)
StringEmpty == /\ In("string", "text") /\ Return /\ UNCHANGED <<used, dropped>>
               /\ LET m == Pointer(Top.at, ZeroLengthPtr)
                  IN  mem' = IF Top.buf = Null THEN m ELSE Without(m, Top.buf)

Assigned(b) == Put(mem, Top.at, [At(Top.at) EXCEPT !.p = b, !.len = 1])

StringDone == /\ In("string", "text") /\ Return
              /\ \/ Top.buf = Null /\ Allocate(Assigned(Fresh), 0)
                 \/ /\ Top.buf # Null /\ mem' = Assigned(Top.buf)
                    /\ UNCHANGED <<used, dropped>>

\* A bad escape sequence, or no memory: Unwind frees the buffer of a frame.
StringFails == In("string", "text") /\ Fail /\ KeepMemory

\* A bad escape sequence is found when the chunk ends: alloc_frame has put a
\* frame on the stack, which the error leaves there.
StringFailsInPause ==
    /\ In("string", "text") /\ Top.buf = Null
    /\ Allocate(mem, 0)
    /\ frames' = <<[Top EXCEPT !.buf = Fresh]>> \o frames
    /\ phase' = "unwinding"
    /\ UNCHANGED <<calls, root, claimed, held, work, fault>>

-----------------------------------------------------------------------------
(***************************************************************************)
(* Arrays: array_parse_sm.c.  len and capacity are local until the array   *)
(* is complete, or a pause.                                                *)
(***************************************************************************)
\* Mutant of Stored: the index of the last element for the length.
StoredIndex(a, p, len, cap) ==
    Put(mem, a, [At(a) EXCEPT !.p = p, !.len = len - 1, !.cap = cap])

Stored(a, p, len, cap) ==
    Put(mem, a, [At(a) EXCEPT !.p = p, !.len = len, !.cap = cap])

ArrayEmpty == /\ In("array", "open") /\ Return /\ UNCHANGED <<used, dropped>>
              /\ mem' = Stored(Top.at, ZeroLengthPtr, 0, 0)

\* The first element.  (The code clears what malloc returned before it looks
\* whether it returned anything.)
ArrayFirst ==
    /\ In("array", "open") /\ MaxLen > 0
    /\ Allocate(Pointer(Top.at, Fresh), Top.cap * Width(Element[Top.type]))
    /\ Call([Top EXCEPT !.st = "element", !.len = 1], Element[Top.type],
            ElementAt(Top.type, Fresh, 1))

ArrayDone == /\ In("array", "element") /\ Return /\ UNCHANGED <<used, dropped>>
             /\ mem' = Stored(Top.at, At(Top.at).p, Top.len, Top.cap)

ArrayComma == /\ In("array", "element") /\ Top.len < MaxLen
              /\ GoOn([Top EXCEPT !.st = "comma"]) /\ KeepMemory

ArrayNext ==
    /\ In("array", "comma") /\ Top.len < Top.cap /\ KeepMemory
    /\ Call([Top EXCEPT !.st = "element", !.len = @ + 1], Element[Top.type],
            ElementAt(Top.type, At(Top.at).p, Top.len + 1))

\* realloc to twice the size
ArrayGrow ==
    LET b == At(Top.at).p IN
    /\ In("array", "comma") /\ Top.len = Top.cap /\ CanAllocate
    /\ mem' = Moved(Pointer(Top.at, Fresh), b, Fresh, 2 * Len(mem[b]))
    /\ used' = Fresh /\ UNCHANGED dropped
    /\ Call([Top EXCEPT !.st = "element", !.len = @ + 1, !.cap = 2 * @],
            Element[Top.type], ElementAt(Top.type, Fresh, Top.len + 1))

\* Does any of the cells point to a block?
Owning(cells) == \E i \in DOMAIN cells : cells[i].p \in Live

\* realloc fails: the elements are not released.
ArrayCannotGrow ==
    LET b == At(Top.at).p IN
    /\ In("array", "comma") /\ Top.len = Top.cap /\ Fail
    /\ mem' = Without(Stored(Top.at, Null, 0, 0), b)
    /\ dropped' = (dropped \/ Owning(mem[b])) /\ UNCHANGED used

ArrayFails == Inside("array") /\ Fail /\ KeepMemory

-----------------------------------------------------------------------------
(***************************************************************************)
(* Objects: struct_parse_sm.c, add_member and add_extra.                   *)
(***************************************************************************)
StructName == /\ In("struct", "open") \/ In("struct", "after")
              /\ GoOn([Top EXCEPT !.st = "name"]) /\ KeepMemory

StructDone == /\ In("struct", "open") \/ In("struct", "after")
              /\ Return /\ KeepMemory

\* add_member finds the name among those of the schema.
StructMember ==
    /\ In("struct", "name") /\ KeepMemory
    /\ \E i \in DOMAIN Members[Top.type] :
          /\ Repeats \/ i \notin Top.seen
          /\ GoOn([Top EXCEPT !.st = "named", !.seen = @ \cup {i},
                      !.child = Members[Top.type][i],
                      !.childAt = Address(Top.at[1], Top.at[2] + i - 1)])

\* add_extra for the object at a, when the name has been copied into block
\* Fresh: the memory after it, and the block of the extra members, which
\* malloc or realloc makes when there is no room.
Entered(m, t, a, b, name) ==
    LET x == Extras(t, a)
        n == At(x).len + 1
    IN  Put(Put(m, NameAt(t, b, n), [Cleared EXCEPT !.p = name]), x,
            [m[x[1]][x[2]] EXCEPT !.p = b, !.len = n])

AddExtra(t, a) ==
    LET xa   == Extras(t, a)
        x    == At(xa)
        cap  == IF x.cap = 0 THEN InitialCapacity ELSE 2 * x.cap
        n    == cap * EntryWidth(t)
        new  == used + 2
        here == With(mem, Fresh, <<>>)
        room == Put(here, xa, [x EXCEPT !.cap = cap])
    IN  IF x.len < x.cap
        THEN [mem |-> Entered(here, t, a, x.p, Fresh), used |-> Fresh,
              at |-> ValueAt(t, x.p, x.len + 1)]
        ELSE [mem |-> Entered(IF x.cap = 0 THEN With(room, new, Zeroed(n))
                                           ELSE Moved(room, x.p, new, n),
                              t, a, new, Fresh),
              used |-> new, at |-> ValueAt(t, new, x.len + 1)]

HasRoom(t, a) == At(Extras(t, a)).len < MaxLen /\ AddExtra(t, a).used <= MaxBlocks

\* The name is of no member of the schema.  (When a malloc fails, the name
\* is freed again: that is StructFails.)
StructExtra ==
    /\ In("struct", "name") /\ HasRoom(Top.type, Top.at)
    /\ LET e == AddExtra(Top.type, Top.at)
       IN  /\ mem' = e.mem /\ used' = e.used /\ UNCHANGED dropped
           /\ GoOn([Top EXCEPT !.st = "named", !.child = Element[Top.type],
                               !.childAt = e.at])

StructValue == /\ In("struct", "named") /\ KeepMemory
               /\ Call([Top EXCEPT !.st = "after"], Top.child, Top.childAt)

StructFails == Inside("struct") /\ Fail /\ KeepMemory

\* A name was split within an escape sequence, which now goes on.
StructEscape == /\ In("struct", "escape") /\ KeepMemory
                /\ GoOn([Top EXCEPT !.st = "name"])

\* Or does not: struct_parse_resume returns at once.
StructEscapeFails == /\ In("struct", "escape") /\ KeepMemory
                     /\ calls' = Tail(calls)
                     /\ phase' = IF Tail(calls) = <<>> THEN "failed"
                                                       ELSE "unwinding"
                     /\ Keep

-----------------------------------------------------------------------------
(***************************************************************************)
(* The end of a chunk, and of an error.                                    *)
(***************************************************************************)
\* The array parsers put len and capacity into their results.
Parked(m) ==
    [b \in DOMAIN m |-> [i \in DOMAIN m[b] |->
        IF \E k \in DOMAIN calls :
              calls[k].fn = "array" /\ calls[k].at = Address(b, i)
        THEN LET k == CHOOSE k \in DOMAIN calls :
                          calls[k].fn = "array" /\ calls[k].at = Address(b, i)
             IN  [m[b][i] EXCEPT !.len = calls[k].len, !.cap = calls[k].cap]
        ELSE m[b][i]]]

Saved(act) == IF act.fn = "array" THEN [act EXCEPT !.len = 0, !.cap = 0] ELSE act
Restored(act) ==
    IF act.fn = "array"
    THEN [act EXCEPT !.len = At(act.at).len, !.cap = At(act.at).cap] ELSE act

\* The parsers save themselves, the innermost as act.
Save(act) == /\ frames' = [i \in DOMAIN calls |->
                            Saved(IF i = 1 THEN act ELSE calls[i])] \o frames
             /\ calls' = <<>> /\ phase' = "between"
             /\ UNCHANGED <<root, claimed, held, work, fault>>

Pause == /\ phase = "parsing" /\ ~(Top.fn = "string" /\ Top.buf = Null)
         /\ Save(Top) /\ mem' = Parked(mem) /\ UNCHANGED <<used, dropped>>

PauseInEscape == /\ In("struct", "name") /\ Save([Top EXCEPT !.st = "escape"])
                 /\ mem' = Parked(mem) /\ UNCHANGED <<used, dropped>>

\* alloc_frame allocates a buffer.
PauseInString == /\ In("string", "text") /\ Top.buf = Null
                 /\ Allocate(Parked(mem), 0) /\ Save([Top EXCEPT !.buf = Fresh])

\* eu_parse
Feed == /\ phase = "between" /\ phase' = "running"
        /\ UNCHANGED <<mem, used, calls, frames, root, claimed, held, work, fault,
                       dropped>>

\* eu_stack_run pops a frame, or the value is complete; then white space may
\* follow, and nothing else.
Resume ==
    /\ phase = "running"
    /\ \/ /\ frames # <<>> /\ phase' = "parsing"
          /\ calls' = <<Restored(Head(frames))>> /\ frames' = Tail(frames)
       \/ /\ frames = <<>> /\ phase' \in {"between", "failed"}
          /\ UNCHANGED <<calls, frames>>
    /\ UNCHANGED <<mem, used, root, claimed, held, work, fault, dropped>>

\* Elements beyond those the array says it has, or all of them if it does not
\* say that the block is its own.
Forgotten(t, c) ==
    /\ c.p \in Live
    /\ \/ c.cap = 0
       \/ Owning(SubSeq(mem[c.p], c.len * Width(Element[t]) + 1, Len(mem[c.p])))

\* One parser returns EU_ERROR.
\* Mutant of UnwindStruct: the pointer to the struct is not reset.
UnwindStructPointer ==
    /\ Top.fn = "struct" /\ Top.ptr # None
    /\ mem' = Without(mem, Top.at[1])
    /\ dropped' = (dropped \/ Owning(mem[Top.at[1]]))

UnwindStruct ==
    /\ Top.fn = "struct" /\ Top.ptr # None
    /\ mem' = Without(Pointer(Top.ptr, Null), Top.at[1])
    /\ dropped' = (dropped \/ Owning(mem[Top.at[1]]))

UnwindString == /\ Top.fn = "string" /\ Top.buf # Null
                /\ mem' = Without(mem, Top.buf) /\ UNCHANGED dropped

UnwindArray == /\ Top.fn = "array" /\ UNCHANGED mem
               /\ dropped' = (dropped \/ Forgotten(Top.type, At(Top.at)))

UnwindOther == /\ \/ Top.fn \in {"initial", "value"}
                  \/ Top.fn = "struct" /\ Top.ptr = None
                  \/ Top.fn = "string" /\ Top.buf = Null
               /\ UNCHANGED <<mem, dropped>>

Unwind == /\ phase = "unwinding"
          /\ \/ UnwindStruct
             \/ UnwindString
             \/ UnwindArray
             \/ UnwindOther
          /\ calls' = Tail(calls)
          /\ phase' = IF Tail(calls) = <<>> THEN "failed" ELSE phase
          /\ Keep /\ UNCHANGED used

-----------------------------------------------------------------------------
(***************************************************************************)
(* Releasing: the fini and destroy functions, one free or one call a step. *)
(***************************************************************************)
Task(op, t, a, b) == [op |-> op, type |-> t, at |-> a, block |-> b]
Fini(t, a) == Task("fini", t, a, Null)
Free(b) == Task("free", None, None, b)        \* free(b)
FreeAt(a) == Task("freeAt", None, a, Null)    \* free what the cell points to
Clear(a) == Task("clear", None, a, Null)      \* the pointer, len and capacity
Reset(a) == Task("reset", None, a, Null)      \* the pointer and len
Untag(a) == Task("untag", None, a, Null)      \* the metadata pointer

Concat(ss) == S!FlattenSeq(ss)

\* struct_extras_fini
ExtrasFini(t, a) ==
    LET x == At(a)
    IN  Concat([i \in 1 .. x.len |-> <<FreeAt(NameAt(t, x.p, i)),
                                       Fini(Element[t], ValueAt(t, x.p, i))>>])
        \o <<FreeAt(a)>>

\* Mutant of StructFini: the extras are forgotten.
StructFiniMembers(t, a) ==
    [i \in DOMAIN Members[t] |->
        Fini(Members[t][i], Address(a[1], a[2] + i - 1))]

\* inline_struct_fini
StructFini(t, a) ==
    [i \in DOMAIN Members[t] |->
        Fini(Members[t][i], Address(a[1], a[2] + i - 1))]
    \o <<Task("extras", t, Extras(t, a), Null)>>

\* metadata->fini of a value of type t at a: the calls and frees it makes.
Parts(t, a) ==
    LET c == At(a) IN
    CASE Kind[t] = "scalar" -> <<>>
      [] Kind[t] = "string" ->
            (IF c.len # 0 THEN <<FreeAt(a)>> ELSE <<>>) \o <<Reset(a)>>
      [] Kind[t] = "array" ->
            [i \in 1 .. c.len |-> Fini(Element[t], ElementAt(t, c.p, i))]
            \o (IF c.cap # 0 THEN <<FreeAt(a)>> ELSE <<>>)
      [] Kind[t] = "struct" -> StructFini(t, a)
      [] Kind[t] = "structptr" ->
            IF c.p = Null THEN <<>>
            ELSE StructFini(t, Address(c.p, 1)) \o <<FreeAt(a), Reset(a)>>
      [] Kind[t] = "variant" ->
            IF c.tag = None THEN <<>> ELSE <<Fini(c.tag, a), Untag(a)>>

\* Mutant of ArrayDestroy: the array is not cleared.
ArrayDestroyFini(f) == <<Fini(f.type, f.at)>>

\* array_parse_frame_destroy
ArrayDestroy(f) == <<Fini(f.type, f.at), Clear(f.at)>>

\* frame->destroy.  What struct_parse_frame_destroy clears of a struct that it
\* then frees does not matter.
Destroy(f) ==
    CASE f.fn = "string" -> <<Free(f.buf)>>
      [] f.fn = "array"  -> ArrayDestroy(f)
      [] f.fn = "struct" /\ f.ptr = None ->
            StructFini(f.type, f.at)
            \o [i \in 1 .. StructWidth(f.type) |->
                    Clear(Address(f.at[1], f.at[2] + i - 1))]
      [] f.fn = "struct" /\ f.ptr # None ->
            StructFini(f.type, f.at) \o <<Free(f.at[1]), Reset(f.ptr)>>
      [] OTHER -> <<>>

Variable == Address(Client, 1)

\* Is ep->result set?  initial_parse_destroy and eu_parse_finish unset it.
HasResult == ~claimed /\ (\A k \in DOMAIN frames : frames[k].fn # "initial")

\* eu_parse_destroy: eu_stack_fini, then the result.
EuParseDestroy ==
    /\ phase \in {"between", "failed"} /\ phase' = "releasing"
    /\ work' = Concat([k \in DOMAIN frames |-> Destroy(frames[k])])
               \o (IF HasResult THEN <<Fini(root, Variable)>> ELSE <<>>)
    /\ frames' = <<>>
    /\ UNCHANGED <<mem, used, calls, root, claimed, held, fault, dropped>>

\* eu_parse_finish returns 1.  (When there are frames, it first parses a space;
\* whether they return or not, that is Feed.)
EuParseFinish ==
    /\ phase = "between" /\ frames = <<>> /\ claimed' = TRUE
    /\ held' = IF Kind[root] = "variant" THEN Variable ELSE None
    /\ UNCHANGED <<mem, used, calls, frames, phase, root, work, fault, dropped>>

\* The client is done with a value it has claimed.
ClientFini ==
    /\ phase = "gone" /\ claimed /\ phase' = "releasing" /\ claimed' = FALSE
    /\ work' = <<Fini(root, Variable)>> /\ held' = None
    /\ UNCHANGED <<mem, used, calls, frames, root, fault, dropped>>

Working == phase = "releasing" /\ work # <<>>
           /\ UNCHANGED <<calls, frames, phase, root, claimed, held, dropped>>
Job == Head(work)

Break == fault' = TRUE /\ work' = <<>> /\ UNCHANGED <<mem, used>>
Continue == work' = Tail(work) /\ UNCHANGED fault

\* free(b)
FreeBlock(b) ==
    \/ b = Null /\ Continue /\ UNCHANGED <<mem, used>>
    \/ b \in Live \ {Client} /\ Continue /\ mem' = Without(mem, b) /\ UNCHANGED used
    \/ b \notin (Live \ {Client}) \cup {Null} /\ Break

\* A function that is given an address of what is no longer there.
Wild == Working /\ Job.at # None /\ ~Valid(Job.at) /\ Break

CallFini == /\ Working /\ Job.op \in {"fini", "extras"} /\ Valid(Job.at)
            /\ work' = (IF Job.op = "fini" THEN Parts(Job.type, Job.at)
                        ELSE ExtrasFini(Job.type, Job.at)) \o Tail(work)
            /\ UNCHANGED <<mem, used, fault>>

CallFree == /\ Working
            /\ \/ Job.op = "free" /\ FreeBlock(Job.block)
               \/ Job.op = "freeAt" /\ Valid(Job.at) /\ FreeBlock(At(Job.at).p)

Write == /\ Working /\ Job.op \in {"clear", "reset", "untag"} /\ Valid(Job.at)
         /\ Continue /\ UNCHANGED used
         /\ LET c == At(Job.at)
            IN  mem' = Put(mem, Job.at,
                    CASE Job.op = "clear" -> Cell(c.tag, Null, 0, 0)
                      [] Job.op = "reset" -> Cell(c.tag, Null, 0, c.cap)
                      [] Job.op = "untag" -> [c EXCEPT !.tag = None])

Released == /\ phase = "releasing" /\ work = <<>> /\ phase' = "gone"
            /\ UNCHANGED <<mem, used, calls, frames, root, claimed, held, work,
                           fault, dropped>>

-----------------------------------------------------------------------------
(***************************************************************************)
(* The client changes a document it has claimed.  An API call that moves   *)
(* or frees what the client has at hand gives it the new address.          *)
(***************************************************************************)
Editing == phase = "gone" /\ claimed
           /\ UNCHANGED <<calls, frames, root, claimed, fault, dropped>>

\* The variants of the document that hold a value of kind k.
Variants(k) ==
    {a \in UNION {{Address(b, i) : i \in DOMAIN mem[b]} : b \in Live} :
        At(a).tag # None /\ Kind[At(a).tag] = k}

\* eu_object_get: an extra member, which is added when there is none yet.
EuObjectGet ==
    /\ Editing /\ UNCHANGED <<phase, work>>
    /\ \E a \in Variants("struct") :
          \/ /\ \E i \in 1 .. At(a).len : held' = ValueAt(At(a).tag, At(a).p, i)
             /\ UNCHANGED <<mem, used>>
          \/ /\ HasRoom(At(a).tag, a)
             /\ LET e == AddExtra(At(a).tag, a)
                IN  mem' = e.mem /\ used' = e.used /\ held' = e.at

\* eu_variant_array_push, with eu_array_grow.
Push(a, m, b) == /\ mem' = Put(m, a, [m[a[1]][a[2]] EXCEPT !.p = b, !.len = @ + 1])
                 /\ held' = ElementAt(At(a).tag, b, At(a).len + 1)

EuVariantArrayPush ==
    /\ Editing /\ UNCHANGED <<phase, work>>
    /\ \E a \in Variants("array") :
          LET c   == At(a)
              cap == IF c.cap = 0 THEN InitialCapacity ELSE 2 * c.cap
              m   == Put(mem, a, [c EXCEPT !.cap = cap])
              n   == cap * Width(Element[c.tag])
          IN  /\ c.len < MaxLen
              /\ \/ c.len < c.cap /\ Push(a, mem, c.p) /\ UNCHANGED used
                 \/ /\ c.len = c.cap /\ CanAllocate /\ used' = Fresh
                    /\ Push(a, IF c.cap = 0 THEN With(m, Fresh, Zeroed(n))
                                            ELSE Moved(m, c.p, Fresh, n), Fresh)

\* eu_variant_assign_object does not clear what it returns, so that it can
\* only be used where nothing but zeros, or a string, has been.
Blank(c) == c.cap = 0 /\ \/ c.tag # None /\ Kind[c.tag] = "string"
                         \/ c.tag = None /\ c.p = Null /\ c.len = 0

\* eu_variant_assign_bool ..., of an array there is none: the old value is
\* released first.
EuVariantAssign ==
    /\ Editing /\ held # None /\ phase' = "releasing"
    /\ \E t \in {u \in Tags : Kind[u] # "array"} :
          /\ Kind[t] = "struct" => Blank(At(held))
          /\ work' = (IF At(held).tag = None THEN <<>>
                      ELSE <<Fini(At(held).tag, held)>>)
                     \o <<Task("assign", t, held, Null)>>
    /\ UNCHANGED <<mem, used, held>>

Assign ==
    /\ Working /\ Job.op = "assign" /\ Valid(Job.at) /\ Continue
    /\ LET c == At(Job.at)
       IN  \/ /\ Kind[Job.type] = "scalar" /\ UNCHANGED used
              /\ mem' = Put(mem, Job.at, [c EXCEPT !.tag = Job.type, !.p = Junk])
           \/ /\ Kind[Job.type] = "struct" /\ UNCHANGED used
              /\ mem' = Put(mem, Job.at, [c EXCEPT !.tag = Job.type])
           \/ /\ Kind[Job.type] = "string" /\ CanAllocate /\ used' = Fresh
              /\ mem' = With(Put(mem, Job.at, Cell(Job.type, Fresh, 1, c.cap)),
                             Fresh, <<>>)
           \/ /\ Kind[Job.type] = "string" /\ UNCHANGED used
              /\ mem' = Put(mem, Job.at, Cell(None, Null, 0, c.cap))

-----------------------------------------------------------------------------
InitOwnership ==
    /\ root \in RootTypes
    /\ mem = [b \in {Client} |-> Zeroed(Width(root))] /\ used = Client
    /\ calls = <<>> /\ frames = <<Parser("initial", root, Variable, "start")>>
    /\ phase = "between" /\ claimed = FALSE /\ held = None /\ work = <<>>
    /\ fault = FALSE /\ dropped = FALSE

NextOwnership ==
    \/ Value
    \/ StringEmpty \/ StringDone \/ StringFails \/ StringFailsInPause
    \/ ArrayEmpty \/ ArrayFirst \/ ArrayDone \/ ArrayComma \/ ArrayNext
    \/ ArrayGrow \/ ArrayCannotGrow \/ ArrayFails
    \/ StructName \/ StructDone \/ StructMember \/ StructExtra
    \/ StructValue \/ StructFails \/ StructEscape \/ StructEscapeFails
    \/ Pause \/ PauseInEscape \/ PauseInString
    \/ Feed \/ Resume \/ Unwind
    \/ EuParseDestroy \/ EuParseFinish \/ ClientFini
    \/ Wild \/ CallFini \/ CallFree \/ Write \/ Released
    \/ EuObjectGet \/ EuVariantArrayPush \/ EuVariantAssign \/ Assign

SpecOwnership == InitOwnership /\ [][NextOwnership]_ownVars

-----------------------------------------------------------------------------
(***************************************************************************)
(* Properties.                                                             *)
(***************************************************************************)
Cells == [tag : Types \cup {None}, p : Int, len : Nat, cap : Nat]

ParserFns == {"initial", "value", "string", "array", "struct"}
ParserStates == {"start", "text", "open", "element", "comma", "name", "escape",
                 "named", "after"}
ParserType ==
    [fn : ParserFns, type : Types, at : Nat \X Nat,
     ptr : (Nat \X Nat) \cup {None}, st : ParserStates, len : Nat, cap : Nat,
     buf : Nat, seen : SUBSET Nat, child : Types \cup {None},
     childAt : (Nat \X Nat) \cup {None}]

\* The variables have the types their comments give.
TypeOKOwnership ==
    /\ used \in Nat /\ Live \subseteq 1 .. used
    /\ \A b \in Live : mem[b] \in Seq(Cells)
    /\ calls \in Seq(ParserType) /\ frames \in Seq(ParserType)
    /\ phase \in Phases /\ root \in RootTypes
    /\ {claimed, fault, dropped} \subseteq BOOLEAN

\* No free of anything but a live block, and no fini function is given what is
\* no longer there: whatever the chunks, the errors and the moment of
\* eu_parse_destroy.
MemorySafe == ~fault

\* The parsers and frames that point to block b, those that are a string's.
Holders(b) == {k \in DOMAIN calls : calls[k].buf = b}
Keepers(b) == {k \in DOMAIN frames : frames[k].buf = b}
PointersTo(b) == {a \in UNION {{Address(x, i) : i \in DOMAIN mem[x]} : x \in Live} :
                    At(a).p = b}

Settled == \/ phase \notin {"releasing", "gone"}
           \/ phase = "gone" /\ claimed

\* While a document is parsed, every block has one owner: one pointer of the
\* document, or one string parser; only what an error path dropped has none.
OneOwner ==
    Settled => \A b \in Live \ {Client} :
        LET n == Cardinality(PointersTo(b)) + Cardinality(Holders(b))
                 + Cardinality(Keepers(b))
        IN  n = 1 \/ (n = 0 /\ dropped)

\* And every pointer of it points to a live block, as do the addresses that
\* the parsers and frames hold: array or member blocks that move, and structs
\* that an error frees, leave nothing behind that points to them.
NoDangling ==
    Settled =>
        /\ \A b \in Live : \A i \in DOMAIN mem[b] :
              mem[b][i].p \in Live \cup {Null, ZeroLengthPtr, Junk}
        /\ \A k \in DOMAIN calls : Valid(calls[k].at)
        /\ \A k \in DOMAIN frames :
              \/ Valid(frames[k].at)
              \/ frames[k].fn = "string" /\ phase \in {"unwinding", "failed"}

\* Once the parse is destroyed, and a claimed value is released, nothing is
\* left but the client's variable, unless an error path dropped something.
NothingLost ==
    phase = "gone" /\ ~claimed /\ ~dropped => Live = {Client}
=============================================================================
