# A verification of euphemus

euphemus is a C library for JSON: it parses text that arrives in chunks into
native structs, and generates text from them into buffers of any size.  A parser
or generator that runs out of input (or output) half-way *pauses*: every function
on the C stack saves itself in a frame of a heap-allocated **continuation stack**
and returns, and the frames are resumed, innermost first, when the next chunk
arrives.  This is what is hard about the library: a text may be cut after every
character, at every depth, any number of times, and the tests cut each text either
once, at every place, or everywhere.

A program that uses the library with types of its own gets their C declarations,
and the descriptors the parsers work with, from `schemac`, a compiler for JSON
schemas.

This directory holds TLA+ models of the stack, of the incremental parser (its
control, the memory it allocates, the bytes of strings and the values of
integers), of the incremental generator, of the schema compiler and of the
metadata made from what it generates; the TLC configurations that check them; and
theorems about them proved with TLAPS.

Contents: [the system](#the-system) · [modules](#modules) · [runs](#runs) ·
[findings](#findings) · [proofs](#proofs) · [not modelled](#what-is-not-modelled) ·
[plan](#plan)

## The system

| Component | Code | State it keeps | Operations | Status |
|---|---|---|---|---|
| Continuation stack | `lib/stack.c`, inline functions of `euphemus_int.h` | one malloc'ed block: scratch text, "new" frames (of the last pause), "old" frames; its size | init, begin_pause, alloc, alloc_first, run, reserve/set/append/reset scratch, fini | modelled |
| Parse driver | `lib/parse.c` | `struct eu_parse`: the stack, `input`, `input_end`, `error` | create, `eu_parse`, `eu_parse_finish`, destroy; white space; literals | partly |
| Object parser | `lib/struct.c`, `struct_parse_sm.c` | a frame with the state, the member's metadata and the escape sequence; the struct | parse, resume, add member, generic objects | partly |
| Array parser | `lib/array.c`, `array_parse_sm.c` | a frame with the state; the elements | parse, resume, growth | partly |
| Strings and escapes | `lib/string.c`, `unescape.c` | a frame with buffer, length, capacity and escape state | parse, resume, unescape | partly |
| Numbers | `lib/number.c`, `number_parse_sm.c` | a frame with the state, integer so far and sign; scratch text for `strtod` | parse, resume (integer, double, variant) | partly |
| Variants, booleans, null | `lib/variant.c`, `bool.c`, `null.c` | none of their own | dispatch on the first character; literals; assignment | partly |
| Generator | `lib/generate.c`, `*_gen_sm.c`, `escape.c` | `struct eu_generate`: the stack, output range, error | create, `eu_generate`, destroy; escape, numbers | partly |
| Values: ownership and release | `fini` and `destroy` functions of all types, error paths of the parsers | the values themselves | parse into, fini, change | partly |
| Accessors, paths, iterators | `lib/path.c`, accessors of the types | none | look-ups | not modelled |
| Type introduction | `lib/euphemus.c`, `struct.c`, `array.c` | metadata built from (possibly cyclic) descriptors | `eu_introduce` | modelled |
| Schema compiler | `schemac/schemac.c` | types by `$ref`, definitions written so far | resolve, define, write C | partly |
| Generated schema parser | `schemac/schema_schema.*` | – | – | generated data, out of scope |
| Tests, benchmark | `test/` | – | – | read for what they claim |

What "partly" leaves out is said in `PROJECT.json` and under
[not modelled](#what-is-not-modelled).

### How they interact

`eu_parse` sets `ep->input` and enters `eu_stack_run`, which pops a frame and calls
its `resume` function.  That parser reads characters, and calls the parsers of
members and elements, which are C calls.  A parser returns

- `EU_OK`: the caller goes on, or, if it was resumed itself, `eu_stack_run` pops
  the next frame, which must be that of the parser that had called it;
- `EU_PAUSED`: it has saved itself with `eu_stack_alloc_first`, and its callers
  then save theirs, innermost first, with `eu_stack_alloc`;
- `EU_REINSTATE_PAUSED`: only a resumed parser; `eu_stack_run` puts the popped
  frame back by moving a bottom pointer;
- `EU_ERROR`: the parse is over; `eu_parse_destroy` calls `eu_stack_fini`, which
  destroys what the frames own, innermost first.

A parser whose token is cut keeps text in the scratch area at the low end of the
same block; reserving room there may consolidate the frames or move them to a
bigger block, under the feet of whoever holds an offset.
`eu_generate` works alike, with an output buffer in the place of the chunk:
generators pause when it is full.  The text of a number that does not fit waits in
the scratch area.

`eu_parse_finish` parses one space so that a number at the end is completed, and
hands the value to the client; until then it belongs to the parse, and
`eu_parse_destroy` releases it: first what the frames own, then the value as far as
it got.  A value in memory is therefore always in a state that its `fini` function
can be given, or the frame knows what is missing (the length of an array, the
buffer of a string).

A parser of a generated type works from *metadata*: of each member and element
the functions and the metadata.  `schemac` reads a schema, itself parsed by the
library, resolves its references, and writes a C header with the structs, and a C
file with a *descriptor* of each type, which points to the descriptors of its
members.  At run time `eu_introduce` makes the metadata from a descriptor, and so
those of all types it leads to; types may lead to themselves.

### What is hard, and what makes each part correct

| Component | Hard behaviour | Correct if |
|---|---|---|
| Stack | consolidation while frames of two pauses are left; scratch text growing into frames; a failed malloc half-way | frames come back complete, innermost first; scratch text is kept; nothing outside the block is read; clean-up destroys every frame once, inner before outer |
| Driver and parsers | a cut anywhere; a second cut in what the first one cut; empty chunks; pausing after the stack was touched | accepted and rejected texts do not depend on the cuts; innermost parser first; `eu_parse` always returns |
| Strings, escapes | a sequence cut between any two of its characters; surrogates; errors found late | the bytes are those of the uncut text |
| Numbers | widths: 2^63, 2^64, the step to `strtod` | the value is that of the uncut text; no wrap-around |
| Generator | output full anywhere; first characters written without looking for room | the output, joined, does not depend on the buffer sizes; nothing is written behind a buffer; short writes mean the end |
| Ownership | errors half-way through arrays and structs; a document destroyed between two chunks; repeated members; blocks that move while parsers hold addresses in them | every block has one owner, and is released once |
| Schema compiler | references forward, in circles, to what is wrong; types that contain themselves; declarations split by `#ifndef` | what is wrong is reported, and only that; a C compiler finds every struct declared once, before it is held by value |
| Introduction | types that contain themselves; allocation that fails half-way | one piece of metadata for a type; what is published is complete |

The hazards at their lines, with the property for each, are in `PROJECT.json`.

## Modules

| Module | What it is |
|---|---|
| `EuStack` | `lib/stack.c`, byte by byte, with a client that uses it in every way its interface allows |
| `FrameStack` | what the stack promises: two sequences of frames and a text, no memory |
| `EuStackImpl` | the refinement of `FrameStack` by `EuStack`, read from the bytes; `KeepsText` |
| `MCEuStack` | frame sizes for TLC |
| `EuStackProofs` | theorems about `EuStack` |
| `JsonChars` | character classes, types |
| `JsonGrammar` | JSON (RFC 8259) as a pushdown automaton that reads an uncut text |
| `EuParse` | the parse driver, the control of all parsers, and how they use the stack |
| `EuParseImpl` | the refinement of `JsonGrammar` by `EuParse` |
| `MCEuParse` | for TLC |
| `EuParseProofs` | theorems about `EuParse` |
| `JsonValues` | values in memory as the generator finds them |
| `JsonWriter` | what the generator promises: the text of the value, in pieces |
| `EuGenerate` | the generate driver, all generators, and how they use the stack |
| `EuGenerateImpl` | the refinement of `JsonWriter` by `EuGenerate` |
| `MCEuGenerate` | values for TLC |
| `EuGenerateProofs` | theorems about `EuGenerate` |
| `EuOwnership` | which blocks of memory the parsers, the frames, the document and the client own |
| `EuString` | the bytes of a string: `string.c`, `unescape.c` |
| `EuNumber` | the value of an integer: `number_parse_sm.c`, `number.c` |
| `MCValues` | documents and types for TLC; the three modules about values side by side |
| `EuOwnershipProofs`, `EuStringProofs`, `EuNumberProofs` | theorems about these |
| `SchemaCompiler` | `schemac.c`: from a schema to the declarations of a header |
| `EuIntroduce` | `eu_introduce`: from descriptors to metadata |
| `MCSchemas` | schemas for TLC; the composition of the two: what `schemac` generates is what is introduced |
| `SchemaCompilerProofs`, `EuIntroduceProofs` | theorems about `SchemaCompiler` and `EuIntroduce` |

`EuParse` and `EuGenerate` use the stack as `FrameStack` describes it: `fresh` and `base` are the
new and the old frames, `Consolidate` is `eu_stack_begin_pause`.  `EuStack` shows
that the code of the stack may be used so.

### EuStack

`st` is `struct eu_stack` with the block as a function from offsets to bytes.  A
byte says to which frame it belongs (the depth of the parser that saved it, its
kind, which fixes its size) and its index in it; text bytes hold their character.
A frame is intact when all its bytes are in place, so a `memmove` to a wrong
place or with a wrong length is seen.  Uninitialized bytes, and at every call those
that lie in no region, hold `Garbage`.

| Action | Code |
|---|---|
| `Run`, `Pop`, `RunEnds` | the loops of `eu_stack_run` |
| `Nest`, `ReturnOk`, `ReturnError`, `ReturnReinstate` | calls and results of the client's parsers |
| `SetScratch`, `AppendScratch`, `UnescapeIntoScratch`, `ResetScratch` | the scratch functions as number, string and struct parsers combine them |
| `StartPause`, `Alloc` | `eu_stack_begin_pause`, `eu_stack_alloc` (together `eu_stack_alloc_first`) |
| `ReserveFails`, `AllocFails` | malloc returns NULL, with the size doubled already |
| `Fini`, `Destroy`, `Free` | `eu_stack_fini` |

`pc`, `lo`, `hi`, `top` are the client: depths of the parsers on the C stack and of
the innermost paused one.  `f`, `fromNew` are the local `f` of `eu_stack_run` and
which loop it is in.  `touched` says whether the resumed parser may have changed the
layout: the client asks for reinstatement only if not, as the parsers of the
library do (`struct.c:295-300`).  The initial frame's kind is fixed by
`eu_parse_create`; later frames have any kind.

### EuParse

A parser on the C stack and its frame are the same record: function, type, state
(names as in the source), the type of the current member or element, the escape
sequence it is in, and letters still expected of a literal.  `calls` are the parsers
on the C stack.  `p` is the character at `ep->input`, or `End`, once a parser has
looked: `LookAhead` chooses it when it is needed, so that the text and its
cuts are the environment's choice, character by character.  `closing` is how far
`eu_parse_finish` is: it lets its space be read, and then the end.

Each parser has one action per state of its `switch`, whose disjuncts are the
cases of the code; white space, names and strings are read a character at a time,
which is the loop's effect however much of it one chunk holds.  Member names are
scanned first and unescaped later in the code: within one call this makes no
difference, and between calls the code keeps what the model keeps (an open escape
sequence).  The one place where the scan comes into the result, a bad escape sequence in
a resumed string, is modelled (`StringResume`, `StringTorn`).

Characters are classes (`JsonChars`): two characters are in one class when no parser
tells them apart, or (`e`, `l`, `a`) when they never meet in one place.  Letters of
literals are only counted.  An integer may overflow at any digit after the first.
`Hex` has the digits that `unescape_table` has: `d` and `e` are none there, and `t` is one.

`scratch` says whose text is in the scratch area of the stack, which numbers and member
names share: that of the token being parsed (`own`), that of an integer that was complete
before (`left`), both (`signed`, `broken`, if the second is a negative number), or none.  A cut name
and a cut number set it; a number that was resumed appends to it (`TextCut`); a name that is
complete and a number that was converted reset it, an integer does not (`NumberInteger`).
What `strtod` makes of the text is left to two cases (`NumberConverted`): it reads
all of it, which may be out of range; or it meets a minus sign in the middle, and `convert` calls
`abort()`.

### EuGenerate

As in `EuParse`, a generator on the C stack and its frame are the same record: its
function, value, state, the member or element it is at, the prefix it has still to
write, and what is left of a text.  `calls`, `fresh`, `base` and `fromNew` are as
there.  `space` is `output_end - output`, an integer so that writing behind the
buffer shows; a call of `eu_generate` begins with any `space` up to `MaxBuffer`.
`out` is what all calls have written, joined, and `scratch` the scratch text, in
which an integer's digits stand at the right end of 19 bytes (`IntegerRoom`).

| Action | Code |
|---|---|
| `EuGenerate`, `RunOk`, `PopFresh`, `PopBase`, `SaveCaller` | `eu_generate`, the loops of `eu_stack_run`, and the `pause:` labels of callers |
| `Initial` | `initial_gen_resume` |
| `FixedValue`, `FixedResume` | booleans, null and their rest; `FixedGen` is `eu_fixed_gen_slow`, which the fast paths agree with |
| `StringGenerate`, `EuEscape`, `EscapingResume` | strings and names, a character or escape sequence at a time |
| `IntegerGenerate`, `NumberGenerate`, `NumberResume` | numbers; `OutputScratch` is `output_scratch` |
| `ArrayGenerate`, `ArrayComma`, `ArrayElement` | one for each state of `array_gen_sm.c` |
| `StructGenerate`, `StructLoop`, `StructPrefix`, `StructMemberName`, `StructColon`, `StructMemberValue` | one for each state of `struct_gen_sm.c`; members and extras go through the same states, told apart by `part` |

The code writes some characters without looking at `output_end`, and so does the
model: what makes that right is shown, not assumed.  The C variable `extra` of the
struct generator is not in its frame: `Restored` computes it as `struct_gen_resume`
does, and `ahead` is by how much it is wrong.  When it points behind the extras, what
is read is undefined, and the model ends in the phase `astray`.
The digits of a number are given with the value.  Character classes are those of
`JsonValues`.

### EuOwnership

`mem` maps the live blocks to cells.  A cell is a pointer with its length and
capacity, behind the metadata pointer (`tag`) of a variant; a struct inside another
value has a cell for each member and one for its extra members.  Addresses
are given out in order and never used again, so that a stale pointer stays one.
The input is left out: a parser may meet anything at any time, which includes an
error and the end of the chunk.  (What may really come is `EuParse`'s subject; it
can only be less.)

| Actions | Code |
|---|---|
| `Value` | the parse function of a type is called: `variant_parse`, `struct_parse`, `struct_ptr_parse`, ... |
| `StringEmpty`, `StringDone`, `StringFails`, `StringFailsInPause` | `string.c` |
| `ArrayEmpty`, `ArrayFirst`, `ArrayDone`, `ArrayComma`, `ArrayNext`, `ArrayGrow`, `ArrayCannotGrow`, `ArrayFails` | the states of `array_parse_sm.c`, `eu_array_grow` |
| `StructName` ... `StructEscapeFails` | the states of `struct_parse_sm.c`, `add_member` |
| `Pause`, `PauseInEscape`, `PauseInString` | the `pause` labels: what goes into the frames and what into the value |
| `Feed`, `Resume` | `eu_stack_run` and the resume functions |
| `Unwind` | the `error` labels, one parser at a time; `Forgotten` says what each one loses |
| `EuParseDestroy`, `EuParseFinish`, `ClientFini` | the client's calls |
| `Wild`, `CallFini`, `CallFree`, `Write`, `Released` | the `fini` and `destroy` functions; `work` is what they have still to do, the calls on their stack |
| `EuObjectGet`, `EuVariantArrayPush`, `EuVariantAssign`, `Assign` | the client changes its document; `held` is the variant it has at hand |

`fault` becomes true when a release function is given an address that is no longer
valid, or `free` something that `malloc` did not return.

### EuString, EuNumber

An action of `EuString` is a call of `string_parse_common` or
`string_parse_resume` with the next `n` characters, any `n`.  `unescape_table` is
computed as the macros of `unescape.c` do, by differences and exclusive ors, since
the trick is that one table serves escapes and hexadecimal digits.  `overrun` notes
a write behind the buffer's capacity.

In `EuNumber` an action is a character.  `int_value` is a `uint64_t`, here a
number modulo `UintMax + 1`; `sign`, `digits` and `exact` are the text read, as a
number without a width, and only there to compare with.  `fast` counts the digits
the code reads without looking for the end of the chunk or for overflow
(`FastDigits`, 17 in the code).

### SchemaCompiler

`work` is what the program has still to do: the calls on its C stack, and what comes
after each of them, as a sequence of small tasks; `ret` is what the last one
returned.  `defs` and `infos` are the hash table of definitions and the list of
`type_info`; an index takes the place of a pointer, 0 of NULL.  The tasks follow the
functions of `schemac.c`: `ParseSchemaFile`; `ProcessDefinitions`, with the `alloc`
task for `alloc_definition` and its states (`AllocRef`, `AllocSchema`,
`AllocCircular`, `AllocDone`, `Resolved`), then `FillDefinition`; `ResolveRef`
... `NameArray` are `resolve_type` and `alloc_type`; `Fill`, `FillLink` and `Store` are
`struct_fill` and `array_fill`, a link at a time, in the `Slot` of a type; `DoCodegen`, `DefineDefinition`, `DefineType`,
`Defined` and `DefineMembersStruct` write the output.  `header` is the sequence of declarations
as a C compiler would see them: those between `#ifndef` and `#endif` are there
unless the macro is in `macros`.  `Crash` is a NULL pointer that is read, `Die` the end in
`xalloc` or `die`, possible at any time.

`dest` is what `parse_schema_file` leaves in `main`'s `struct schema`.  The parse may fail where
no frame of the schema itself is on the stack to clear it: `eu_parse_destroy` then releases it, and its
extra members are left pointing to what was freed (`released`).  If the file could not be opened, the struct
was never written to (`unset`).  `main` calls `schema_fini` on it all the same, and `Exit`
has both outcomes then, a crash and luck.  `ParseNothing` is the parse after an `eu_parse_create` that returned NULL.

### EuIntroduce

`calls` are the activations of `introduce_struct` and `eu_introduce_array` on the C
stack, which is also the chain that `eu_introduce_aux` searches; `now` is what it does
next: enter with a descriptor, or return metadata or NULL.  Every `malloc` may fail.
One block stands for the memory of a struct, whose two descriptors share it.
`spoiled` remembers that something incomplete was published, which can only come of a failed
`malloc` (see below).

## Runs

Constants and bounds are in the `.cfg` files.

### `stack` – MCEuStack.cfg

Word of 2 bytes, frames of 1 and 2 words, up to 3 nested parsers, a block of up to
16 bytes, up to 3 bytes of scratch in steps of up to 2; malloc succeeds.

- `FramesIntact`: the frames of all paused parsers are on the stack, complete,
  innermost first; regions do not overlap and are aligned.
- `ResumesInnermost`: the popped frame is that of the innermost paused parser.
- `CanReinstate`: while it has not touched the stack, putting the frame back restores it.
- `ScratchIsText`: no frame was put over scratch text.
- `ReadsInBlock`: both walks over frames look inside the block only.
- `ImplementsFrameStack`: the bytes, read back as frames, behave like `FrameStack`.
- `FiniEnds`: `eu_stack_fini` reaches the end of both regions exactly.

Why the bounds are enough: a frame size that is not a multiple of the word is
included (3 bytes), three depths let two pauses leave frames in both regions with one
more parser running; scratch of 0 to 3 bytes meets every branch of
`eu_stack_reserve_scratch` (room, consolidation helps, bigger block), and the block
doubles three times.

### `stack_malloc` – MCEuStackMalloc.cfg

The same with malloc that may fail, and two characters so that text can be told
from other text.

- `DestroysInnermostFirst`: every frame destroyed is one of a parser further out
  than the frame before: inner before outer and none twice, also after a failure
  between two allocations of one pause.
- `KeepsText`: only a write from the start of the scratch area or a reset loses text.

Deadlock is not checked: after a failed malloc `eu_stack_fini` may look outside of
the block (see `stack_malloc_fini`), where the model stops.

### `parse` – MCEuParse.cfg

All six types, two nested containers, literals with two letters after the first.
The environment avoids five situations that are known to go wrong (`Situations`):

| Situation | Why it is avoided |
|---|---|
| "escape split twice", "end after bad escape", "space after cut integer" | `split_twice`, `torn_frame` and `stale_number` show what comes of them |
| "empty chunk before number" | `number_parse_sm.c:15` reads `*p` without looking whether there is input, also when it is resumed there with an empty chunk: one byte behind it, as in `test_parse_macro.h:41`, which feeds empty chunks to every parser (`require(eu_parse(parse, &c, 0));`) |
| "misread hex digit" | a `d` or `e` (or a `t`) among the digits of an escape, which the parser's table refuses (or takes), see `values`: here it would be seen as a text that is not the grammar's |

- `InnermostFirst`: all parsers but the innermost wait for a value, in frames
  and on the C stack.
- `ReadsOnlyInput`: the number parser never reads `*p` at the end of the chunk.
- `ConvertsOneNumber`: the text that `strtod` is given is that of one number, although an
  integer that was cut leaves its own in the scratch area: whoever comes next sets the text
  instead of appending to it, or puts it back to none.
- `ImplementsGrammar`: for every text and every way to cut it, the parsers' contexts
  taken together are those of a pushdown automaton that reads the uncut text; the
  same texts are accepted and rejected, and none before its first wrong character
  (or the number it ends) was read.
- `ParseReturns`: every call of `eu_parse` and `eu_parse_finish` returns.

Why the bounds are enough: two containers and a value in the inner one have three
frames: one left over from an earlier pause, one being resumed, and a new one inside it.
One container with two members or elements is what it takes for one number's text to meet the
next.  Texts are of any length: nothing but the depth is bounded, and the theorems
of `EuParseProofs` are for all depths.

### `generate` – MCEuGenerate.cfg

Sixteen values: every kind of leaf, empty and full arrays and structs, members that
are absent, extras, a number that is not finite, nested up to four deep; buffers of
0 to 12 bytes in any order; 3 digits for an integer, 5 bytes for a double.

- `OutputInBuffer`: `output` never passes `output_end`.
- `FillsBuffer`: a call that leaves room has generated all or failed.
- `ImplementsWriter`: of a `Clear` value, what is written is its text, in order,
  and the generator is done exactly when all of it is written.  A value is `Clear`
  when no struct in it has extras and also a member behind the first (see
  `generate_extras`).
- `GeneratesAll`: generation comes to its end.

Why the bounds are enough: each token is at most 6 characters, so 12 bytes hold
two and every way to cut one; buffers of different sizes follow each other freely, so that
frames of up to three pauses are on the stack; the deepest value has a number in an array in a
struct in a struct.

### `values` – MCValues.cfg

`EuOwnership`, `EuString` and `EuNumber`, one of them in a behaviour (`part`): they
share no state, and their product would say nothing more.

- `MemorySafe`: no `free` of anything but a live block, no `fini` of what is no
  longer there, whatever the cuts, errors and the moment of `eu_parse_destroy`.
- `OneOwner`, `NoDangling`: while a document is parsed, and while the client has it,
  each block has exactly one owner and each pointer leads to a live block: also
  when arrays and members move, and when an error releases a struct.
- `NothingLost`: after `eu_parse_destroy` or the client's `fini` nothing is left.
- `StringExact`: the bytes are those the text stands for, wherever it is cut; what
  is no string is refused, and only that.
- `BufferHolds`: nothing is written behind a buffer.
- `IntegerExact`: an integer that fits has its value, and others become doubles.
- `FastInChunk`: the digits that are read without a look are in the chunk.

Why the bounds are enough: there is a type of every kind, alone and within each
other (a struct with a string and an array of pointers to structs; variants that
hold any of them); arrays of up to two elements with room for one at first (8 in the
code) grow once, which moves what a parser in them points to; four nested parsers
let each container be paused within each; six allocations are what the largest of
these documents takes.  Strings are all texts of up to two pieces of every kind
(letters, escapes, code points of one, two and three bytes, wrong ones) and of
three of some, cut in any way.  Integers of four digits in words of 8 bits overflow in each way: over
`INT64_MAX`, over `UINT64_MAX`, and by another digit; with chunks of two
characters and one unchecked digit the unchecked ones may end a chunk.

Two properties say what they leave out: what an error path forgets (`dropped`:
elements behind `len` when an element fails, `array_parse_sm.c:108`, and those of an
array that cannot grow, `array_parse_sm.c:70`; members of a struct that fails in `struct_parse_sm.c:194`) leaks, and is no
violation of `OneOwner` or `NothingLost`.  `Repeats = FALSE`: no member occurs twice; see
`repeated`.  The
documents have no escape sequence with `d`, `e` or `t` among its digits, for which
`StringExact` does not hold: `unescape_table` gives `d` and `e` the value 10
(`unescape.c:51`), and with it entries without the flag of a digit, so that `\u001e`,
which the library itself writes for the byte 30 (`test.c:272`), is refused; and the
entry of the escape `t` has that flag, so that `\u000t` is not.

Deadlock is not checked: documents end.

### `schemas` – MCSchemas.cfg

`SchemaCompiler`, and when it has ended well, `EuIntroduce` over the descriptors it
generated (`Link`).

- `ErrorsExact`: code is generated for every schema without an error and no other,
  and a schema with an error leaves no files.  `schemac` crashes in two cases only: on
  documents that are known (`DeadlyDocument`), and when it could not read the file, where it
  gives `schema_fini` a schema that was never set, or was released (`FiniCrashes`).  It never
  crashes after it has reported an error of a document that it has read.
- `ResolvedExact`: every link of every type is the type at the end of the
  references, the same one for all that refer to it.
- `EmittedOnce`, `HeaderWhole`: no struct is declared twice; what a declaration holds by value
  is declared before it; everything a definition or a member leads to is there.
- `OneMetadata`: each type has at most one piece of metadata, and no other is in memory.
- `LinksPublished`: what is published is complete and leads only to what is published.
- `Settles`: `schemac` ends, and `eu_introduce` returns.

Why the bounds are enough: two definitions of every kind, each of which may refer to
itself, to the other or to nothing, and a document that uses both, give references
forward, backward, in circles and through arrays, members and extra members, two
levels deep; the wrong and the deadly documents have each mistake at each place
where the code looks for it.  Six types and six blocks are the most that such a document
makes.  Blocks are interchangeable, so the run lets `malloc` take the first free one.

What the properties except: `HeaderWhole` does not ask for the elements of arrays,
which `array_define` does not define; `NamesClash` names the documents in which two arrays get one
name.  After a failed `malloc` an array may be published without its element's
metadata (`array.c:307` does not look), and a nested type while the type around it,
to which it points, fails and is freed (`struct.c:838`): `spoiled`.

Deadlock is not checked: programs end.

### Fairness

`eu_stack_fini`, `eu_parse` and `eu_parse_finish` are single calls of a sequential
program: once entered, the processor goes on.  `EuStack` assumes weak fairness of
`Destroy` and `Free`, and nothing of the client, who may never call.  `EuParse` assumes
weak fairness of a step within a call, and strong fairness of `ChunkEnds`: a chunk
has a length, so whoever keeps looking at the next character gets to its end.
Nothing makes the client supply another chunk.  In the `TORN` state, and in the white space
before a number, the environment may never end the chunk when it avoids that situation, so
`ParseReturns` claims nothing there.

`EuGenerate` assumes weak fairness of a step within a call, as above, and strong
fairness of `CallWithRoom` for `GeneratesAll` only: the caller comes back until all is
generated, and does not offer empty buffers only, as the loop of `test_common.c:46`
does.  Buffers of one byte are enough.

`MCSchemas` assumes weak fairness of `schemac` and of a call of `eu_introduce`, both
sequential programs.  Nothing makes a client call `eu_introduce`.

## Findings

Six runs show disagreements between what the repository says and what the code
does.  Each checks one property and is expected to be violated.

- `stack_malloc_fini` (`ReadsInBlock`): `eu_stack_alloc` and
  `eu_stack_reserve_scratch` double `stack_area_size` before they call malloc; if it
  fails the size stays doubled, and `eu_stack_fini` takes what is behind the block
  for frames.
- `stale_number` (`NeverAborts`): an integer that was cut leaves its text in the scratch area
  (`number.c:201`).  A number that is paused in the white space before it has no text yet, but when
  it is resumed and cut again, or converted, its text is appended to what is there
  (`number_parse_sm.c:262`, `number.c:207`).  For doubles, `[12`, `3, `, `4`, `.5]`
  give 124.5 instead of 4.5; with `-4` in place of `4`, `strtod` stops at the sign, and the program
  is aborted where `number.c:149` says "this should never happen".
- `split_twice` (`InnermostFirst`): an escape sequence in a member name that is cut
  a second time makes the object's frame land behind those of its parents, which are
  resumed first.  `{"a":{"\u0041":1}}`, cut after `\u0` and after the next `0`, is
  rejected.
- `torn_frame` (`NoTornFrame`): a bad escape sequence in a resumed string whose
  closing quote is not in the chunk makes `pause_unescape` compute the length from
  NULL.
- `generate_extras` (`WritesText`): `struct_gen_resume` derives the position in the
  extras from `i` also while `i` counts members.  A struct that was paused in a member
  behind the first, and gets to its extras within one buffer, leaves out its first
  extras and reads behind the last.  With buffers of one byte this heals, as the
  next pause in the extras sets the position right; the tests generate no struct
  that has both.
- `repeated` (`MemorySafe`): `euphemus_int.h:42` says that a value's memory is
  cleared before its parse function is called.  When a name occurs twice in an
  object, the second value is parsed over the first (`struct.c:122`, `162`): a
  number there is then taken for a pointer and freed.  The `TODO` file has an entry for it.

The situations of the parser have names (`Situations` in `EuParse`), and `Avoid` says which of
them the environment does not create; each of its three runs here allows one.

## Proofs

Checked by `tlapm`; nothing is taken on trust but the named assumptions about
constants, all of which TLC evaluates too.

### EuStackProofs

For all word sizes, frame kinds and sizes, block sizes, depths and texts:

| Theorem | States |
|---|---|
| `StackInvariant` | `SInv` is an invariant, whether mallocs fail or not |
| `TypeCorrect`, `InnermostFirst`, `ReinstateIsSafe`, `ScratchStaysText` | `TypeOK`, `ResumesInnermost`, `CanReinstate`, `ScratchIsText`, whether mallocs fail or not |
| `DestroyedInnermostFirst` | `DestroysInnermostFirst`, whether mallocs fail or not |
| `EarlierTextStays` | `KeepsText`, whether mallocs fail or not |
| `FramesStayIntact`, `LoopsReadInBlock` | `FramesIntact`, `ReadsInBlock`, if `MallocFails = FALSE` |
| `RefinesFrameStack` | `ImplementsFrameStack`, if `MallocFails = FALSE` |

`IInv` is the conjunction of `TypeOK`, `FramesIntact`, `ResumesInnermost`, `CanReinstate`
and `ScratchIsText`: none is inductive alone.
`FramesIntact` needs `CanReinstate` for the step that puts a frame back, and
`ResumesInnermost` for the depth of the frames saved next; `CanReinstate` needs
that the layout is intact when the frame is popped.  The argument goes along the
operations: lemmas say that copying, rounding, widening, consolidating and writing text
keep frames framed and depths descending (`Framed`, `Descending` are local
statements about single bytes, so that no induction over the frames is needed), then
each action is one of these operations.

`IInv` ends with the first malloc that fails: the size is doubled and the block is not,
and the parsers that had not saved themselves leave a gap in the depths.  `SInv` says
what holds then (`Remains`): with some other size put for `stack_area_size` the layout is sound,
the new frames are those of depths `t` to `mid + 1`, the old ones of `bottom` to 1, with
`bottom <= mid`, and the frame destroyed last was deeper than `t`.  That is enough
for every frame to be destroyed once and in order, although `FramesIntact` and
`ReadsInBlock` fail (`stack_malloc_fini`).

`RefinesFrameStack` is the only proof about the stack that needs an induction over
frames, because the mapping `FramesIn` walks through a region from frame to frame.
A `Chain` is a sequence of offsets, each of them the end of the frame before; every region is
one (`RegionIsChain`, by induction over the number of bytes that are left), and
the walk visits its members (`WalkOfChain`, by induction from the end of the
chain).  What the walk returns is then told without it (`Listed`: at each place the
frame of the depth that belongs there), so that what a move of bytes does to it, and what
putting two regions one behind the other does, follows from single bytes again
(`MovedFrames`, `JoinedFrames`).  On top of that there is one lemma for each
way in which an operation changes the frames (`CarriedFrames`, `MergedFrames`,
`PushedFrames`, `PoppedFrames`) and one for each action (`...Refines`).
That a frame put back was at the bottom of its region, and the region not empty, needs
that the depths do not ascend along a region (`DepthsDescend`).
`DInv` bounds the depths by `MaxDepth`, as the type of `FrameStack`'s frames does.

### EuParseProofs

For all sets of types, literals and depths, and all texts and cuts:

| Theorem | States |
|---|---|
| `TypeCorrect` | `TypeOK`, unconditionally |
| `ResumedInnermostFirst` | `InnermostFirst`, if the environment avoids "escape split twice" |
| `NumbersReadInput` | `ReadsOnlyInput`, if it avoids that and "empty chunk before number" |
| `NumbersConvertAlone` | `ConvertsOneNumber` and `NeverAborts`, if it avoids "escape split twice" and "space after cut integer" |

The steps of all parsers have one of six *shapes* (go on, call, return, fail, pause,
reinstate); each parser is shown to take such steps only (`...Steady`), except the
object parser that finishes an escape sequence, which is treated apart.
What is proved of a shape then holds of every parser.

`IInv` adds to `InnermostFirst` what keeps the dangerous pause out of reach: while
that parser runs it does not see the end of the chunk.  This is the environment's
promise, except for the end behind the space of `eu_parse_finish`, where it is a
fact about the code: the space is no part of an escape sequence, so a parser that is
in one fails, and those that are resumed after it wait for a value.  Also needed:
initial and resumed-string parsers are alone on the C stack, so that a reinstated
frame has no caller still to save itself; and `fresh` is empty while an old frame runs.

`NumbersReadInput` goes by where a number's parser can be at its start, where it reads
`*p` unasked (`Starting`).  It gets there when it is called, which other parsers do
only at a character; or it is the first call of all, or resumed at its start, and then the chunk is
not empty.  The space of `eu_parse_finish` is a chunk too, and behind it the
frames that are resumed are parsers that wait, by `InnermostFirst`: hence the first condition
is needed here as well.

`NumbersConvertAlone` goes by who may find an integer's text in front of its own.  `Alone`
adds to `IInv` that, while such a text is there (`~Clean`), no paused number is in a frame and
no number that was resumed is running; only such a one appends to what is there.  A
number that is called finds the text too, but when it is cut it sets its own, and in the white space
before it the environment does not end the chunk.  Again the space of `eu_parse_finish`
is apart: a number may be paused behind it with an integer's text in place, but nothing comes after it.
The text then is never `signed` or `broken`, so that `strtod` stops nowhere (`Aborting`, a shape of step
of its own, cannot happen).

### EuGenerateProofs

For all values and shapes (also those that are not `Clear`), all sizes of buffers and all
sequences of them:

| Theorem | States |
|---|---|
| `TypeCorrect` | `TypeOK` |
| `StaysInBuffer` | `OutputInBuffer` |
| `FillsTheBuffer` | `FillsBuffer` |

A generator is `Needy` when it writes without a look at `output_end`: a value at its
start, and a struct at the head of its loop.  `IInv` says that a needy generator is
always the innermost, never saved, and has room for a byte; that all others are `Calm`;
and that generators pause only when the buffer is full.  `OutputInBuffer` follows
since nobody else writes more than the room it has seen, and `FillsBuffer` because what is
not full when a call returns never paused.  As in the parser, each step has one
of six shapes, and each generator is shown to take such steps.  The named assumption
`RoomAssumption` says that digits fit into the room that `number.c` reserves for them.

### EuOwnershipProofs

For all sets of types, however they are nested in each other, all depths and lengths, all
capacities, all chunks, and all errors in the text or of `malloc`, if no member of an object
occurs twice (`Repeats = FALSE`; with repeats the theorems would be false, see `repeated`):

| Theorem | States |
|---|---|
| `OwnershipInvariant` | `IInv` is an invariant |
| `ParsingTypes` | `TypeOKOwnership` |
| `ParsingOwners` | `OneOwner` |
| `ParsingPointers` | `NoDangling` |

The last three are about the phases of a parse (`Parsing`): from `eu_parse_create` until
`eu_parse_destroy` is called, complete, paused or failed, also when the client has claimed the
value.  What the `fini` functions do with the document then, and what a client changes in it, is
checked by TLC only.

A block with two owners would be the work of two parsers, often of two chunks, so the
invariant has to say what each parser may touch.  A parser `Owns` the cells of its value, the
block of its elements or of its extra members, and the pointer to its struct.  Of this, one
that waits for a parser it has called has left a part to it (`InSlot`): the element or the
member that is being parsed.  `IInv` has four parts:

- `Heap`, about memory alone: positive pointers lead to live blocks, no two to the same (`Unshared`),
  and every block has one, unless it is a string buffer that a parser still holds, or was `dropped`.
- `Fit`, about one parser and what it owns: the block has the size that its capacity says,
  the elements behind `len` are cleared, and so are the members not met yet (which
  is what `Repeats` breaks), so that the parser called next finds a cleared value.
- `Apart`, about each two parsers: what both own is in the part that the outer has left
  to the inner.  So a step of the innermost, which writes only what it owns, leaves
  `Fit` of the others alone (`OthersKeep`), and if it moves a block, no other has addresses in it.
- While an error unwinds there is less to say, and less holds (`Unwound`): the
  blocks that the parsers free are those that the outer ones, which are older, are not in.

`Fit` and `Apart` are about parsers wherever they are, on the C stack or in frames: `Chain` is
both, innermost first, with the lengths of paused arrays read back from their values.  A pause
and a resume leave the chain as it is.  The steps of the parsers then are of a few shapes (`GoesOn`,
`Returns`, `Calls`, `Breaks`), and for each action there is a lemma (`ArrayGrowKeeps`, ...) that
it has one of them.

### EuStringProofs

For all documents, and all ways to cut their text:

| Theorem | States |
|---|---|
| `StringInvariant` | `StringInv` is an invariant |
| `StringTyped` | `TypeOKString` |
| `BufferAlwaysHolds` | `BufferHolds` |
| `StringAlwaysExact` | `StringExact`, if the bytes that a document gives are those of its text |

What a text stands for, as `StringExact` takes it, is given with each document.  The
theorem is about cuts, so `Decoded` computes it with the code's own table, from the uncut
text: the theorem says that every parse in chunks does the same as one in a single
chunk.  That the single chunk is right is what TLC checks, on its documents, which
satisfy the condition.

`StringInv` says of a paused string that the bytes in its buffer, with the state of
the escape it is in, are what unescaping the whole text has got to after the characters
that were eaten, and that none of these ends the string.  Three lemmas carry the proof:
what was written before does not matter to what a character does (`CharBehind`), so a part of
a text is unescaped on its own as it is in the text (`Segments`); a character
writes no more bytes than the characters of its escape that were read (`Along`, with the bound
`Limit` on a code by its digits), which is why the buffers suffice; and a quote
is escaped, by the count of the backslashes before it, exactly when unescaping is
behind a backslash there (`Parity`), although the code looks for the end of a chunk
before it unescapes.

### EuNumberProofs

For all widths, numbers of unchecked digits, lengths of numbers and chunks:

| Theorem | States |
|---|---|
| `TypeCorrect` | `TypeOKNumber` (not in a run) |
| `IntegersExact` | `IntegerExact` |
| `FastStaysInChunk` | `FastInChunk` |

`IInv` says that, as long as no overflow was seen, `int_value` is `exact`, not
only modulo the word: the checked digits because `MayOverflow` is asked before
the multiplication, the unchecked ones because of how many they may be.  What is proved rests on
`DigitsAssumption`, that `FastDigits + 1` digits fit into `INT64_MAX`, as the comment
in `number_parse_sm.c` says ("18 decimal digits is always less than 2^63."), and on
`WordAssumption`.  Where the number ends, the sign and the width decide which of
the values of `int_value` fit; that is one case distinction for each action that ends it.

### SchemaCompilerProofs

For all sets of schemas, however deep, and all documents made of them, also those on which `schemac`
reports an error or crashes, or runs out of memory:

| Theorem | States |
|---|---|
| `CompilerInvariant` | `CompilerInv` is an invariant |
| `CompilerTyped` | `TypeOKCompiler` |
| `ResolvedAlwaysExact` | `ResolvedExact` |
| `DeclaredOnce` | `EmittedOnce` |
| `HeaderAlwaysWhole` | `HeaderWhole` |

The named assumption `SchemaAssumption` says what schemas and documents are: records
of the forms that the constructors of `SchemaCompiler` make.

`CompilerInv` describes the calls that are still to be made.  They are sorted by phase
(`Ordered`): definitions are allocated, then filled in, then the main schema is
resolved, then code is generated.  Each says what it relies on:

- A call that takes the result of the one before it is next to a call that gives the
  type of the right schema (`Returned`): the stack of the program, read as a chain.
- A definition that has a type is led to a definition that is no reference, in fewer
  steps than there are settled definitions (`DefsWhole`).  The number is what makes
  the end reachable within `Len(doc.defs)` steps, as `EndOf` asks: a reference is settled
  after what it leads to, so its way is longer by one, and so is the set.
- A link without a type is one that a call will still set, unless there has been an error
  (`LinksWhole`): nothing is forgotten between the phases.
- Of the header (`LateWhole`): before the declaration of a struct there stands the call
  that declares its extra members, and before that those that define its members
  (`Chained`, `MembersFirst`); a type in the state `DEFINING` has the end of its definition on
  the stack, and that a type is declared is read off its state (`StateWhole`); a type is wanted
  or not begun, and those wanted are begun or due (`AllWanted`).

`EmittedOnce` then follows from `Once`: the declaration of a type is on the stack at most once, and
not at all when it was made.  `HeaderWhole` follows when the stack is empty.  The members
and extra members of a struct that contains itself need the case distinction of
`StateWhole`: an array is declared as the first thing of its definition, so whoever
meets it in the state `DEFINING` finds it declared, or is not there yet.

### EuIntroduceProofs

For all types, however they refer to each other, all sets of blocks, and all failures of `malloc`:

| Theorem | States |
|---|---|
| `TypeCorrect` | `TypeOKIntroduce` |
| `MetadataIsOne` | `OneMetadata` |
| `LinksArePublished` | `LinksPublished` |
| `PublishedMetadataStays` | `PublishedStays`: what is published is never changed or freed (not in a run: `schemas` would check the same on few types) |

The invariant describes the chain.  Each activation but the latest waits for the one
before it in `calls`, for the link it has got to: without this nothing could be said of
what a returning activation hands to the one below.  Metadata in the chain have
the links they got so far, all of them right, and published metadata have all.  A link is
right when it is NULL, or of the library, or the form that the descriptor asks for, of a
block of the right type that is published or still in the chain, unless `spoiled`;
when the chain is empty only the published are left, which is `LinksPublished`.

### Induction

The provers have no induction: a theorem of the library that takes a predicate as a
parameter cannot be used.  What can be used is that a set of numbers which is not empty has a least
element (`WFMin`), so where a proof needs induction, over the characters of a text or the steps from
reference to reference, it is about the set of the numbers for which something holds
(`Induction` in `EuStackProofs`, `EuStringProofs` and `SchemaCompilerProofs`).  The recursive functions
themselves are shown to satisfy their equations first (`LeadsDefined`).

### Only model-checked

- Liveness: `FiniEnds`, `ParseReturns`, `GeneratesAll`, `Settles`.
- `MemorySafe` and `NothingLost` of `EuOwnership`, which are about the `fini` functions, and its
  other properties once the client changes the document it has claimed: an
  invariant for these would have to sort the work that is left by the blocks it will free.
- `ErrorsExact`, whose reference definition looks into a document to a depth that is fixed
  (`Inner`), enough for the documents of the run only.
- That an uncut string is what it stands for (see `EuStringProofs`).
- The refinements `ImplementsGrammar` and `ImplementsWriter`, whose
  texts are defined by recursion.
- What the stack does after a malloc has failed, beyond the theorems above that do not
  exclude it: the frames left are not those of all paused parsers, and `ImplementsFrameStack`
  does not hold.

## What is not modelled

- Calls after an error, and what `eu_parse` returns for them.
- Allocation failures: in the parsers they are an error in `EuOwnership`, except of
  the first elements of an array, which the code writes to before it looks, and of
  frames; in the stack and the introduction they are modelled.  In the generators `escape.c:150` and
  `number.c:351` do not check for them.
- `eu_generate_destroy`, whose frames own nothing.
- How `snprintf` and the division by ten make the digits of a number; what `strtod` returns.
- In `EuParse`, what is parsed.  Control does not depend on it, with these exceptions:
  whose text is in the scratch area, which is modelled; and integer overflow, `strtod` out of
  range and the type of a member, which are nondeterministic.  In `EuNumber`, the forms of fractions and exponents, which are
  in `EuParse`.
- In `EuOwnership`, the input, `eu_variant_reset` and the client's calls of `eu_string_*`;
  the assignment of an object to a variant that has been something else (it
  does not clear what it returns, `struct.c:732`), which only a client that ignores this could do.
- In `EuString`, surrogate pairs, for which the code has no case, and a chunk that ends the
  text behind a wrong escape sequence (see `torn_frame`).
- In `SchemaCompiler`, the names of members and the C names made from them, the offsets,
  presence bits and function bodies in the output, layout, the parse of
  the schema file (it gives any document, or fails), and the memory of `schemac` itself
  but for what becomes of the schema when that parse fails.
- In `EuIntroduce`, what is copied from descriptors to metadata unchanged; threads, which
  the code does not provide for either.
- Accessors, paths and iterators: look-ups in values that they do not change.
- The locale switched around `strtod`: process state, not the library's.

## Plan

In this order, the most important behaviour first; all but the last are done.

1. `EuStack`, `FrameStack`, `EuStackImpl`; proofs of the stack.
2. `EuParse`, `JsonGrammar`, `EuParseImpl`; proofs of the frame order, of where
   numbers are read, and of whose text they are converted from.
3. `EuGenerate`, `JsonWriter`, `EuGenerateImpl`; proofs of its bounds.
4. `EuOwnership`: what frames and values own along pauses, errors, repeated members
   and `eu_parse_destroy`.
5. `EuString` and `EuNumber`; proofs of the bytes, wherever a string is cut, and of the integers.
6. `SchemaCompiler`, `EuIntroduce` and their composition; proofs of the references, of the header
   and of the metadata.
7. Proofs of who owns what while a document is parsed (`EuOwnershipProofs`), of the stack when
   mallocs fail, and that it implements `FrameStack`.
8. Left: proofs of `MemorySafe` and `NothingLost` for all constants; of `EuGenerate` that no
   memory behind the extras is read for `Clear` values; the iterators and paths.
