-------------------------- MODULE EuOwnershipProofs --------------------------
(***************************************************************************)
(* While a document is parsed, whatever its type, its length and depth:    *)
(* every block has one owner, and no pointer, parser or frame refers to    *)
(* what is no longer there.  First memory, then what a parser governs, the *)
(* parsers together, the steps, and the properties.                        *)
(***************************************************************************)
EXTENDS EuOwnership, FiniteSetTheorems, TLAPS

-----------------------------------------------------------------------------
(***************************************************************************)
(* Memory and addresses.                                                   *)
(***************************************************************************)
Addresses == Nat \X Nat
IsMemory(m) == m \in [DOMAIN m -> Seq(Cells)]
ValidIn(m, a) == a[1] \in DOMAIN m /\ a[2] \in DOMAIN m[a[1]]
Get(m, a) == m[a[1]][a[2]]

\* Every positive pointer points to a live block that nothing else points to,
\* and that nobody holds in hand: the blocks of B.  Every block has an owner,
\* unless one was dropped.
Points(m, u, B) ==
    /\ IsMemory(m) /\ u \in Nat \ {0} /\ DOMAIN m \subseteq 1 .. u
    /\ Client \in DOMAIN m /\ B \subseteq DOMAIN m \ {Client}
    /\ \A b \in DOMAIN m : \A i \in DOMAIN m[b] :
          \/ m[b][i].p \in DOMAIN m \ ({Client} \cup B)
          \/ m[b][i].p \in {Null, ZeroLengthPtr, Junk}
Unshared(m) ==
    \A b, c \in DOMAIN m : \A i \in DOMAIN m[b], j \in DOMAIN m[c] :
        m[b][i].p > 0 /\ m[b][i].p = m[c][j].p => b = c /\ i = j
Owned(m, B, d) ==
    \A x \in DOMAIN m \ ({Client} \cup B) :
        d \/ \E b \in DOMAIN m : \E i \in DOMAIN m[b] : m[b][i].p = x
Heap(m, u, B, d) == Points(m, u, B) /\ Unshared(m) /\ Owned(m, B, d)

-----------------------------------------------------------------------------
(***************************************************************************)
(* What one parser governs.                                                *)
(***************************************************************************)
\* The cells of its value; the cell that points to its block, of elements or of
\* extra members, and how that is used.
Base(act) == IF act.fn = "struct" THEN StructWidth(act.type)
             ELSE IF act.fn \in {"initial", "value"} THEN Width(act.type) ELSE 1
InBase(act, a) == /\ a[1] = act.at[1]
                  /\ act.at[2] <= a[2] /\ a[2] < act.at[2] + Base(act)
Anchor(act) == IF act.fn = "struct" THEN Extras(act.type, act.at) ELSE act.at
Unit(act) == IF act.fn = "struct" THEN EntryWidth(act.type)
             ELSE Width(Element[act.type])
Block(m, act) == Get(m, Anchor(act)).p
Count(m, act) == IF act.fn = "struct" THEN Get(m, Anchor(act)).len ELSE act.len
Room(m, act) == IF act.fn = "struct" THEN Get(m, Anchor(act)).cap ELSE act.cap
HasBlock(m, act) == \/ act.fn = "array" /\ act.st # "open"
                    \/ act.fn = "struct" /\ Get(m, Anchor(act)).cap # 0

Owns(m, act, a) ==
    /\ a \in Addresses /\ ValidIn(m, a)
    /\ \/ InBase(act, a)
       \/ a = act.ptr
       \/ HasBlock(m, act) /\ a[1] = Block(m, act)

\* The part of it that it has left to the parser it called.
SlotAt(m, act) == IF act.fn = "struct" THEN act.childAt
                  ELSE ElementAt(act.type, Block(m, act), act.len)
SlotWidth(act) == IF act.fn = "struct" THEN Width(act.child) ELSE Unit(act)
InSpan(a, n, x) == x[1] = a[1] /\ a[2] <= x[2] /\ x[2] < a[2] + n
Waiting(act) == act.st \in {"element", "after"}
InSlot(m, act, a) == Waiting(act) /\ InSpan(SlotAt(m, act), SlotWidth(act), a)

StatesOf(fn) == CASE fn = "string" -> {"text"}
                  [] fn = "array" -> {"open", "element", "comma"}
                  [] fn = "struct" -> {"open", "name", "escape", "named", "after"}
                  [] OTHER -> {"start"}

FitBase(m, act) ==
    /\ act \in ParserType /\ act.st \in StatesOf(act.fn)
    /\ \A i \in act.at[2] .. act.at[2] + Base(act) - 1 :
          ValidIn(m, Address(act.at[1], i))
    /\ act.fn \in {"initial", "value"} =>
          \A i \in act.at[2] .. act.at[2] + Base(act) - 1 :
              Get(m, Address(act.at[1], i)) = Cleared
FitString(m, act) ==
    /\ act.fn = "string" => Get(m, act.at).p <= 0
    /\ act.buf # Null => /\ act.fn = "string"
                         /\ act.buf \in DOMAIN m /\ m[act.buf] = <<>>
FitBlock(m, act) ==
    act.fn \in {"array", "struct"} =>
        IF HasBlock(m, act)
        THEN LET b == Block(m, act) IN
             /\ b > act.at[1] /\ b \in DOMAIN m
             /\ Room(m, act) > 0 /\ Count(m, act) <= Room(m, act)
             /\ Len(m[b]) = Room(m, act) * Unit(act)
             /\ \A i \in Count(m, act) * Unit(act) + 1 .. Len(m[b]) :
                   m[b][i] = Cleared
        ELSE Block(m, act) <= 0 /\ Count(m, act) = 0
FitArray(m, act) == act.fn = "array" =>
    act.cap > 0 /\ (act.st # "open" => act.len > 0)
FitPtr(m, act) == act.ptr # None =>
    /\ act.fn = "struct" /\ ValidIn(m, act.ptr) /\ act.at[2] = 1
    /\ Get(m, act.ptr).p = act.at[1] /\ act.ptr[1] < act.at[1]
\* The next member to parse, or the one that is parsed.
IsMember(act) ==
    \E i \in act.seen \cap DOMAIN Members[act.type] :
        /\ act.child = Members[act.type][i]
        /\ act.childAt = Address(act.at[1], act.at[2] + i - 1)
IsExtra(m, act) ==
    /\ HasBlock(m, act) /\ Count(m, act) > 0 /\ act.child = Element[act.type]
    /\ act.childAt = ValueAt(act.type, Block(m, act), Count(m, act))
FitMembers(m, act) == act.fn = "struct" =>
    /\ \A i \in DOMAIN Members[act.type] \ act.seen :
          Get(m, Address(act.at[1], act.at[2] + i - 1)) = Cleared
    /\ act.st \in {"named", "after"} => IsMember(act) \/ IsExtra(m, act)
    /\ act.st = "named" =>
          \A i \in act.childAt[2] .. act.childAt[2] + Width(act.child) - 1 :
              Get(m, Address(act.childAt[1], i)) = Cleared

Fit(m, act) == /\ FitBase(m, act) /\ FitString(m, act) /\ FitBlock(m, act)
               /\ FitArray(m, act) /\ FitPtr(m, act) /\ FitMembers(m, act)

-----------------------------------------------------------------------------
(***************************************************************************)
(* The parsers together, innermost first.                                  *)
(***************************************************************************)
Home(act) == IF act.ptr = None THEN act.at[1] ELSE act.ptr[1]

\* What act governs is outside what the outer parser out does, but for the part
\* that out has left to it.
Apart(m, act, out) ==
    /\ out.at[1] <= Home(act)
    /\ \A a \in Addresses : Owns(m, act, a) /\ Owns(m, out, a) => InSlot(m, out, a)

Good(m, s) == /\ \A k \in DOMAIN s : Fit(m, s[k])
              /\ \A k \in DOMAIN s : k > 1 => Waiting(s[k])
              /\ \A j \in DOMAIN s : \A i \in 1 .. j - 1 : Apart(m, s[i], s[j])

RestoredIn(m, act) ==
    IF act.fn = "array"
    THEN [act EXCEPT !.len = Get(m, act.at).len, !.cap = Get(m, act.at).cap] ELSE act
ParkedIn(m, c) ==
    [b \in DOMAIN m |-> [i \in DOMAIN m[b] |->
        IF \E k \in DOMAIN c : c[k].fn = "array" /\ c[k].at = Address(b, i)
        THEN LET k == CHOOSE k \in DOMAIN c :
                          c[k].fn = "array" /\ c[k].at = Address(b, i)
             IN  [m[b][i] EXCEPT !.len = c[k].len, !.cap = c[k].cap]
        ELSE m[b][i]]]
Chain(m, c, f) ==
    [k \in 1 .. Len(c) + Len(f) |->
        IF k <= Len(c) THEN c[k] ELSE RestoredIn(m, f[k - Len(c)])]

\* While an error unwinds, and then until eu_parse_destroy.
Upright(m, act) ==
    /\ act.fn # "string" => act.buf = Null
    /\ ValidIn(m, act.at) /\ (act.buf # Null => act.buf \in DOMAIN m /\ m[act.buf] = <<>>)
    /\ act.ptr # None => /\ ValidIn(m, act.ptr) /\ Get(m, act.ptr).p = act.at[1]
                         /\ act.ptr[1] < act.at[1]
Unwound(m, c, f) ==
    /\ \A k \in DOMAIN c : Upright(m, c[k])
    /\ \A j \in DOMAIN c : \A i \in 1 .. j - 1 : c[j].at[1] <= Home(c[i])
    /\ \A j \in DOMAIN f : f[j].fn # "string" =>
          /\ ValidIn(m, f[j].at)
          /\ \A i \in DOMAIN c : f[j].at[1] <= Home(c[i])

\* At most one string parser has a buffer.
Held(c, f) == ({c[k].buf : k \in DOMAIN c} \cup {f[k].buf : k \in DOMAIN f}) \ {Null}
OneHolder(c, f) == /\ \A k \in DOMAIN c : k > 1 => c[k].buf = Null
                   /\ \A k \in DOMAIN f : k > 1 => f[k].buf = Null
                   /\ c # <<>> /\ f # <<>> => c[1].buf = Null \/ f[1].buf = Null

\* Between the steps of a parse that goes on, and of one that has failed.
Active(m, u, d, c, f) ==
    /\ c \in Seq(ParserType) /\ f \in Seq(ParserType) /\ d \in BOOLEAN
    /\ OneHolder(c, f) /\ Heap(m, u, Held(c, f), d) /\ Good(m, Chain(m, c, f))
Broken(m, u, d, c, f) ==
    /\ c \in Seq(ParserType) /\ f \in Seq(ParserType) /\ d \in BOOLEAN
    /\ OneHolder(c, f) /\ Heap(m, u, Held(c, f), d) /\ Unwound(m, c, f)

Parsing == phase \notin {"releasing", "gone"}

IInv == /\ phase \in Phases /\ root \in RootTypes
        /\ claimed \in BOOLEAN /\ fault \in BOOLEAN
        /\ phase \in {"between", "running", "failed"} => calls = <<>>
        /\ phase \in {"parsing", "unwinding"} => calls # <<>>
        /\ phase \in {"between", "running", "parsing"} =>
              Active(mem, used, dropped, calls, frames)
        /\ phase \in {"unwinding", "failed"} =>
              Broken(mem, used, dropped, calls, frames)

-----------------------------------------------------------------------------
(***************************************************************************)
(* Types, cells and memory.                                                *)
(***************************************************************************)
LEMMA TypeFacts ==
    ASSUME NEW t \in Types
    PROVE  /\ Kind[t] \in AllKinds /\ Element[t] \in Types
           /\ Members[t] \in Seq(Types) /\ t # None
           /\ Width(t) \in Nat \ {0}
           /\ StructWidth(t) \in Nat \ {0}
           /\ EntryWidth(t) \in Nat /\ EntryWidth(t) = 1 + Width(Element[t])
           /\ Kind[t] = "struct" => Width(t) = StructWidth(t)
           /\ Kind[t] # "struct" => Width(t) = 1
           /\ \A i \in DOMAIN Members[t] :
                 Members[t][i] \in Types /\ Width(Members[t][i]) = 1
BY TypesAssumption DEF Width, StructWidth, EntryWidth

LEMMA TagFacts ==
    ASSUME NEW t \in Tags
    PROVE  t \in Types /\ Kind[t] # "variant" /\ Width(t) = 1
BY TypesAssumption

LEMMA NoneIsNoAddress == None \notin Addresses /\ None \notin Types
BY TypesAssumption DEF Addresses

LEMMA CellType ==
    /\ Cleared \in Cells /\ Cleared.p = 0 /\ Cleared.len = 0 /\ Cleared.cap = 0
    /\ \A c \in Cells : c.p \in Int /\ c.len \in Nat /\ c.cap \in Nat
BY DEF Cleared, Cell, Cells, Null

LEMMA ZeroedFacts ==
    ASSUME NEW n \in Nat
    PROVE  /\ Zeroed(n) \in Seq(Cells) /\ Len(Zeroed(n)) = n
           /\ DOMAIN Zeroed(n) = 1 .. n
           /\ \A i \in 1 .. n : Zeroed(n)[i] = Cleared
BY CellType DEF Zeroed

LEMMA MemoryFacts ==
    ASSUME NEW m, IsMemory(m), NEW b \in DOMAIN m
    PROVE  /\ m[b] \in Seq(Cells) /\ DOMAIN m[b] = 1 .. Len(m[b]) /\ Len(m[b]) \in Nat
           /\ \A i \in DOMAIN m[b] :
                 /\ m[b][i] \in Cells /\ m[b][i].p \in Int
                 /\ m[b][i].len \in Nat /\ m[b][i].cap \in Nat /\ i \in Nat
BY CellType DEF IsMemory

\* What writing a cell, a new block, and free do.
LEMMA PutFacts ==
    ASSUME NEW m, IsMemory(m), NEW a \in Addresses, ValidIn(m, a), NEW c \in Cells
    PROVE  /\ IsMemory(Put(m, a, c)) /\ DOMAIN Put(m, a, c) = DOMAIN m
           /\ \A b \in DOMAIN m :
                 /\ DOMAIN Put(m, a, c)[b] = DOMAIN m[b]
                 /\ Len(Put(m, a, c)[b]) = Len(m[b])
                 /\ b # a[1] => Put(m, a, c)[b] = m[b]
                 /\ \A i \in DOMAIN m[b] :
                       Put(m, a, c)[b][i]
                       = IF b = a[1] /\ i = a[2] THEN c ELSE m[b][i]
<1> DEFINE q == [m[a[1]] EXCEPT ![a[2]] = c]
<1>1. Put(m, a, c) = [m EXCEPT ![a[1]] = q]
  BY DEF Put
<1>2. m[a[1]] \in Seq(Cells) /\ a[2] \in DOMAIN m[a[1]]
  BY MemoryFacts DEF ValidIn
<1>3. /\ q \in Seq(Cells) /\ Len(q) = Len(m[a[1]]) /\ DOMAIN q = DOMAIN m[a[1]]
      /\ \A i \in DOMAIN q : q[i] = IF i = a[2] THEN c ELSE m[a[1]][i]
  BY <1>2
<1> HIDE DEF q
<1>4. a[1] \in DOMAIN m BY DEF ValidIn
<1>5. /\ DOMAIN Put(m, a, c) = DOMAIN m
      /\ \A b \in DOMAIN m : Put(m, a, c)[b] = IF b = a[1] THEN q ELSE m[b]
  BY <1>1, <1>4 DEF IsMemory
<1>6. IsMemory(Put(m, a, c))
  BY <1>1, <1>3, <1>4 DEF IsMemory
<1> QED BY <1>3, <1>5, <1>6

IsWith(w, m, b, cells) ==
    /\ IsMemory(w) /\ DOMAIN w = DOMAIN m \cup {b} /\ w[b] = cells
    /\ \A x \in DOMAIN m : x # b => w[x] = m[x]

LEMMA WithFacts ==
    ASSUME NEW m, IsMemory(m), NEW b, NEW cells \in Seq(Cells)
    PROVE  IsWith(With(m, b, cells), m, b, cells)
BY DEF With, IsMemory, IsWith

IsWithout(w, m, b) ==
    /\ IsMemory(w) /\ DOMAIN w = DOMAIN m \ {b}
    /\ \A x \in DOMAIN m \ {b} : w[x] = m[x]

LEMMA WithoutFacts ==
    ASSUME NEW m, IsMemory(m), NEW b
    PROVE  IsWithout(Without(m, b), m, b)
BY DEF Without, IsMemory, IsWithout

\* realloc
IsMoved(w, m, b, new, n) ==
    /\ IsMemory(w) /\ DOMAIN w = (DOMAIN m \ {b}) \cup {new}
    /\ \A x \in DOMAIN m \ {b} : w[x] = m[x]
    /\ Len(w[new]) = n /\ DOMAIN w[new] = 1 .. n
    /\ \A i \in DOMAIN m[b] : w[new][i] = m[b][i]
    /\ \A i \in Len(m[b]) + 1 .. n : w[new][i] = Cleared

LEMMA MovedFacts ==
    ASSUME NEW m, IsMemory(m), NEW b \in DOMAIN m, NEW n \in Nat, Len(m[b]) <= n,
           NEW new, new \notin DOMAIN m
    PROVE  IsMoved(Moved(m, b, new, n), m, b, new, n)
<1> DEFINE z == Zeroed(n - Len(m[b]))
           q == m[b] \o z
<1>1. m[b] \in Seq(Cells) /\ DOMAIN m[b] = 1 .. Len(m[b]) /\ Len(m[b]) \in Nat
  BY MemoryFacts
<1>2. /\ z \in Seq(Cells) /\ Len(z) = n - Len(m[b])
      /\ \A i \in 1 .. n - Len(m[b]) : z[i] = Cleared
  <2>1. n - Len(m[b]) \in Nat BY <1>1
  <2> QED BY <2>1, ZeroedFacts
<1> HIDE DEF z
<1>3. /\ q \in Seq(Cells) /\ Len(q) = n /\ DOMAIN q = 1 .. n
      /\ \A i \in DOMAIN m[b] : q[i] = m[b][i]
  BY <1>1, <1>2
<1>4. ASSUME NEW i \in Len(m[b]) + 1 .. n PROVE q[i] = Cleared
  <2>1. i - Len(m[b]) \in 1 .. n - Len(m[b]) /\ i \in Nat /\ ~(i <= Len(m[b])) BY <1>1
  <2>2. q[i] = z[i - Len(m[b])] BY <1>1, <1>2, <2>1
  <2> QED BY <2>1, <2>2, <1>2
<1> HIDE DEF q
<1> DEFINE v == Without(m, b)
<1>5. IsWithout(v, m, b) BY WithoutFacts
<1> HIDE DEF v
<1>6. IsWith(With(v, new, q), v, new, q)
  BY <1>3, <1>5, WithFacts DEF IsWithout
<1>7. Moved(m, b, new, n) = With(v, new, q)
  BY DEF Moved, v, q, z
<1> DEFINE w == With(v, new, q)
<1> HIDE DEF w
<1>8. /\ IsMemory(w) /\ DOMAIN w = (DOMAIN m \ {b}) \cup {new} /\ w[new] = q
      /\ \A x \in DOMAIN m \ {b} : w[x] = m[x]
  BY <1>5, <1>6 DEF IsWith, IsWithout, w
<1>9. IsMoved(w, m, b, new, n)
  BY <1>3, <1>4, <1>8 DEF IsMoved
<1> QED BY <1>7, <1>9 DEF w

-----------------------------------------------------------------------------
(***************************************************************************)
(* The heap: which pointers point where.                                   *)
(***************************************************************************)
\* No block is held or pointed to twice.
LEMMA HeapFacts ==
    ASSUME NEW m, NEW u, NEW B, NEW d, Heap(m, u, B, d)
    PROVE  /\ IsMemory(m) /\ u \in Nat /\ DOMAIN m \subseteq Nat \ {0}
           /\ u + 1 \notin DOMAIN m /\ Client # u + 1 /\ Client \in DOMAIN m
           /\ B \subseteq DOMAIN m
           /\ \A b \in DOMAIN m : \A i \in DOMAIN m[b] :
                 /\ m[b][i].p \in Int /\ m[b][i].p # u + 1
                 /\ m[b][i].p > 0 => m[b][i].p \in DOMAIN m \ ({Client} \cup B)
                 /\ m[b][i].p \notin B
<1>1. IsMemory(m) /\ u \in Nat \ {0} /\ DOMAIN m \subseteq 1 .. u
      /\ Client \in DOMAIN m /\ B \subseteq DOMAIN m \ {Client}
  BY DEF Heap, Points
<1>2. ASSUME NEW b \in DOMAIN m, NEW i \in DOMAIN m[b]
      PROVE  /\ m[b][i].p \in Int /\ m[b][i].p # u + 1
             /\ m[b][i].p > 0 => m[b][i].p \in DOMAIN m \ ({Client} \cup B)
             /\ m[b][i].p \notin B
  <2>1. \/ m[b][i].p \in DOMAIN m \ ({Client} \cup B)
        \/ m[b][i].p \in {Null, ZeroLengthPtr, Junk}
    BY DEF Heap, Points
  <2> QED BY <2>1, <1>1 DEF Null, ZeroLengthPtr, Junk
<1>3. Client # u + 1 /\ u + 1 \notin DOMAIN m
  BY <1>1 DEF Client
<1> QED BY <1>1, <1>2, <1>3

\* Nothing is written that points to a block that did not point there before.
LEMMA HeapPut ==
    ASSUME NEW m, NEW u, NEW B, NEW d, Heap(m, u, B, d),
           NEW a \in Addresses, ValidIn(m, a), NEW c \in Cells,
           \/ c.p = Get(m, a).p
           \/ Get(m, a).p <= 0 /\ c.p \in {Null, ZeroLengthPtr, Junk}
    PROVE  Heap(Put(m, a, c), u, B, d)
<1> DEFINE w == Put(m, a, c)
<1>1. IsMemory(m) BY HeapFacts
<1>2. /\ IsMemory(w) /\ DOMAIN w = DOMAIN m
      /\ \A b \in DOMAIN m :
            /\ DOMAIN w[b] = DOMAIN m[b]
            /\ \A i \in DOMAIN m[b] :
                  w[b][i] = IF b = a[1] /\ i = a[2] THEN c ELSE m[b][i]
  BY <1>1, PutFacts
<1> HIDE DEF w
<1>3. a[1] \in DOMAIN m /\ a[2] \in DOMAIN m[a[1]] /\ Get(m, a) = m[a[1]][a[2]]
  BY DEF ValidIn, Get
<1>4. \A b \in DOMAIN m : \A i \in DOMAIN m[b] :
          \/ w[b][i].p = m[b][i].p
          \/ m[b][i].p <= 0 /\ w[b][i].p \in {Null, ZeroLengthPtr, Junk}
  BY <1>2, <1>3
<1>5. Points(w, u, B)
  BY <1>2, <1>4 DEF Heap, Points
<1>6. \A b \in DOMAIN m : \A i \in DOMAIN m[b] : w[b][i].p > 0 => w[b][i].p = m[b][i].p
  BY <1>4 DEF Null, ZeroLengthPtr, Junk
<1>7. Unshared(w)
  BY <1>2, <1>6 DEF Heap, Unshared
<1>8. \A b \in DOMAIN m : \A i \in DOMAIN m[b] : m[b][i].p > 0 => w[b][i].p = m[b][i].p
  BY <1>4, HeapFacts DEF Null, ZeroLengthPtr, Junk
<1>9. Owned(w, B, d)
  <2> SUFFICES ASSUME NEW x \in DOMAIN w \ ({Client} \cup B), ~d
               PROVE  \E b \in DOMAIN w : \E i \in DOMAIN w[b] : w[b][i].p = x
    BY DEF Owned
  <2>1. x \in DOMAIN m \ ({Client} \cup B) BY <1>2
  <2>2. PICK b \in DOMAIN m : \E i \in DOMAIN m[b] : m[b][i].p = x
    BY <2>1 DEF Heap, Owned
  <2>3. PICK i \in DOMAIN m[b] : m[b][i].p = x BY <2>2
  <2>4. x > 0 BY <2>1, HeapFacts
  <2>5. w[b][i].p = x BY <2>3, <2>4, <1>8
  <2> QED BY <1>2, <2>5
<1> QED BY <1>5, <1>7, <1>9 DEF Heap, w

\* malloc: the new block is in hand.
LEMMA HeapNew ==
    ASSUME NEW m, NEW u, NEW B, NEW d, Heap(m, u, B, d), NEW n \in Nat
    PROVE  Heap(With(m, u + 1, Zeroed(n)), u + 1, B \cup {u + 1}, d)
<1> DEFINE w == With(m, u + 1, Zeroed(n))
<1>1. /\ IsMemory(m) /\ u \in Nat /\ u + 1 \notin DOMAIN m /\ Client # u + 1
  BY HeapFacts
<1>2. Zeroed(n) \in Seq(Cells) /\ DOMAIN Zeroed(n) = 1 .. n
      /\ \A i \in 1 .. n : Zeroed(n)[i].p = Null
  BY ZeroedFacts, CellType DEF Null
<1>3. /\ IsMemory(w) /\ DOMAIN w = DOMAIN m \cup {u + 1} /\ w[u + 1] = Zeroed(n)
      /\ \A x \in DOMAIN m : x # u + 1 => w[x] = m[x]
  <2>1. IsWith(w, m, u + 1, Zeroed(n))
    BY <1>1, <1>2, WithFacts
  <2> QED BY <2>1 DEF IsWith
<1> HIDE DEF w
<1>4. \A x \in DOMAIN m : w[x] = m[x]
  BY <1>1, <1>3
<1>5. \A i \in DOMAIN w[u + 1] : w[u + 1][i].p = Null
  BY <1>2, <1>3
<1>6. \A b \in DOMAIN w : \A i \in DOMAIN w[b] :
          \/ b \in DOMAIN m /\ w[b] = m[b]
          \/ w[b][i].p = Null
  BY <1>3, <1>4, <1>5
<1>7. Points(w, u + 1, B \cup {u + 1})
  <2>1. DOMAIN m \subseteq 1 .. u /\ Client \in DOMAIN m /\ B \subseteq DOMAIN m \ {Client}
    BY DEF Heap, Points
  <2>2. DOMAIN w \subseteq 1 .. (u + 1) /\ Client \in DOMAIN w
        /\ B \cup {u + 1} \subseteq DOMAIN w \ {Client}
    BY <1>1, <1>3, <2>1
  <2>3. ASSUME NEW b \in DOMAIN w, NEW i \in DOMAIN w[b]
        PROVE  \/ w[b][i].p \in DOMAIN w \ ({Client} \cup (B \cup {u + 1}))
               \/ w[b][i].p \in {Null, ZeroLengthPtr, Junk}
    <3>1. CASE b \in DOMAIN m /\ w[b] = m[b]
      <4>1. \/ m[b][i].p \in DOMAIN m \ ({Client} \cup B)
            \/ m[b][i].p \in {Null, ZeroLengthPtr, Junk}
        BY <3>1 DEF Heap, Points
      <4> QED BY <3>1, <4>1, <1>1, <1>3
    <3>2. CASE w[b][i].p = Null BY <3>2
    <3> QED BY <3>1, <3>2, <1>6
  <2> QED BY <1>1, <1>3, <2>2, <2>3 DEF Points
<1>8. Unshared(w)
  BY <1>6 DEF Heap, Unshared, Null
<1>9. Owned(w, B \cup {u + 1}, d)
  BY <1>3, <1>4 DEF Heap, Owned
<1> QED BY <1>7, <1>8, <1>9 DEF Heap, w

\* A block in hand gets its pointer.
LEMMA HeapTake ==
    ASSUME NEW m, NEW u, NEW B, NEW d, Heap(m, u, B, d),
           NEW a \in Addresses, ValidIn(m, a), NEW c \in Cells,
           Get(m, a).p <= 0, c.p \in B
    PROVE  Heap(Put(m, a, c), u, B \ {c.p}, d)
<1> DEFINE w == Put(m, a, c)
           x == c.p
<1>1. IsMemory(m) BY HeapFacts
<1>2. /\ IsMemory(w) /\ DOMAIN w = DOMAIN m
      /\ \A b \in DOMAIN m :
            /\ DOMAIN w[b] = DOMAIN m[b]
            /\ \A i \in DOMAIN m[b] :
                  w[b][i] = IF b = a[1] /\ i = a[2] THEN c ELSE m[b][i]
  BY <1>1, PutFacts
<1>3. a[1] \in DOMAIN m /\ a[2] \in DOMAIN m[a[1]] /\ Get(m, a) = m[a[1]][a[2]]
  BY DEF ValidIn, Get
<1>4. /\ u \in Nat \ {0} /\ DOMAIN m \subseteq 1 .. u /\ Client \in DOMAIN m
      /\ B \subseteq DOMAIN m \ {Client} /\ x \in B
  BY DEF Heap, Points
<1> HIDE DEF w, x
<1>5. \A b \in DOMAIN m : \A i \in DOMAIN m[b] :
          \/ b = a[1] /\ i = a[2] /\ w[b][i].p = x
          \/ ~(b = a[1] /\ i = a[2]) /\ w[b][i].p = m[b][i].p
  BY <1>2, <1>3 DEF x
<1>6. \A b \in DOMAIN m : \A i \in DOMAIN m[b] : m[b][i].p # x
  BY <1>4, HeapFacts
<1>7. Points(w, u, B \ {x})
  <2>1. ASSUME NEW b \in DOMAIN w, NEW i \in DOMAIN w[b]
        PROVE  \/ w[b][i].p \in DOMAIN w \ ({Client} \cup (B \ {x}))
               \/ w[b][i].p \in {Null, ZeroLengthPtr, Junk}
    <3>1. b \in DOMAIN m /\ i \in DOMAIN m[b] BY <1>2
    <3>2. \/ m[b][i].p \in DOMAIN m \ ({Client} \cup B)
          \/ m[b][i].p \in {Null, ZeroLengthPtr, Junk}
      BY <3>1 DEF Heap, Points
    <3>3. w[b][i].p = x \/ w[b][i].p = m[b][i].p BY <3>1, <1>5
    <3> QED BY <3>2, <3>3, <1>2, <1>4
  <2> QED BY <1>2, <1>4, <2>1 DEF Points
<1>8. Unshared(w)
  <2> SUFFICES ASSUME NEW b \in DOMAIN w, NEW y \in DOMAIN w,
                      NEW i \in DOMAIN w[b], NEW j \in DOMAIN w[y],
                      w[b][i].p > 0, w[b][i].p = w[y][j].p
               PROVE  b = y /\ i = j
    BY DEF Unshared
  <2>1. b \in DOMAIN m /\ i \in DOMAIN m[b] /\ y \in DOMAIN m /\ j \in DOMAIN m[y]
    BY <1>2
  <2>2. m[b][i].p # x /\ m[y][j].p # x BY <2>1, <1>6
  <2>3. m[b][i].p > 0 /\ m[b][i].p = m[y][j].p => b = y /\ i = j
    BY <2>1 DEF Heap, Unshared
  <2> QED BY <2>1, <2>2, <2>3, <1>5
<1>9. Owned(w, B \ {x}, d)
  <2> SUFFICES ASSUME NEW z \in DOMAIN w \ ({Client} \cup (B \ {x})), ~d
               PROVE  \E b \in DOMAIN w : \E i \in DOMAIN w[b] : w[b][i].p = z
    BY DEF Owned
  <2>1. CASE z = x BY <2>1, <1>2, <1>3, <1>5
  <2>2. CASE z # x
    <3>1. z \in DOMAIN m \ ({Client} \cup B) BY <2>2, <1>2
    <3>2. PICK b \in DOMAIN m : \E i \in DOMAIN m[b] : m[b][i].p = z
      BY <3>1 DEF Heap, Owned
    <3>3. PICK i \in DOMAIN m[b] : m[b][i].p = z BY <3>2
    <3>4. z > 0 BY <3>1, <1>4
    <3>5. ~(b = a[1] /\ i = a[2])
      <4>1. m[a[1]][a[2]].p <= 0 BY <1>3
      <4>2. z \in Nat /\ ~(z <= 0) BY <3>1, <1>4
      <4> QED BY <3>3, <4>1, <4>2
    <3> QED BY <3>3, <3>5, <1>2, <1>5
  <2> QED BY <2>1, <2>2
<1> QED BY <1>7, <1>8, <1>9 DEF Heap, w, x

\* A block is taken in hand, and its pointer reset.
LEMMA HeapGive ==
    ASSUME NEW m, NEW u, NEW B, NEW d, Heap(m, u, B, d),
           NEW a \in Addresses, ValidIn(m, a), NEW c \in Cells,
           Get(m, a).p > 0, c.p = Null
    PROVE  Heap(Put(m, a, c), u, B \cup {Get(m, a).p}, d)
<1> DEFINE w == Put(m, a, c)
           x == Get(m, a).p
<1>1. IsMemory(m) BY HeapFacts
<1>2. /\ IsMemory(w) /\ DOMAIN w = DOMAIN m
      /\ \A b \in DOMAIN m :
            /\ DOMAIN w[b] = DOMAIN m[b]
            /\ \A i \in DOMAIN m[b] :
                  w[b][i] = IF b = a[1] /\ i = a[2] THEN c ELSE m[b][i]
  BY <1>1, PutFacts
<1>3. a[1] \in DOMAIN m /\ a[2] \in DOMAIN m[a[1]] /\ x = m[a[1]][a[2]].p
  BY DEF ValidIn, Get
<1>4. /\ u \in Nat \ {0} /\ DOMAIN m \subseteq 1 .. u /\ Client \in DOMAIN m
      /\ B \subseteq DOMAIN m \ {Client}
  BY DEF Heap, Points
<1>5. x > 0 /\ x \in DOMAIN m \ ({Client} \cup B)
  <2>1. x > 0 OBVIOUS
  <2> QED BY <2>1, <1>3, HeapFacts
<1> HIDE DEF w, x
<1>6. \A b \in DOMAIN m : \A i \in DOMAIN m[b] :
          \/ b = a[1] /\ i = a[2] /\ w[b][i].p = Null
          \/ ~(b = a[1] /\ i = a[2]) /\ w[b][i].p = m[b][i].p
  BY <1>2, <1>3
<1>7. \A b \in DOMAIN m : \A i \in DOMAIN m[b] :
          m[b][i].p = x => b = a[1] /\ i = a[2]
  BY <1>3, <1>5 DEF Heap, Unshared
<1>8. Points(w, u, B \cup {x})
  <2>1. ASSUME NEW b \in DOMAIN w, NEW i \in DOMAIN w[b]
        PROVE  \/ w[b][i].p \in DOMAIN w \ ({Client} \cup (B \cup {x}))
               \/ w[b][i].p \in {Null, ZeroLengthPtr, Junk}
    <3>1. b \in DOMAIN m /\ i \in DOMAIN m[b] BY <1>2
    <3>2. \/ m[b][i].p \in DOMAIN m \ ({Client} \cup B)
          \/ m[b][i].p \in {Null, ZeroLengthPtr, Junk}
      BY <3>1 DEF Heap, Points
    <3>3. w[b][i].p = Null \/ (w[b][i].p = m[b][i].p /\ m[b][i].p # x)
      BY <3>1, <1>6, <1>7
    <3> QED BY <3>2, <3>3, <1>2, <1>4
  <2> QED BY <1>2, <1>4, <1>5, <2>1 DEF Points
<1>9. Unshared(w)
  <2> SUFFICES ASSUME NEW b \in DOMAIN w, NEW y \in DOMAIN w,
                      NEW i \in DOMAIN w[b], NEW j \in DOMAIN w[y],
                      w[b][i].p > 0, w[b][i].p = w[y][j].p
               PROVE  b = y /\ i = j
    BY DEF Unshared
  <2>1. b \in DOMAIN m /\ i \in DOMAIN m[b] /\ y \in DOMAIN m /\ j \in DOMAIN m[y]
    BY <1>2
  <2>2. m[b][i].p > 0 /\ m[b][i].p = m[y][j].p => b = y /\ i = j
    BY <2>1 DEF Heap, Unshared
  <2>3. w[b][i].p # Null /\ w[y][j].p # Null BY DEF Null
  <2> QED BY <2>1, <2>2, <2>3, <1>6
<1>10. Owned(w, B \cup {x}, d)
  <2> SUFFICES ASSUME NEW z \in DOMAIN w \ ({Client} \cup (B \cup {x})), ~d
               PROVE  \E b \in DOMAIN w : \E i \in DOMAIN w[b] : w[b][i].p = z
    BY DEF Owned
  <2>1. z \in DOMAIN m \ ({Client} \cup B) /\ z # x BY <1>2
  <2>2. PICK b \in DOMAIN m : \E i \in DOMAIN m[b] : m[b][i].p = z
    BY <2>1 DEF Heap, Owned
  <2>3. PICK i \in DOMAIN m[b] : m[b][i].p = z BY <2>2
  <2>4. ~(b = a[1] /\ i = a[2]) BY <2>1, <2>3, <1>3
  <2> QED BY <2>3, <2>4, <1>2, <1>6
<1> QED BY <1>8, <1>9, <1>10 DEF Heap, w, x

\* free of a block in hand; what it points to is dropped.
LEMMA HeapFree ==
    ASSUME NEW m, NEW u, NEW B, NEW d, Heap(m, u, B, d), NEW x \in B,
           NEW e, d => e,
           (\E i \in DOMAIN m[x] : m[x][i].p \in DOMAIN m) => e
    PROVE  Heap(Without(m, x), u, B \ {x}, e)
<1> DEFINE w == Without(m, x)
<1>1. IsMemory(m) BY HeapFacts
<1>2. /\ IsMemory(w) /\ DOMAIN w = DOMAIN m \ {x}
      /\ \A b \in DOMAIN m \ {x} : w[b] = m[b]
  BY <1>1, WithoutFacts DEF IsWithout
<1>3. /\ u \in Nat \ {0} /\ DOMAIN m \subseteq 1 .. u /\ Client \in DOMAIN m
      /\ B \subseteq DOMAIN m \ {Client}
  BY DEF Heap, Points
<1> HIDE DEF w
<1>4. Points(w, u, B \ {x})
  <2>1. ASSUME NEW b \in DOMAIN w, NEW i \in DOMAIN w[b]
        PROVE  \/ w[b][i].p \in DOMAIN w \ ({Client} \cup (B \ {x}))
               \/ w[b][i].p \in {Null, ZeroLengthPtr, Junk}
    <3>1. b \in DOMAIN m /\ i \in DOMAIN m[b] /\ w[b] = m[b] BY <1>2
    <3>2. \/ m[b][i].p \in DOMAIN m \ ({Client} \cup B)
          \/ m[b][i].p \in {Null, ZeroLengthPtr, Junk}
      BY <3>1 DEF Heap, Points
    <3> QED BY <3>1, <3>2, <1>2, <1>3
  <2> QED BY <1>2, <1>3, <2>1 DEF Points
<1>5. Unshared(w)
  BY <1>2 DEF Heap, Unshared
<1>6. Owned(w, B \ {x}, e)
  <2> SUFFICES ASSUME NEW z \in DOMAIN w \ ({Client} \cup (B \ {x})), ~e
               PROVE  \E b \in DOMAIN w : \E i \in DOMAIN w[b] : w[b][i].p = z
    BY DEF Owned
  <2>1. z \in DOMAIN m \ ({Client} \cup B) BY <1>2
  <2>2. PICK b \in DOMAIN m : \E i \in DOMAIN m[b] : m[b][i].p = z
    BY <2>1 DEF Heap, Owned
  <2>3. PICK i \in DOMAIN m[b] : m[b][i].p = z BY <2>2
  <2>4. b # x BY <2>1, <2>3
  <2> QED BY <2>3, <2>4, <1>2
<1> QED BY <1>4, <1>5, <1>6 DEF Heap, w

\* realloc of a block in hand.
LEMMA HeapMoved ==
    ASSUME NEW m, NEW u, NEW B, NEW d, Heap(m, u, B, d), NEW x \in B,
           NEW n \in Nat, Len(m[x]) <= n
    PROVE  Heap(Moved(m, x, u + 1, n), u + 1, (B \ {x}) \cup {u + 1}, d)
<1> DEFINE w == Moved(m, x, u + 1, n)
           v == u + 1
<1>1. /\ IsMemory(m) /\ u \in Nat /\ v \notin DOMAIN m /\ Client # v /\ v \in Int
  BY HeapFacts
<1>2. /\ u \in Nat \ {0} /\ DOMAIN m \subseteq 1 .. u /\ Client \in DOMAIN m
      /\ B \subseteq DOMAIN m \ {Client} /\ x \in DOMAIN m /\ x # Client
  BY DEF Heap, Points
<1> HIDE DEF v
<1>3. IsMoved(w, m, x, v, n)
  <2>1. x \in DOMAIN m BY <1>2
  <2> QED BY <1>1, <2>1, MovedFacts DEF v
<1> HIDE DEF w
<1>4. /\ IsMemory(w) /\ DOMAIN w = (DOMAIN m \ {x}) \cup {v}
      /\ \A b \in DOMAIN m \ {x} : w[b] = m[b]
  BY <1>3 DEF IsMoved
<1>5. \A i \in DOMAIN w[v] : \/ i \in DOMAIN m[x] /\ w[v][i] = m[x][i]
                             \/ w[v][i].p = Null
  <2>1. DOMAIN m[x] = 1 .. Len(m[x]) /\ Len(m[x]) \in Nat BY <1>1, <1>2, MemoryFacts
  <2>2. DOMAIN w[v] = 1 .. n BY <1>3 DEF IsMoved
  <2> QED BY <2>1, <2>2, <1>3, CellType DEF IsMoved, Null
<1>6. \A i \in DOMAIN m[x] : i \in DOMAIN w[v] /\ w[v][i] = m[x][i]
  <2>1. DOMAIN m[x] = 1 .. Len(m[x]) /\ Len(m[x]) \in Nat BY <1>1, <1>2, MemoryFacts
  <2>2. DOMAIN w[v] = 1 .. n BY <1>3 DEF IsMoved
  <2> QED BY <2>1, <2>2, <1>3 DEF IsMoved
\* Where a cell was before.
<1> DEFINE was(b) == IF b = v THEN x ELSE b
<1>7. \A b \in DOMAIN w : \A i \in DOMAIN w[b] :
          \/ was(b) \in DOMAIN m /\ i \in DOMAIN m[was(b)] /\ w[b][i].p = m[was(b)][i].p
          \/ w[b][i].p = Null
  BY <1>2, <1>4, <1>5
<1>8. Points(w, v, (B \ {x}) \cup {v})
  <2>1. DOMAIN w \subseteq 1 .. v /\ Client \in DOMAIN w
        /\ (B \ {x}) \cup {v} \subseteq DOMAIN w \ {Client} /\ v \in Nat \ {0}
    BY <1>1, <1>2, <1>4 DEF v
  <2>2. ASSUME NEW b \in DOMAIN w, NEW i \in DOMAIN w[b]
        PROVE  \/ w[b][i].p \in DOMAIN w \ ({Client} \cup ((B \ {x}) \cup {v}))
               \/ w[b][i].p \in {Null, ZeroLengthPtr, Junk}
    <3>1. CASE w[b][i].p = Null BY <3>1
    <3>2. CASE /\ was(b) \in DOMAIN m /\ i \in DOMAIN m[was(b)]
               /\ w[b][i].p = m[was(b)][i].p
      <4>1. \/ m[was(b)][i].p \in DOMAIN m \ ({Client} \cup B)
            \/ m[was(b)][i].p \in {Null, ZeroLengthPtr, Junk}
        BY <3>2 DEF Heap, Points
      <4> QED BY <3>2, <4>1, <1>1, <1>4
    <3> QED BY <3>1, <3>2, <1>7
  <2> QED BY <1>4, <2>1, <2>2 DEF Points
<1>9. Unshared(w)
  <2> SUFFICES ASSUME NEW b \in DOMAIN w, NEW y \in DOMAIN w,
                      NEW i \in DOMAIN w[b], NEW j \in DOMAIN w[y],
                      w[b][i].p > 0, w[b][i].p = w[y][j].p
               PROVE  b = y /\ i = j
    BY DEF Unshared
  <2>1. /\ was(b) \in DOMAIN m /\ i \in DOMAIN m[was(b)] /\ w[b][i].p = m[was(b)][i].p
        /\ was(y) \in DOMAIN m /\ j \in DOMAIN m[was(y)] /\ w[y][j].p = m[was(y)][j].p
    BY <1>7 DEF Null
  <2>2. m[was(b)][i].p > 0 /\ m[was(b)][i].p = m[was(y)][j].p => was(b) = was(y) /\ i = j
    BY <2>1 DEF Heap, Unshared
  <2>3. was(b) = was(y) /\ i = j BY <2>1, <2>2
  <2> QED BY <2>3, <1>1, <1>4
<1>10. Owned(w, (B \ {x}) \cup {v}, d)
  <2> SUFFICES ASSUME NEW z \in DOMAIN w \ ({Client} \cup ((B \ {x}) \cup {v})), ~d
               PROVE  \E b \in DOMAIN w : \E i \in DOMAIN w[b] : w[b][i].p = z
    BY DEF Owned
  <2>1. z \in DOMAIN m \ ({Client} \cup B) BY <1>4
  <2>2. PICK b \in DOMAIN m : \E i \in DOMAIN m[b] : m[b][i].p = z
    BY <2>1 DEF Heap, Owned
  <2>3. PICK i \in DOMAIN m[b] : m[b][i].p = z BY <2>2
  <2>4. CASE b = x BY <2>3, <2>4, <1>4, <1>6
  <2>5. CASE b # x BY <2>3, <2>5, <1>4
  <2> QED BY <2>4, <2>5
<1> QED BY <1>8, <1>9, <1>10 DEF Heap, w, v

-----------------------------------------------------------------------------
(***************************************************************************)
(* What a parser governs.                                                  *)
(***************************************************************************)
LEMMA Times ==
    ASSUME NEW n \in Nat, NEW w \in Nat
    PROVE  /\ n * w \in Nat
           /\ n > 0 => (n - 1) * w \in Nat /\ (n - 1) * w + w = n * w
           /\ (n + 1) * w = n * w + w
           /\ \A k \in Nat : n <= k => n * w <= k * w
<1>1. n * w \in Nat /\ (n + 1) * w = n * w + w OBVIOUS
<1>2. n > 0 => (n - 1) * w \in Nat /\ (n - 1) * w + w = n * w OBVIOUS
<1>3. ASSUME NEW k \in Nat, n <= k PROVE n * w <= k * w
  <2>1. k - n \in Nat BY <1>3
  <2>2. (k - n) * w \in Nat BY <2>1
  <2>3. k * w = n * w + (k - n) * w OBVIOUS
  <2> QED BY <2>2, <2>3, <1>1
<1> QED BY <1>1, <1>2, <1>3

LEMMA AddressFacts ==
    ASSUME NEW b \in Nat, NEW i \in Nat
    PROVE  /\ Address(b, i) \in Addresses
           /\ Address(b, i)[1] = b /\ Address(b, i)[2] = i
BY DEF Address, Addresses

LEMMA AddressIs ==
    ASSUME NEW a \in Addresses
    PROVE  a[1] \in Nat /\ a[2] \in Nat /\ a = Address(a[1], a[2]) /\ a # None
BY NoneIsNoAddress DEF Address, Addresses

LEMMA ParserFacts ==
    ASSUME NEW act \in ParserType
    PROVE  /\ act.at \in Addresses /\ act.at[1] \in Nat /\ act.at[2] \in Nat
           /\ act.type \in Types /\ act.fn \in ParserFns /\ act.st \in ParserStates
           /\ act.len \in Nat /\ act.cap \in Nat /\ act.buf \in Nat
           /\ act.ptr \in Addresses \cup {None} /\ act.seen \subseteq Nat
           /\ act.child \in Types \cup {None} /\ act.childAt \in Addresses \cup {None}
           /\ Base(act) \in Nat \ {0} /\ Unit(act) \in Nat \ {0}
           /\ Anchor(act) \in Addresses /\ Anchor(act)[1] = act.at[1]
           /\ act.fn \in {"array", "struct"} => Anchor(act)[2] = act.at[2] + Base(act) - 1
<1>1. /\ act.at \in Addresses /\ act.type \in Types /\ act.fn \in ParserFns
      /\ act.st \in ParserStates /\ act.len \in Nat /\ act.cap \in Nat /\ act.buf \in Nat
      /\ act.ptr \in Addresses \cup {None} /\ act.seen \subseteq Nat
      /\ act.child \in Types \cup {None} /\ act.childAt \in Addresses \cup {None}
  BY DEF ParserType, Addresses
<1>2. act.at[1] \in Nat /\ act.at[2] \in Nat BY <1>1, AddressIs
<1>3. /\ Width(act.type) \in Nat \ {0} /\ StructWidth(act.type) \in Nat \ {0}
      /\ EntryWidth(act.type) \in Nat /\ EntryWidth(act.type) = 1 + Width(Element[act.type])
      /\ Element[act.type] \in Types
  BY <1>1, TypeFacts
<1>4. Width(Element[act.type]) \in Nat \ {0} BY <1>3, TypeFacts
<1>5. Base(act) \in Nat \ {0} /\ Unit(act) \in Nat \ {0}
  BY <1>3, <1>4 DEF Base, Unit
<1>6. Len(Members[act.type]) \in Nat /\ StructWidth(act.type) = Len(Members[act.type]) + 1
  BY <1>1, TypeFacts DEF StructWidth
<1>7. Extras(act.type, act.at) = Address(act.at[1], act.at[2] + Len(Members[act.type]))
  BY DEF Extras
<1>8. /\ Extras(act.type, act.at) \in Addresses
      /\ Extras(act.type, act.at)[1] = act.at[1]
      /\ Extras(act.type, act.at)[2] = act.at[2] + Len(Members[act.type])
  <2>1. act.at[2] + Len(Members[act.type]) \in Nat BY <1>2, <1>6
  <2> QED BY <2>1, <1>2, <1>7, AddressFacts
<1>9. /\ Anchor(act) \in Addresses /\ Anchor(act)[1] = act.at[1]
      /\ act.fn \in {"array", "struct"} => Anchor(act)[2] = act.at[2] + Base(act) - 1
  <2>1. CASE act.fn = "struct"
    <3>1. Anchor(act) = Extras(act.type, act.at) /\ Base(act) = StructWidth(act.type)
      BY <2>1 DEF Anchor, Base
    <3> QED BY <3>1, <1>2, <1>6, <1>8
  <2>2. CASE act.fn # "struct"
    <3>1. Anchor(act) = act.at BY <2>2 DEF Anchor
    <3>2. act.fn = "array" => Base(act) = 1 BY DEF Base
    <3> QED BY <2>2, <3>1, <3>2, <1>1, <1>2
  <2> QED BY <2>1, <2>2
<1> QED BY <1>1, <1>2, <1>5, <1>9

\* The cell that points to the block is in the base, and so are the members.
LEMMA BaseFacts ==
    ASSUME NEW m, NEW act, FitBase(m, act)
    PROVE  /\ act \in ParserType /\ ValidIn(m, act.at)
           /\ \A a \in Addresses : InBase(act, a) => Owns(m, act, a)
           /\ act.fn \in {"array", "struct"} =>
                 InBase(act, Anchor(act)) /\ Owns(m, act, Anchor(act))
           /\ InBase(act, act.at) /\ Owns(m, act, act.at)
<1>1. /\ act \in ParserType
      /\ \A i \in act.at[2] .. act.at[2] + Base(act) - 1 :
            ValidIn(m, Address(act.at[1], i))
  BY DEF FitBase
<1>2. ASSUME NEW a \in Addresses, InBase(act, a) PROVE Owns(m, act, a)
  <2>1. a[1] = act.at[1] /\ a[2] \in act.at[2] .. act.at[2] + Base(act) - 1
    BY <1>1, <1>2, ParserFacts, AddressIs DEF InBase
  <2>2. a = Address(act.at[1], a[2]) BY <2>1, AddressIs
  <2>3. ValidIn(m, a) BY <2>1, <2>2, <1>1
  <2> QED BY <1>2, <2>3 DEF Owns
<1>3. InBase(act, act.at)
  BY <1>1, ParserFacts DEF InBase
<1>4. act.fn \in {"array", "struct"} => InBase(act, Anchor(act))
  BY <1>1, ParserFacts DEF InBase
<1>5. act.at \in Addresses /\ Anchor(act) \in Addresses BY <1>1, ParserFacts
<1>6. ValidIn(m, act.at) BY <1>2, <1>3, <1>5 DEF Owns
<1> QED BY <1>1, <1>2, <1>3, <1>4, <1>5, <1>6

\* Where the part is that a parser leaves to the one that it calls.
LEMMA SlotPlace ==
    ASSUME NEW m, IsMemory(m), NEW act, Fit(m, act), NEW a \in Addresses,
           InSpan(SlotAt(m, act), SlotWidth(act), a),
           \/ act.fn = "array" /\ act.st = "element"
           \/ act.fn = "struct" /\ act.st \in {"named", "after"}
    PROVE  \/ /\ HasBlock(m, act) /\ a[1] = Block(m, act)
              /\ 1 <= a[2] /\ a[2] <= Count(m, act) * Unit(act)
           \/ /\ act.fn = "struct" /\ a[1] = act.at[1]
              /\ \E i \in act.seen \cap DOMAIN Members[act.type] :
                    a[2] = act.at[2] + i - 1
<1>1. act \in ParserType /\ act.st \in StatesOf(act.fn) /\ FitArray(m, act)
      /\ FitMembers(m, act) /\ FitBlock(m, act)
  BY DEF Fit, FitBase
<1>2. act.type \in Types /\ act.len \in Nat /\ a[2] \in Nat /\ Unit(act) \in Nat \ {0}
      /\ act.fn \in ParserFns
  BY <1>1, ParserFacts, AddressIs
<1>3. InSpan(SlotAt(m, act), SlotWidth(act), a) OBVIOUS
<1>5. CASE act.fn = "array" /\ act.st = "element"
  <2>1. HasBlock(m, act) /\ act.len > 0 /\ Count(m, act) = act.len
    BY <1>1, <1>5 DEF HasBlock, FitArray, Count
  <2>2. Unit(act) = Width(Element[act.type]) /\ SlotWidth(act) = Unit(act)
    BY <1>5 DEF Unit, SlotWidth
  <2>3. SlotAt(m, act) = <<Block(m, act), (act.len - 1) * Unit(act) + 1>>
    BY <1>5, <2>2 DEF SlotAt, ElementAt, Address
  <2>4. /\ a[1] = Block(m, act) /\ (act.len - 1) * Unit(act) + 1 <= a[2]
        /\ a[2] < (act.len - 1) * Unit(act) + 1 + Unit(act)
    BY <1>3, <2>2, <2>3 DEF InSpan
  <2>5. /\ (act.len - 1) * Unit(act) \in Nat
        /\ (act.len - 1) * Unit(act) + Unit(act) = act.len * Unit(act)
        /\ act.len * Unit(act) \in Nat
    BY <1>2, <2>1, Times
  <2>6. 1 <= a[2] /\ a[2] <= act.len * Unit(act)
    BY <1>2, <2>4, <2>5
  <2> QED BY <2>1, <2>4, <2>6
<1>6. CASE act.fn = "struct" /\ act.st \in {"named", "after"}
  <2>1. IsMember(act) \/ IsExtra(m, act)
    BY <1>1, <1>6 DEF FitMembers
  <2>2. a[1] = act.childAt[1] /\ act.childAt[2] <= a[2] /\ a[2] < act.childAt[2] + Width(act.child)
    BY <1>3, <1>6 DEF InSpan, SlotAt, SlotWidth
  <2>3. CASE IsMember(act)
    <3>1. PICK i \in act.seen \cap DOMAIN Members[act.type] :
              /\ act.child = Members[act.type][i]
              /\ act.childAt = Address(act.at[1], act.at[2] + i - 1)
      BY <2>3 DEF IsMember
    <3>2. i \in DOMAIN Members[act.type] /\ i \in act.seen OBVIOUS
    <3>3. Width(act.child) = 1 BY <1>2, <3>1, <3>2, TypeFacts
    <3>4. act.childAt[1] = act.at[1] /\ act.childAt[2] = act.at[2] + i - 1
      BY <3>1 DEF Address
    <3>5. act.at[2] \in Nat /\ i \in Nat BY <1>1, <3>2, ParserFacts
    <3>6. a[1] = act.at[1] /\ a[2] = act.at[2] + i - 1
      BY <1>2, <2>2, <3>3, <3>4, <3>5
    <3> QED BY <3>2, <3>6, <1>6
  <2>4. CASE IsExtra(m, act)
    <3>1. /\ HasBlock(m, act) /\ Count(m, act) > 0 /\ act.child = Element[act.type]
          /\ act.childAt = ValueAt(act.type, Block(m, act), Count(m, act))
      BY <2>4 DEF IsExtra
    <3>2. Unit(act) = EntryWidth(act.type) /\ Unit(act) = 1 + Width(act.child)
      BY <1>2, <1>6, <3>1, TypeFacts DEF Unit
    <3>3. /\ act.childAt[1] = Block(m, act)
          /\ act.childAt[2] = (Count(m, act) - 1) * Unit(act) + 2
      BY <3>1, <3>2 DEF ValueAt, Address
    <3>4. Count(m, act) \in Nat
      <4>1. ValidIn(m, Anchor(act)) BY <1>6, BaseFacts DEF Fit, Owns
      <4> QED BY <4>1, <1>6, MemoryFacts DEF ValidIn, Count, Get
    <3>5. /\ (Count(m, act) - 1) * Unit(act) \in Nat
          /\ (Count(m, act) - 1) * Unit(act) + Unit(act) = Count(m, act) * Unit(act)
      BY <1>2, <3>1, <3>4, Times
    <3>6. Width(act.child) \in Nat BY <1>2, <3>1, TypeFacts
    <3>7. 1 <= a[2] /\ a[2] <= Count(m, act) * Unit(act)
      BY <1>2, <2>2, <3>2, <3>3, <3>5, <3>6
    <3> QED BY <2>2, <3>1, <3>3, <3>7
  <2> QED BY <2>1, <2>3, <2>4
<1> QED BY <1>5, <1>6

LEMMA InSlotPlace ==
    ASSUME NEW m, IsMemory(m), NEW act, Fit(m, act), NEW a \in Addresses,
           InSlot(m, act, a)
    PROVE  /\ InSpan(SlotAt(m, act), SlotWidth(act), a)
           /\ \/ act.fn = "array" /\ act.st = "element"
              \/ act.fn = "struct" /\ act.st = "after"
<1>1. act.fn \in ParserFns /\ act.st \in StatesOf(act.fn)
  BY ParserFacts DEF Fit, FitBase
<1> QED BY <1>1 DEF InSlot, Waiting, StatesOf, ParserFns

LEMMA SlotOwned ==
    ASSUME NEW m, IsMemory(m), NEW act, Fit(m, act), NEW a \in Addresses,
           InSpan(SlotAt(m, act), SlotWidth(act), a),
           \/ act.fn = "array" /\ act.st = "element"
           \/ act.fn = "struct" /\ act.st \in {"named", "after"}
    PROVE  Owns(m, act, a) /\ a[1] >= act.at[1]
<1>1. act \in ParserType /\ FitBase(m, act) /\ FitBlock(m, act) BY DEF Fit, FitBase
<1>2. /\ act.at \in Addresses /\ act.at[1] \in Nat /\ act.at[2] \in Nat
      /\ act.type \in Types /\ Members[act.type] \in Seq(Types)
      /\ a[1] \in Nat /\ a[2] \in Nat /\ Unit(act) \in Nat
      /\ Anchor(act) \in Addresses
  BY <1>1, ParserFacts, TypeFacts, AddressIs
<1>3. \/ /\ HasBlock(m, act) /\ a[1] = Block(m, act)
         /\ 1 <= a[2] /\ a[2] <= Count(m, act) * Unit(act)
      \/ /\ act.fn = "struct" /\ a[1] = act.at[1]
         /\ \E i \in act.seen \cap DOMAIN Members[act.type] : a[2] = act.at[2] + i - 1
  BY SlotPlace
<1>4. CASE /\ HasBlock(m, act) /\ a[1] = Block(m, act)
           /\ 1 <= a[2] /\ a[2] <= Count(m, act) * Unit(act)
  <2>1. /\ Block(m, act) > act.at[1] /\ Block(m, act) \in DOMAIN m
        /\ Count(m, act) <= Room(m, act)
        /\ Len(m[Block(m, act)]) = Room(m, act) * Unit(act)
    BY <1>1, <1>4 DEF FitBlock, HasBlock
  <2>2. ValidIn(m, Anchor(act)) BY <1>1, <1>4, BaseFacts DEF Owns, HasBlock
  <2>3. Count(m, act) \in Nat /\ Room(m, act) \in Nat
    BY <2>2, <1>1, ParserFacts, MemoryFacts DEF ValidIn, Count, Room, Get
  <2>4. Count(m, act) * Unit(act) <= Room(m, act) * Unit(act)
        /\ Count(m, act) * Unit(act) \in Nat /\ Room(m, act) * Unit(act) \in Nat
    BY <1>2, <2>1, <2>3, Times
  <2>5. a[2] \in DOMAIN m[Block(m, act)]
    BY <1>2, <1>4, <2>1, <2>4, MemoryFacts
  <2>6. Owns(m, act, a) BY <1>4, <2>1, <2>5 DEF Owns, ValidIn
  <2> QED BY <2>1, <2>6, <1>2, <1>4
<1>5. CASE /\ act.fn = "struct" /\ a[1] = act.at[1]
           /\ \E i \in act.seen \cap DOMAIN Members[act.type] : a[2] = act.at[2] + i - 1
  <2>1. PICK i \in act.seen \cap DOMAIN Members[act.type] : a[2] = act.at[2] + i - 1
    BY <1>5
  <2>2. i \in Nat /\ 1 <= i /\ i <= Len(Members[act.type])
        /\ Len(Members[act.type]) \in Nat BY <1>2
  <2>3. Base(act) = Len(Members[act.type]) + 1 BY <1>5 DEF Base, StructWidth
  <2>4. a[1] = act.at[1] BY <1>5
  <2>5. act.at[2] <= a[2] /\ a[2] < act.at[2] + Base(act)
    <3>1. act.at[2] \in Nat BY <1>2
    <3>2. a[2] = act.at[2] + i - 1 BY <2>1
    <3> QED BY <2>2, <2>3, <3>1, <3>2
  <2>6. InBase(act, a) BY <2>4, <2>5 DEF InBase
  <2> QED BY <1>1, <1>2, <2>4, <2>6, BaseFacts
<1> QED BY <1>3, <1>4, <1>5

\* What stays with a parser.
LEMMA OutsideSlot ==
    ASSUME NEW m, IsMemory(m), NEW act, Fit(m, act), NEW a \in Addresses,
           \/ ~Waiting(act)
           \/ a[1] < act.at[1]
           \/ act.fn \in {"array", "struct"} /\ a = Anchor(act)
           \/ a = act.ptr
           \/ /\ act.fn = "struct" /\ a[1] = act.at[1]
              /\ \E i \in DOMAIN Members[act.type] \ act.seen : a[2] = act.at[2] + i - 1
           \/ /\ HasBlock(m, act) /\ a[1] = Block(m, act)
              /\ a[2] > Count(m, act) * Unit(act)
    PROVE  ~InSlot(m, act, a)
<1> SUFFICES ASSUME InSlot(m, act, a) PROVE FALSE OBVIOUS
<1>1. act \in ParserType /\ FitBlock(m, act) /\ FitPtr(m, act) BY DEF Fit, FitBase
<1>2. /\ act.at[1] \in Nat /\ act.at[2] \in Nat /\ act.type \in Types
      /\ Members[act.type] \in Seq(Types) /\ a[1] \in Nat /\ a[2] \in Nat
      /\ Unit(act) \in Nat /\ a # None
      /\ Anchor(act)[1] = act.at[1]
      /\ act.fn \in {"array", "struct"} => Anchor(act)[2] = act.at[2] + Base(act) - 1
  BY <1>1, ParserFacts, TypeFacts, AddressIs
<1>3. \/ /\ HasBlock(m, act) /\ a[1] = Block(m, act)
         /\ 1 <= a[2] /\ a[2] <= Count(m, act) * Unit(act)
      \/ /\ act.fn = "struct" /\ a[1] = act.at[1]
         /\ \E i \in act.seen \cap DOMAIN Members[act.type] : a[2] = act.at[2] + i - 1
  BY InSlotPlace, SlotPlace
<1>4. HasBlock(m, act) => /\ act.fn \in {"array", "struct"}
                          /\ Block(m, act) \in DOMAIN m /\ Block(m, act) > act.at[1]
  BY <1>1 DEF FitBlock, HasBlock
<1>5. HasBlock(m, act) => Count(m, act) \in Nat /\ Block(m, act) \in Int
  <2> SUFFICES ASSUME HasBlock(m, act) PROVE Count(m, act) \in Nat /\ Block(m, act) \in Int
    OBVIOUS
  <2>1. ValidIn(m, Anchor(act)) BY <1>4, BaseFacts DEF Fit, Owns
  <2> QED BY <2>1, <1>1, ParserFacts, MemoryFacts DEF ValidIn, Count, Get, Block
<1>6. Waiting(act) BY DEF InSlot
<1>7. CASE a[1] < act.at[1] BY <1>7, <1>2, <1>3, <1>4, <1>5
<1>8. CASE act.fn \in {"array", "struct"} /\ a = Anchor(act)
  <2>1. a[1] = act.at[1] /\ a[2] = act.at[2] + Base(act) - 1 BY <1>8, <1>2
  <2>2. act.fn = "struct" => Base(act) = Len(Members[act.type]) + 1
    BY DEF Base, StructWidth
  <2>3. \A i \in DOMAIN Members[act.type] : i \in Nat /\ i <= Len(Members[act.type])
    BY <1>2
  <2>4. Len(Members[act.type]) \in Nat BY <1>2
  <2>5. ~(HasBlock(m, act) /\ a[1] = Block(m, act))
    BY <2>1, <1>2, <1>4, <1>5
  <2>6. /\ act.fn = "struct"
        /\ \E i \in act.seen \cap DOMAIN Members[act.type] : a[2] = act.at[2] + i - 1
    BY <1>3, <2>5
  <2>7. PICK i \in act.seen \cap DOMAIN Members[act.type] : a[2] = act.at[2] + i - 1
    BY <2>6
  <2>8. i \in Nat /\ i <= Len(Members[act.type]) BY <2>3
  <2>9. Base(act) = Len(Members[act.type]) + 1 BY <2>2, <2>6
  <2> QED BY <1>2, <2>1, <2>4, <2>7, <2>8, <2>9, SMTT(60)
<1>9. CASE a = act.ptr
  <2>1. a[1] < act.at[1] BY <1>9, <1>1, <1>2 DEF FitPtr
  <2> QED BY <1>7, <2>1
<1>10. CASE /\ act.fn = "struct" /\ a[1] = act.at[1]
            /\ \E i \in DOMAIN Members[act.type] \ act.seen : a[2] = act.at[2] + i - 1
  <2>1. ~(HasBlock(m, act) /\ a[1] = Block(m, act)) BY <1>10, <1>2, <1>4, <1>5
  <2>2. PICK i \in DOMAIN Members[act.type] \ act.seen : a[2] = act.at[2] + i - 1 BY <1>10
  <2>3. PICK j \in act.seen \cap DOMAIN Members[act.type] : a[2] = act.at[2] + j - 1
    BY <1>3, <2>1
  <2>4. i \in Nat /\ j \in Nat BY <1>2
  <2>5. i = j BY <2>2, <2>3, <2>4, <1>2, SMTT(60)
  <2> QED BY <2>5
<1>11. CASE /\ HasBlock(m, act) /\ a[1] = Block(m, act)
            /\ a[2] > Count(m, act) * Unit(act)
  <2>1. Count(m, act) * Unit(act) \in Nat BY <1>2, <1>5, <1>11, Times
  <2>2. ~(a[2] <= Count(m, act) * Unit(act)) BY <2>1, <1>2, <1>11
  <2>3. a[1] # act.at[1] BY <1>2, <1>4, <1>5, <1>11
  <2> QED BY <2>2, <2>3, <1>3
<1> QED BY <1>6, <1>7, <1>8, <1>9, <1>10, <1>11

LEMMA BlockFacts ==
    ASSUME NEW m, IsMemory(m), NEW act, Fit(m, act), act.fn \in {"array", "struct"}
    PROVE  /\ ValidIn(m, Anchor(act)) /\ Anchor(act) \in Addresses
           /\ Anchor(act)[1] = act.at[1]
           /\ Block(m, act) \in Int /\ Count(m, act) \in Nat /\ Room(m, act) \in Nat
           /\ Count(m, act) * Unit(act) \in Nat
           /\ HasBlock(m, act) =>
                 /\ Block(m, act) \in Nat /\ Block(m, act) > act.at[1]
                 /\ Block(m, act) \in DOMAIN m /\ Len(m[Block(m, act)]) > 0
<1>1. act \in ParserType /\ FitBase(m, act) /\ FitBlock(m, act) BY DEF Fit, FitBase
<1>2. ValidIn(m, Anchor(act)) BY <1>1, BaseFacts DEF Owns
<1>3. /\ Block(m, act) \in Int /\ Count(m, act) \in Nat /\ Room(m, act) \in Nat
  BY <1>1, <1>2, ParserFacts, MemoryFacts DEF ValidIn, Count, Get, Block, Room
<1>4. Unit(act) \in Nat \ {0} /\ act.at[1] \in Nat BY <1>1, ParserFacts
<1>5. ASSUME HasBlock(m, act)
      PROVE  /\ Block(m, act) > act.at[1] /\ Block(m, act) \in DOMAIN m
             /\ Room(m, act) > 0 /\ Len(m[Block(m, act)]) = Room(m, act) * Unit(act)
  BY <1>1, <1>5 DEF FitBlock
<1>6. Room(m, act) > 0 => Room(m, act) * Unit(act) > 0
  <2>1. Room(m, act) > 0 => 1 * Unit(act) <= Room(m, act) * Unit(act)
    BY <1>3, <1>4, Times
  <2>2. Room(m, act) * Unit(act) \in Nat BY <1>3, <1>4, Times
  <2> QED BY <2>1, <2>2, <1>4
<1>7. Count(m, act) * Unit(act) \in Nat BY <1>3, <1>4, Times
<1> QED BY <1>1, <1>2, <1>3, <1>4, <1>5, <1>6, <1>7, ParserFacts

\* The next member.
LEMMA ChildFacts ==
    ASSUME NEW m, IsMemory(m), NEW act, Fit(m, act), act.fn = "struct",
           act.st \in {"named", "after"}
    PROVE  act.childAt \in Addresses /\ act.child \in Types
<1>1. act \in ParserType /\ FitMembers(m, act) BY DEF Fit, FitBase
<1>2. /\ act.at[1] \in Nat /\ act.at[2] \in Nat /\ act.type \in Types
      /\ Members[act.type] \in Seq(Types)
  BY <1>1, ParserFacts, TypeFacts
<1>3. CASE IsMember(act)
  <2>1. PICK j \in DOMAIN Members[act.type] :
            /\ act.child = Members[act.type][j]
            /\ act.childAt = Address(act.at[1], act.at[2] + j - 1)
    BY <1>3 DEF IsMember
  <2>2. j \in Nat /\ 1 <= j BY <1>2
  <2>3. act.at[2] + j - 1 \in Nat BY <1>2, <2>2
  <2>4. act.childAt \in Addresses BY <2>1, <2>3, <1>2, AddressFacts
  <2> QED BY <2>1, <2>4, <1>2, TypeFacts
<1>4. CASE IsExtra(m, act)
  <2>1. act.child \in Types BY <1>4, <1>2, TypeFacts DEF IsExtra
  <2>2. /\ HasBlock(m, act) /\ Count(m, act) > 0
        /\ act.childAt = Address(Block(m, act),
                               (Count(m, act) - 1) * EntryWidth(act.type) + 2)
    BY <1>4 DEF IsExtra, ValueAt
  <2>3. Count(m, act) \in Nat /\ Block(m, act) \in Nat BY <2>2, BlockFacts
  <2>4. EntryWidth(act.type) \in Nat BY <1>2, TypeFacts
  <2>5. (Count(m, act) - 1) * EntryWidth(act.type) \in Nat
    BY <2>2, <2>3, <2>4, Times
  <2>6. (Count(m, act) - 1) * EntryWidth(act.type) + 2 \in Nat BY <2>5
  <2> QED BY <2>1, <2>2, <2>3, <2>6, AddressFacts
<1> QED BY <1>1, <1>3, <1>4 DEF FitMembers

\* The memory w leaves a parser what it governs, but for the part that it has
\* left to another, and the length and capacity that go with an array.
Keeps(m, w, act) ==
    /\ \A a \in Addresses : Owns(m, act, a) => ValidIn(w, a)
    /\ \A a \in Addresses : Owns(m, act, a) /\ ~InSlot(m, act, a) =>
          \/ Get(w, a) = Get(m, a)
          \/ act.fn = "array" /\ a = act.at /\ Get(w, a).p = Get(m, a).p
    /\ HasBlock(m, act) => /\ Block(m, act) \in DOMAIN w
                           /\ Len(w[Block(m, act)]) = Len(m[Block(m, act)])
    /\ act.buf # Null => act.buf \in DOMAIN w /\ w[act.buf] = m[act.buf]

SameView(m, w, act) ==
    /\ HasBlock(w, act) <=> HasBlock(m, act)
    /\ act.fn \in {"array", "struct"} => /\ Block(w, act) = Block(m, act)
                                         /\ Count(w, act) = Count(m, act)
                                         /\ Room(w, act) = Room(m, act)
    /\ \A a \in Addresses : Owns(w, act, a) <=> Owns(m, act, a)
    /\ \A a \in Addresses : InSlot(w, act, a) <=> InSlot(m, act, a)

LEMMA KeptFit ==
    ASSUME NEW m, IsMemory(m), NEW w, IsMemory(w), NEW act, Fit(m, act),
           Keeps(m, w, act)
    PROVE  Fit(w, act) /\ SameView(m, w, act)
<1>1. /\ act \in ParserType /\ FitBase(m, act) /\ FitString(m, act) /\ FitBlock(m, act)
      /\ FitArray(m, act) /\ FitPtr(m, act) /\ FitMembers(m, act)
  BY DEF Fit, FitBase
<1>2. /\ act.at \in Addresses /\ act.at[1] \in Nat /\ act.at[2] \in Nat
      /\ act.type \in Types /\ act.fn \in ParserFns
      /\ Members[act.type] \in Seq(Types) /\ Unit(act) \in Nat \ {0}
      /\ Anchor(act) \in Addresses /\ Anchor(act)[1] = act.at[1]
      /\ Base(act) \in Nat \ {0} /\ act.len \in Nat
      /\ act.ptr \in Addresses \cup {None}
      /\ act.fn \in {"array", "struct"} => Anchor(act)[2] = act.at[2] + Base(act) - 1
  BY <1>1, ParserFacts, TypeFacts
<1>3. ASSUME NEW a \in Addresses, Owns(m, act, a), ~InSlot(m, act, a)
      PROVE  /\ ValidIn(w, a) /\ Get(w, a).p = Get(m, a).p
             /\ act.fn # "array" \/ a # act.at => Get(w, a) = Get(m, a)
  BY <1>3 DEF Keeps
<1>4. act.fn \in {"array", "struct"} =>
          /\ Owns(m, act, Anchor(act)) /\ ~InSlot(m, act, Anchor(act))
  BY <1>1, <1>2, BaseFacts, OutsideSlot
<1>5. act.fn \in {"array", "struct"} =>
          /\ Block(w, act) = Block(m, act)
          /\ Count(w, act) = Count(m, act) /\ Room(w, act) = Room(m, act)
  BY <1>2, <1>3, <1>4 DEF Block, Count, Room
<1>6. HasBlock(w, act) <=> HasBlock(m, act)
  BY <1>2, <1>3, <1>4 DEF HasBlock
<1>7. HasBlock(m, act) => /\ act.fn \in {"array", "struct"}
                          /\ Block(m, act) \in DOMAIN m /\ Block(m, act) \in DOMAIN w
                          /\ DOMAIN w[Block(m, act)] = DOMAIN m[Block(m, act)]
  <2>1. HasBlock(m, act) => /\ act.fn \in {"array", "struct"}
                            /\ Block(m, act) \in DOMAIN m
    BY <1>1 DEF FitBlock, HasBlock
  <2>2. HasBlock(m, act) => /\ Block(m, act) \in DOMAIN w
                            /\ Len(w[Block(m, act)]) = Len(m[Block(m, act)])
    BY DEF Keeps
  <2> QED BY <2>1, <2>2, MemoryFacts
<1>8. act.ptr # None => Owns(m, act, act.ptr) /\ ~InSlot(m, act, act.ptr)
  <2> SUFFICES ASSUME act.ptr # None
               PROVE Owns(m, act, act.ptr) /\ ~InSlot(m, act, act.ptr)
    OBVIOUS
  <2>1. act.ptr \in Addresses /\ ValidIn(m, act.ptr) BY <1>1, <1>2 DEF FitPtr
  <2> QED BY <2>1, OutsideSlot DEF Owns
<1>9. ASSUME NEW a \in Addresses PROVE Owns(w, act, a) <=> Owns(m, act, a)
  <2>1. ASSUME Owns(m, act, a) PROVE Owns(w, act, a)
    <3>1. ValidIn(w, a) BY <2>1 DEF Keeps
    <3>2. InBase(act, a) \/ a = act.ptr \/ (HasBlock(m, act) /\ a[1] = Block(m, act))
      BY <2>1 DEF Owns
    <3> QED BY <3>1, <3>2, <1>5, <1>6, <1>7 DEF Owns
  <2>2. ASSUME Owns(w, act, a) PROVE Owns(m, act, a)
    <3>1. CASE InBase(act, a) BY <3>1, <1>1, BaseFacts
    <3>2. CASE a = act.ptr
      <4>1. a # None BY AddressIs
      <4> QED BY <3>2, <4>1, <1>8
    <3>3. CASE HasBlock(w, act) /\ a[1] = Block(w, act)
      <4>1. HasBlock(m, act) /\ a[1] = Block(m, act) BY <3>3, <1>5, <1>6, <1>7
      <4>2. a[2] \in DOMAIN w[a[1]] BY <2>2 DEF Owns, ValidIn
      <4>3. ValidIn(m, a) BY <4>1, <4>2, <1>7 DEF ValidIn
      <4> QED BY <4>1, <4>3 DEF Owns
    <3> QED BY <2>2, <3>1, <3>2, <3>3 DEF Owns
  <2> QED BY <2>1, <2>2
<1>10. ASSUME NEW a \in Addresses PROVE InSlot(w, act, a) <=> InSlot(m, act, a)
  <2>1. CASE act.fn \in {"array", "struct"}
    <3>1. SlotAt(w, act) = SlotAt(m, act) BY <2>1, <1>5 DEF SlotAt
    <3> QED BY <3>1 DEF InSlot
  <2>2. CASE act.fn \notin {"array", "struct"}
    <3>1. ~Waiting(act)
      BY <2>2, <1>1, <1>2 DEF FitBase, StatesOf, Waiting, ParserFns
    <3> QED BY <3>1 DEF InSlot
  <2> QED BY <2>1, <2>2
<1>11. SameView(m, w, act) BY <1>5, <1>6, <1>9, <1>10 DEF SameView
<1>12. FitBase(w, act)
  <2>1. ASSUME NEW i \in act.at[2] .. act.at[2] + Base(act) - 1
        PROVE  /\ ValidIn(w, Address(act.at[1], i))
               /\ act.fn \in {"initial", "value"} =>
                     Get(w, Address(act.at[1], i)) = Cleared
    <3> DEFINE a == Address(act.at[1], i)
    <3>1. i \in Nat BY <1>2
    <3>2. a \in Addresses /\ a[1] = act.at[1] /\ a[2] = i BY <3>1, <1>2, AddressFacts
    <3> HIDE DEF a
    <3>3. InBase(act, a) BY <3>2, <1>2 DEF InBase
    <3>4. Owns(m, act, a) BY <3>2, <3>3, <1>1, BaseFacts
    <3>5. ValidIn(w, a) BY <3>2, <3>4 DEF Keeps
    <3>6. ASSUME act.fn \in {"initial", "value"} PROVE Get(w, a) = Cleared
      <4>1. ~Waiting(act) BY <3>6, <1>1 DEF FitBase, StatesOf, Waiting
      <4>2. ~InSlot(m, act, a) BY <4>1 DEF InSlot
      <4>3. Get(w, a) = Get(m, a) BY <3>2, <3>4, <3>6, <4>2, <1>3
      <4> QED BY <3>6, <4>3, <1>1 DEF FitBase, a
    <3> QED BY <3>5, <3>6 DEF a
  <2> QED BY <2>1, <1>1 DEF FitBase
<1>13. FitString(w, act)
  <2>1. ASSUME act.fn = "string" PROVE Get(w, act.at).p <= 0
    <3>1. ~Waiting(act) BY <2>1, <1>1 DEF FitBase, StatesOf, Waiting
    <3>2. ~InSlot(m, act, act.at) BY <3>1 DEF InSlot
    <3>3. Owns(m, act, act.at) BY <1>1, BaseFacts
    <3> QED BY <2>1, <3>2, <3>3, <1>1, <1>2, <1>3 DEF FitString
  <2> QED BY <2>1, <1>1 DEF FitString, Keeps
<1>14. FitBlock(w, act)
  <2> SUFFICES ASSUME act.fn \in {"array", "struct"}
               PROVE FitBlock(w, act)
    BY DEF FitBlock
  <2>1. CASE ~HasBlock(m, act) BY <2>1, <1>1, <1>5, <1>6 DEF FitBlock
  <2>2. CASE HasBlock(m, act)
    <3> DEFINE b == Block(m, act)
    <3>1. /\ b > act.at[1] /\ b \in DOMAIN m
          /\ Room(m, act) > 0 /\ Count(m, act) <= Room(m, act)
          /\ Len(m[b]) = Room(m, act) * Unit(act)
          /\ \A i \in Count(m, act) * Unit(act) + 1 .. Len(m[b]) : m[b][i] = Cleared
      BY <2>2, <1>1 DEF FitBlock
    <3>2. b \in DOMAIN w /\ Len(w[b]) = Len(m[b]) BY <2>2 DEF Keeps
    <3> HIDE DEF b
    <3>3. b \in Nat /\ b # act.at[1]
      <4>1. b = Get(m, Anchor(act)).p BY DEF b, Block
      <4>2. ValidIn(m, Anchor(act)) BY <1>4 DEF Owns
      <4>3. b \in Int BY <4>1, <4>2, MemoryFacts DEF ValidIn, Get
      <4> QED BY <3>1, <4>3, <1>2
    <3>4. Count(m, act) * Unit(act) \in Nat /\ Len(m[b]) \in Nat
          /\ DOMAIN m[b] = 1 .. Len(m[b])
      <4>1. ValidIn(m, Anchor(act)) BY <1>4 DEF Owns
      <4>2. Count(m, act) \in Nat
        BY <4>1, <1>2, MemoryFacts DEF ValidIn, Count, Get
      <4> QED BY <3>1, <4>2, <1>2, MemoryFacts, Times
    <3>5. ASSUME NEW i \in Count(m, act) * Unit(act) + 1 .. Len(m[b])
          PROVE  w[b][i] = Cleared
      <4> DEFINE a == Address(b, i)
      <4>1. i \in Nat /\ i \in DOMAIN m[b] /\ i > Count(m, act) * Unit(act) BY <3>4
      <4>2. a \in Addresses /\ a[1] = b /\ a[2] = i BY <4>1, <3>3, AddressFacts
      <4> HIDE DEF a
      <4>3. Owns(m, act, a) BY <2>2, <4>1, <4>2, <3>1 DEF Owns, ValidIn, b
      <4>4. ~InSlot(m, act, a) BY <2>2, <4>1, <4>2, OutsideSlot DEF b
      <4>5. a # act.at BY <4>2, <3>3
      <4>6. Get(w, a) = Get(m, a) BY <4>2, <4>3, <4>4, <4>5, <1>3
      <4> QED BY <4>2, <4>6, <3>1 DEF Get
    <3> QED BY <2>2, <3>1, <3>2, <3>5, <1>5, <1>6 DEF FitBlock, b
  <2> QED BY <2>1, <2>2
<1>15. FitArray(w, act) BY <1>1 DEF FitArray
<1>16. FitPtr(w, act)
  <2>1. ASSUME act.ptr # None
        PROVE  ValidIn(w, act.ptr) /\ Get(w, act.ptr) = Get(m, act.ptr)
    <3>1. act.ptr \in Addresses /\ act.fn = "struct" BY <2>1, <1>1, <1>2 DEF FitPtr
    <3> QED BY <2>1, <3>1, <1>3, <1>8
  <2> QED BY <2>1, <1>1 DEF FitPtr
<1>17. FitMembers(w, act)
  <2> SUFFICES ASSUME act.fn = "struct" PROVE FitMembers(w, act)
    BY DEF FitMembers
  <2>1. /\ \A i \in DOMAIN Members[act.type] \ act.seen :
              Get(m, Address(act.at[1], act.at[2] + i - 1)) = Cleared
        /\ act.st \in {"named", "after"} => IsMember(act) \/ IsExtra(m, act)
        /\ act.st = "named" =>
             \A i \in act.childAt[2] .. act.childAt[2] + Width(act.child) - 1 :
                 Get(m, Address(act.childAt[1], i)) = Cleared
    BY <1>1 DEF FitMembers
  <2>2. ASSUME NEW i \in DOMAIN Members[act.type] \ act.seen
        PROVE  Get(w, Address(act.at[1], act.at[2] + i - 1)) = Cleared
    <3> DEFINE a == Address(act.at[1], act.at[2] + i - 1)
    <3>1. i \in Nat /\ 1 <= i /\ i <= Len(Members[act.type])
          /\ Len(Members[act.type]) \in Nat BY <1>2
    <3>2. a \in Addresses /\ a[1] = act.at[1] /\ a[2] = act.at[2] + i - 1
      <4>1. act.at[2] + i - 1 \in Nat BY <3>1, <1>2, SMTT(60)
      <4> QED BY <4>1, <1>2, AddressFacts, SMTT(60)
    <3> HIDE DEF a
    <3>3. Base(act) = Len(Members[act.type]) + 1 BY DEF Base, StructWidth
    <3>4. InBase(act, a) BY <3>1, <3>2, <3>3, <1>2, SMTT(60) DEF InBase
    <3>5. Owns(m, act, a) BY <3>2, <3>4, <1>1, BaseFacts
    <3>6. ~InSlot(m, act, a) BY <3>2, OutsideSlot
    <3>7. Get(w, a) = Get(m, a) BY <3>2, <3>5, <3>6, <1>3
    <3> QED BY <3>7, <2>1 DEF a
  <2>3. act.st \in {"named", "after"} => IsMember(act) \/ IsExtra(w, act)
    BY <2>1, <1>5, <1>6 DEF IsExtra
  <2>4. ASSUME act.st = "named",
               NEW i \in act.childAt[2] .. act.childAt[2] + Width(act.child) - 1
        PROVE  Get(w, Address(act.childAt[1], i)) = Cleared
    <3> DEFINE a == Address(act.childAt[1], i)
    <3>1. ~Waiting(act) BY <2>4 DEF Waiting
    <3>2. act.childAt \in Addresses /\ act.child \in Types
      BY <2>4, ChildFacts
    <3>5. i \in Nat /\ act.childAt[1] \in Nat /\ act.childAt[2] \in Nat
          /\ Width(act.child) \in Nat
      BY <3>2, AddressIs, TypeFacts
    <3>6. a \in Addresses /\ a[1] = act.childAt[1] /\ a[2] = i
      BY <3>5, AddressFacts
    <3> HIDE DEF a
    <3>7. InSpan(SlotAt(m, act), SlotWidth(act), a)
      BY <2>4, <3>5, <3>6 DEF InSpan, SlotAt, SlotWidth
    <3>8. Owns(m, act, a) BY <2>4, <3>6, <3>7, SlotOwned
    <3>3. ~InSlot(m, act, a) BY <3>1 DEF InSlot
    <3>4. Get(w, a) = Get(m, a) BY <3>6, <3>8, <3>3, <1>3
    <3> QED BY <3>4, <2>1, <2>4 DEF a
  <2> QED BY <2>2, <2>3, <2>4 DEF FitMembers
<1>18. Fit(w, act) BY <1>12, <1>13, <1>14, <1>15, <1>16, <1>17 DEF Fit
<1> QED BY <1>11, <1>18

-----------------------------------------------------------------------------
(***************************************************************************)
(* The parsers together.                                                   *)
(***************************************************************************)
\* The memory w differs from m only in what act governs, and in its blocks.
Only(m, w, act) ==
    \A b \in DOMAIN m :
        \/ /\ b \in DOMAIN w /\ Len(w[b]) = Len(m[b])
           /\ \A i \in DOMAIN m[b] : Owns(m, act, Address(b, i)) \/ w[b][i] = m[b][i]
        \/ HasBlock(m, act) /\ b = Block(m, act)
        \/ act.buf # Null /\ b = act.buf

LEMMA HomeFacts ==
    ASSUME NEW m, NEW act, Fit(m, act)
    PROVE  Home(act) \in Nat /\ Home(act) <= act.at[1] /\ act.at[1] \in Nat
<1>1. act \in ParserType /\ FitPtr(m, act) BY DEF Fit, FitBase
<1>2. act.at[1] \in Nat /\ (act.ptr # None => act.ptr[1] \in Nat)
  BY <1>1, ParserFacts, AddressIs
<1> QED BY <1>1, <1>2 DEF FitPtr, Home

LEMMA WaitingFacts ==
    ASSUME NEW m, NEW act, Fit(m, act), Waiting(act)
    PROVE  act.fn \in {"array", "struct"} /\ act.buf = Null
<1>1. /\ act.fn \in ParserFns /\ act.st \in StatesOf(act.fn) /\ FitString(m, act)
  BY ParserFacts DEF Fit, FitBase
<1>2. act.fn \in {"array", "struct"}
  BY <1>1 DEF Waiting, StatesOf, ParserFns
<1> QED BY <1>1, <1>2 DEF FitString

\* The block of a parser is not that of an outer one, nor in it.
LEMMA OwnBlock ==
    ASSUME NEW m, IsMemory(m), Unshared(m), NEW act, NEW out, Fit(m, act), Fit(m, out),
           Waiting(out), Apart(m, act, out), HasBlock(m, act),
           NEW a \in Addresses, Owns(m, out, a)
    PROVE  a[1] # Block(m, act)
<1>1. act.fn \in {"array", "struct"} /\ out.fn \in {"array", "struct"}
  BY WaitingFacts DEF HasBlock
<1>2. /\ Block(m, act) \in Nat /\ Block(m, act) > act.at[1]
      /\ ValidIn(m, Anchor(act)) /\ Anchor(act) \in Addresses
  BY <1>1, BlockFacts
<1>3. /\ ValidIn(m, Anchor(out)) /\ Anchor(out) \in Addresses
      /\ HasBlock(m, out) => Block(m, out) \in Nat
  BY <1>1, BlockFacts
<1>4. out.at[1] <= Home(act) BY DEF Apart
<1>5. /\ Home(act) \in Nat /\ Home(act) <= act.at[1] /\ act.at[1] \in Nat
      /\ out.at[1] \in Nat
  BY HomeFacts
<1>6. out.at[1] < Block(m, act) BY <1>2, <1>4, <1>5
<1>7. CASE InBase(out, a) BY <1>7, <1>2, <1>5, <1>6 DEF InBase
<1>8. CASE a = out.ptr
  <2>1. a # None /\ a[1] \in Nat BY AddressIs
  <2>2. a[1] < out.at[1] BY <1>8, <2>1 DEF Fit, FitPtr
  <2> QED BY <2>1, <2>2, <1>2, <1>5, <1>6
<1>9. CASE HasBlock(m, out) /\ a[1] = Block(m, out)
  <2>1. SUFFICES ASSUME Block(m, out) = Block(m, act) PROVE FALSE BY <1>9
  <2>2. Anchor(out) = Anchor(act)
    <3>1. /\ Anchor(out)[1] = Anchor(act)[1] /\ Anchor(out)[2] = Anchor(act)[2]
      <4>1. Get(m, Anchor(act)).p > 0 /\ Get(m, Anchor(out)).p = Get(m, Anchor(act)).p
        BY <2>1, <1>2, <1>5 DEF Block
      <4> QED BY <4>1, <1>2, <1>3 DEF Unshared, Get, ValidIn
    <3> QED BY <3>1, <1>2, <1>3, AddressIs
  <2>3. Owns(m, act, Anchor(act)) /\ Owns(m, out, Anchor(out))
    BY <1>1, BaseFacts DEF Fit
  <2>4. InSlot(m, out, Anchor(out)) BY <2>2, <2>3, <1>3 DEF Apart
  <2> QED BY <2>4, <1>1, <1>3, OutsideSlot
<1> QED BY <1>7, <1>8, <1>9 DEF Owns

\* What happens in a parser leaves the outer ones what they govern.
LEMMA OthersKeep ==
    ASSUME NEW m, IsMemory(m), Unshared(m), NEW w, IsMemory(w), NEW act, NEW out,
           Fit(m, act), Fit(m, out), Waiting(out), Apart(m, act, out), Only(m, w, act)
    PROVE  /\ Keeps(m, w, out)
           /\ out.fn = "array" => Get(w, out.at) = Get(m, out.at)
<1>1. /\ out.fn \in {"array", "struct"} /\ out.buf = Null
  BY WaitingFacts
<1>2. /\ ValidIn(m, Anchor(out)) /\ Anchor(out) \in Addresses
      /\ HasBlock(m, out) => /\ Block(m, out) \in Nat /\ Block(m, out) \in DOMAIN m
                             /\ Len(m[Block(m, out)]) > 0
  BY <1>1, BlockFacts
<1>3. ASSUME act.buf # Null PROVE act.buf \in DOMAIN m /\ m[act.buf] = <<>>
  BY <1>3 DEF Fit, FitString
\* The blocks that it has cells in stay;
<1>4. ASSUME NEW a \in Addresses, Owns(m, out, a)
      PROVE  /\ a[1] \in DOMAIN m /\ a[1] \in DOMAIN w /\ Len(w[a[1]]) = Len(m[a[1]])
             /\ a[2] \in DOMAIN m[a[1]]
             /\ Owns(m, act, a) \/ Get(w, a) = Get(m, a)
  <2>1. a[1] \in DOMAIN m /\ a[2] \in DOMAIN m[a[1]] BY <1>4 DEF Owns, ValidIn
  <2>2. HasBlock(m, act) => a[1] # Block(m, act) BY <1>4, OwnBlock
  <2>3. act.buf # Null => a[1] # act.buf
    BY <2>1, <1>3
  <2>4. /\ a[1] \in DOMAIN w /\ Len(w[a[1]]) = Len(m[a[1]])
        /\ \A i \in DOMAIN m[a[1]] :
              Owns(m, act, Address(a[1], i)) \/ w[a[1]][i] = m[a[1]][i]
    BY <2>1, <2>2, <2>3 DEF Only
  <2>5. Owns(m, act, Address(a[1], a[2])) \/ w[a[1]][a[2]] = m[a[1]][a[2]]
    BY <2>1, <2>4
  <2> QED BY <2>1, <2>4, <2>5, AddressIs DEF Get
<1>5. ASSUME NEW a \in Addresses, Owns(m, out, a) PROVE ValidIn(w, a)
  BY <1>4, <1>5, MemoryFacts DEF ValidIn
\* and so do the cells, outside of what it has left to others.
<1>6. ASSUME NEW a \in Addresses, Owns(m, out, a), ~InSlot(m, out, a)
      PROVE  Get(w, a) = Get(m, a)
  <2>1. ~Owns(m, act, a) BY <1>6 DEF Apart
  <2> QED BY <1>4, <1>6, <2>1
<1>7. ASSUME HasBlock(m, out)
      PROVE  Block(m, out) \in DOMAIN w /\ Len(w[Block(m, out)]) = Len(m[Block(m, out)])
  <2> DEFINE a == Address(Block(m, out), 1)
  <2>1. a \in Addresses /\ a[1] = Block(m, out) /\ a[2] = 1
    BY <1>2, <1>7, AddressFacts
  <2>2. ValidIn(m, a) BY <1>2, <1>7, <2>1, MemoryFacts DEF ValidIn
  <2>3. Owns(m, out, a) BY <2>1, <2>2, <1>7 DEF Owns
  <2> HIDE DEF a
  <2> QED BY <2>1, <2>3, <1>4
<1>8. Keeps(m, w, out) BY <1>1, <1>5, <1>6, <1>7 DEF Keeps
<1>9. ASSUME out.fn = "array" PROVE Get(w, out.at) = Get(m, out.at)
  <2>1. out.at \in Addresses /\ Owns(m, out, out.at)
    BY BaseFacts, ParserFacts DEF Fit
  <2>2. out.at = Anchor(out) BY <1>9 DEF Anchor
  <2>3. ~InSlot(m, out, out.at) BY <2>1, <2>2, <1>1, OutsideSlot
  <2> QED BY <2>1, <2>3, <1>6
<1> QED BY <1>8, <1>9

\* When every parser keeps what it governs, they stay apart.
LEMMA AllKept ==
    ASSUME NEW m, IsMemory(m), NEW w, IsMemory(w), NEW s, NEW n \in Nat,
           DOMAIN s = 1 .. n, Good(m, s), \A k \in 1 .. n : Keeps(m, w, s[k])
    PROVE  Good(w, s)
<1>1. ASSUME NEW k \in 1 .. n PROVE Fit(w, s[k]) /\ SameView(m, w, s[k])
  BY <1>1, KeptFit DEF Good
<1>2. ASSUME NEW j \in DOMAIN s, NEW i \in 1 .. j - 1 PROVE Apart(w, s[i], s[j])
  <2>1. i \in 1 .. n /\ j \in 1 .. n OBVIOUS
  <2>2. Apart(m, s[i], s[j]) BY DEF Good
  <2>3. SameView(m, w, s[i]) /\ SameView(m, w, s[j]) BY <2>1, <1>1
  <2> QED BY <2>2, <2>3 DEF Apart, SameView
<1> QED BY <1>1, <1>2 DEF Good

\* The innermost parser takes a step, and becomes t.
LEMMA Replaced ==
    ASSUME NEW m, IsMemory(m), Unshared(m), NEW w, IsMemory(w),
           NEW s, NEW n \in Nat, DOMAIN s = 1 .. n, n > 0, Good(m, s),
           Only(m, w, s[1]), NEW t, Fit(w, t), Home(t) >= Home(s[1]),
           \A a \in Addresses : Owns(w, t, a) => Owns(m, s[1], a) \/ a[1] \notin DOMAIN m,
           NEW r, DOMAIN r = 1 .. n, r[1] = t, \A k \in 2 .. n : r[k] = s[k]
    PROVE  Good(w, r)
<1>1. ASSUME NEW k \in 2 .. n
      PROVE  /\ Waiting(s[k]) /\ Fit(m, s[k]) /\ Apart(m, s[1], s[k])
             /\ Fit(w, s[k]) /\ SameView(m, w, s[k])
  <2>1. k \in DOMAIN s /\ k > 1 /\ 1 \in 1 .. k - 1 /\ 1 \in DOMAIN s OBVIOUS
  <2>2. Waiting(s[k]) /\ Fit(m, s[k]) /\ Fit(m, s[1]) /\ Apart(m, s[1], s[k])
    BY <2>1 DEF Good
  <2>3. Keeps(m, w, s[k]) BY <2>2, OthersKeep
  <2>4. Fit(w, s[k]) /\ SameView(m, w, s[k]) BY <2>2, <2>3, KeptFit
  <2> QED BY <2>2, <2>4
<1>2. ASSUME NEW k \in DOMAIN r PROVE Fit(w, r[k]) /\ (k > 1 => Waiting(r[k]))
  <2>1. CASE k = 1 BY <2>1
  <2>2. CASE k # 1
    <3>1. k \in 2 .. n BY <2>2
    <3> QED BY <3>1, <1>1
  <2> QED BY <2>1, <2>2
<1>3. ASSUME NEW j \in DOMAIN r, NEW i \in 1 .. j - 1 PROVE Apart(w, r[i], r[j])
  <2>1. j \in 2 .. n /\ i \in 1 .. n /\ r[j] = s[j] BY DEF Good
  <2>2. CASE i = 1
    <3>1. Apart(m, s[1], s[j]) /\ SameView(m, w, s[j]) /\ Fit(m, s[j]) BY <2>1, <1>1
    <3>2. s[j].at[1] <= Home(t)
      <4>1. s[j].at[1] <= Home(s[1]) BY <3>1 DEF Apart
      <4>2. s[j].at[1] \in Nat /\ Home(s[1]) \in Nat /\ Home(t) \in Nat
        BY <3>1, HomeFacts DEF Good
      <4> QED BY <4>1, <4>2
    <3>3. ASSUME NEW a \in Addresses, Owns(w, t, a), Owns(w, s[j], a)
          PROVE  InSlot(w, s[j], a)
      <4>1. Owns(m, s[j], a) BY <3>1, <3>3 DEF SameView
      <4>2. a[1] \in DOMAIN m BY <4>1 DEF Owns, ValidIn
      <4>3. Owns(m, s[1], a) BY <3>3, <4>2
      <4> QED BY <3>1, <4>1, <4>3 DEF Apart, SameView
    <3> QED BY <2>1, <2>2, <3>2, <3>3 DEF Apart
  <2>3. CASE i # 1
    <3>1. i \in 2 .. n /\ r[i] = s[i] BY <2>1, <2>3
    <3>2. SameView(m, w, s[i]) /\ SameView(m, w, s[j]) BY <2>1, <3>1, <1>1
    <3>3. Apart(m, s[i], s[j]) BY <2>1, <3>1 DEF Good
    <3> QED BY <2>1, <3>1, <3>2, <3>3 DEF Apart, SameView
  <2> QED BY <2>2, <2>3
<1> QED BY <1>2, <1>3 DEF Good

\* It calls a parser for the part that it leaves to it.
LEMMA Pushed ==
    ASSUME NEW m, IsMemory(m), NEW s, NEW n \in Nat, DOMAIN s = 1 .. n, n > 0,
           Good(m, s), Waiting(s[1]), NEW t, Fit(m, t), Home(t) >= s[1].at[1],
           \A a \in Addresses : Owns(m, t, a) => InSlot(m, s[1], a),
           NEW r, DOMAIN r = 1 .. n + 1, r[1] = t, \A k \in 1 .. n : r[k + 1] = s[k]
    PROVE  Good(m, r)
<1>1. ASSUME NEW k \in 2 .. n + 1 PROVE k - 1 \in 1 .. n /\ r[k] = s[k - 1]
  <2>1. k - 1 \in 1 .. n /\ (k - 1) + 1 = k OBVIOUS
  <2> QED BY <2>1
<1>2. ASSUME NEW k \in 1 .. n PROVE Fit(m, s[k]) /\ Waiting(s[k])
  <2>1. k = 1 \/ k > 1 OBVIOUS
  <2> QED BY <2>1 DEF Good
<1>3. ASSUME NEW k \in DOMAIN r PROVE Fit(m, r[k]) /\ (k > 1 => Waiting(r[k]))
  <2>1. CASE k = 1 BY <2>1
  <2>2. CASE k # 1
    <3>1. k \in 2 .. n + 1 BY <2>2
    <3> QED BY <3>1, <1>1, <1>2
  <2> QED BY <2>1, <2>2
<1>4. ASSUME NEW a \in Addresses, Owns(m, t, a)
      PROVE  Owns(m, s[1], a)
  <2>1. InSlot(m, s[1], a) /\ Fit(m, s[1]) BY <1>2, <1>4
  <2> QED BY <2>1, InSlotPlace, SlotOwned
<1>5. ASSUME NEW k \in 1 .. n PROVE Apart(m, t, s[k])
  <2>1. CASE k = 1 BY <2>1 DEF Apart
  <2>2. CASE k # 1
    <3>1. 1 \in 1 .. k - 1 /\ k \in DOMAIN s BY <2>2
    <3>2. Apart(m, s[1], s[k]) BY <3>1 DEF Good
    <3>3. s[k].at[1] <= Home(t)
      <4>1. s[k].at[1] <= Home(s[1]) BY <3>2 DEF Apart
      <4>2. /\ s[k].at[1] \in Nat /\ Home(s[1]) \in Nat /\ Home(s[1]) <= s[1].at[1]
            /\ s[1].at[1] \in Nat /\ Home(t) \in Nat
        BY <1>2, HomeFacts
      <4> QED BY <4>1, <4>2
    <3> QED BY <3>2, <3>3, <1>4 DEF Apart
  <2> QED BY <2>1, <2>2
<1>6. ASSUME NEW j \in DOMAIN r, NEW i \in 1 .. j - 1 PROVE Apart(m, r[i], r[j])
  <2>1. j \in 2 .. n + 1 /\ i \in 1 .. n + 1 OBVIOUS
  <2>2. j - 1 \in 1 .. n /\ r[j] = s[j - 1] BY <2>1, <1>1
  <2>3. CASE i = 1 BY <2>2, <2>3, <1>5
  <2>4. CASE i # 1
    <3>1. i \in 2 .. n + 1 BY <2>1, <2>4
    <3>2. i - 1 \in 1 .. n /\ r[i] = s[i - 1] BY <3>1, <1>1
    <3>3. i - 1 \in 1 .. (j - 1) - 1 /\ j - 1 \in DOMAIN s BY <2>1, <2>2, <3>1
    <3> QED BY <2>2, <3>2, <3>3 DEF Good
  <2> QED BY <2>3, <2>4
<1> QED BY <1>3, <1>6 DEF Good

\* It returns.
LEMMA Popped ==
    ASSUME NEW m, IsMemory(m), Unshared(m), NEW w, IsMemory(w),
           NEW s, NEW n \in Nat, DOMAIN s = 1 .. n, n > 0, Good(m, s),
           Only(m, w, s[1]),
           NEW r, DOMAIN r = 1 .. n - 1, \A k \in 1 .. n - 1 : r[k] = s[k + 1]
    PROVE  Good(w, r)
<1>1. ASSUME NEW k \in 2 .. n
      PROVE  Waiting(s[k]) /\ Fit(w, s[k]) /\ SameView(m, w, s[k])
  <2>1. k \in DOMAIN s /\ k > 1 /\ 1 \in 1 .. k - 1 /\ 1 \in DOMAIN s OBVIOUS
  <2>2. Waiting(s[k]) /\ Fit(m, s[k]) /\ Fit(m, s[1]) /\ Apart(m, s[1], s[k])
    BY <2>1 DEF Good
  <2>3. Keeps(m, w, s[k]) BY <2>2, OthersKeep
  <2> QED BY <2>2, <2>3, KeptFit
<1>2. ASSUME NEW k \in DOMAIN r PROVE Fit(w, r[k]) /\ Waiting(r[k])
  <2>1. k + 1 \in 2 .. n /\ r[k] = s[k + 1] OBVIOUS
  <2> QED BY <2>1, <1>1
<1>3. ASSUME NEW j \in DOMAIN r, NEW i \in 1 .. j - 1 PROVE Apart(w, r[i], r[j])
  <2>1. /\ j + 1 \in 2 .. n /\ i + 1 \in 2 .. n /\ i + 1 \in 1 .. (j + 1) - 1
        /\ r[j] = s[j + 1] /\ r[i] = s[i + 1]
    OBVIOUS
  <2>2. Apart(m, s[i + 1], s[j + 1]) BY <2>1 DEF Good
  <2>3. SameView(m, w, s[i + 1]) /\ SameView(m, w, s[j + 1]) BY <2>1, <1>1
  <2> QED BY <2>1, <2>2, <2>3 DEF Apart, SameView
<1> QED BY <1>2, <1>3 DEF Good

-----------------------------------------------------------------------------
(***************************************************************************)
(* The steps of a parser, for the parsers and frames and the heap.         *)
(***************************************************************************)
\* The sequence s with its head replaced, and with two heads for it.
IsReplaced(r, s, t) == /\ Len(r) = Len(s) /\ r[1] = t
                       /\ \A k \in 2 .. Len(s) : r[k] = s[k]
IsPushed(r, s, n, t) == /\ Len(r) = Len(s) + 1 /\ r[1] = n /\ r[2] = t
                        /\ \A k \in 2 .. Len(s) : r[k + 1] = s[k]
IsPopped(r, s) == Len(r) = Len(s) - 1 /\ \A k \in 1 .. Len(s) - 1 : r[k] = s[k + 1]

LEMMA Heads ==
    ASSUME NEW T, NEW s \in Seq(T), s # <<>>, NEW t \in T, NEW n \in T
    PROVE  /\ <<t>> \o Tail(s) \in Seq(T) /\ IsReplaced(<<t>> \o Tail(s), s, t)
           /\ <<n, t>> \o Tail(s) \in Seq(T) /\ IsPushed(<<n, t>> \o Tail(s), s, n, t)
           /\ Tail(s) \in Seq(T) /\ IsPopped(Tail(s), s)
           /\ Head(s) = s[1] /\ Len(s) \in Nat \ {0} /\ s[1] \in T
<1>1. /\ Tail(s) \in Seq(T) /\ Len(Tail(s)) = Len(s) - 1 /\ Len(s) \in Nat \ {0}
      /\ \A k \in 1 .. Len(s) - 1 : Tail(s)[k] = s[k + 1]
      /\ Head(s) = s[1] /\ s[1] \in T
  OBVIOUS
<1> DEFINE v == Tail(s)
<1> HIDE DEF v
<1>2. v \in Seq(T) /\ Len(v) = Len(s) - 1 /\ \A k \in 1 .. Len(s) - 1 : v[k] = s[k + 1]
  BY <1>1 DEF v
<1>3. <<t>> \o v \in Seq(T) /\ Len(<<t>> \o v) = Len(s) /\ (<<t>> \o v)[1] = t
  <2>1. <<t>> \in Seq(T) /\ Len(<<t>>) = 1 /\ <<t>>[1] = t OBVIOUS
  <2>2. <<t>> \o v \in Seq(T) /\ Len(<<t>> \o v) = 1 + (Len(s) - 1)
    BY <2>1, <1>2
  <2>3. (<<t>> \o v)[1] = t BY <2>1, <1>1, <1>2
  <2> QED BY <2>2, <2>3, <1>1
<1>4. ASSUME NEW k \in 2 .. Len(s) PROVE (<<t>> \o v)[k] = s[k]
  <2>1. k - 1 \in 1 .. Len(s) - 1 /\ (k - 1) + 1 = k BY <1>1
  <2>2. (<<t>> \o v)[k] = v[k - 1] BY <1>1, <1>2
  <2> QED BY <2>1, <2>2, <1>2
<1>5. /\ <<n, t>> \o v \in Seq(T) /\ Len(<<n, t>> \o v) = Len(s) + 1
      /\ (<<n, t>> \o v)[1] = n /\ (<<n, t>> \o v)[2] = t
  <2>1. <<n, t>> \in Seq(T) /\ Len(<<n, t>>) = 2 /\ <<n, t>>[1] = n /\ <<n, t>>[2] = t
    OBVIOUS
  <2>2. <<n, t>> \o v \in Seq(T) /\ Len(<<n, t>> \o v) = 2 + (Len(s) - 1)
    BY <2>1, <1>2
  <2>3. (<<n, t>> \o v)[1] = n /\ (<<n, t>> \o v)[2] = t BY <2>1, <1>1, <1>2
  <2> QED BY <2>2, <2>3, <1>1
<1>6. ASSUME NEW k \in 2 .. Len(s) PROVE (<<n, t>> \o v)[k + 1] = s[k]
  <2>1. k - 1 \in 1 .. Len(s) - 1 /\ (k - 1) + 1 = k BY <1>1
  <2>2. (<<n, t>> \o v)[k + 1] = v[k - 1] BY <1>1, <1>2
  <2> QED BY <2>1, <2>2, <1>2
<1> QED BY <1>1, <1>3, <1>4, <1>5, <1>6 DEF v, IsReplaced, IsPushed, IsPopped

IsChain(z, m, c, f) ==
    /\ DOMAIN z = 1 .. Len(c) + Len(f)
    /\ Len(c) + Len(f) \in Nat /\ Len(c) \in Nat /\ Len(f) \in Nat
    /\ \A k \in 1 .. Len(c) : z[k] = c[k]
    /\ \A j \in 1 .. Len(f) : z[Len(c) + j] = RestoredIn(m, f[j])

LEMMA ChainFacts ==
    ASSUME NEW m, NEW c \in Seq(ParserType), NEW f \in Seq(ParserType)
    PROVE  IsChain(Chain(m, c, f), m, c, f)
<1>1. Len(c) \in Nat /\ Len(f) \in Nat OBVIOUS
<1>2. DOMAIN Chain(m, c, f) = 1 .. Len(c) + Len(f) BY DEF Chain
<1>3. ASSUME NEW k \in 1 .. Len(c) PROVE Chain(m, c, f)[k] = c[k]
  BY <1>1 DEF Chain
<1>4. ASSUME NEW j \in 1 .. Len(f) PROVE Chain(m, c, f)[Len(c) + j] = RestoredIn(m, f[j])
  <2>1. Len(c) + j \in 1 .. Len(c) + Len(f) /\ ~(Len(c) + j <= Len(c))
        /\ (Len(c) + j) - Len(c) = j
    BY <1>1
  <2> QED BY <2>1 DEF Chain
<1> QED BY <1>1, <1>2, <1>3, <1>4 DEF IsChain

\* Frames save everything but the length and capacity of arrays.
LEMMA RestoredFacts ==
    ASSUME NEW m, NEW act \in ParserType
    PROVE  /\ RestoredIn(m, act).fn = act.fn /\ RestoredIn(m, act).at = act.at
           /\ RestoredIn(m, act).buf = act.buf /\ RestoredIn(m, act).ptr = act.ptr
           /\ RestoredIn(m, act).st = act.st
           /\ act.fn # "array" => RestoredIn(m, act) = act
BY DEF RestoredIn, ParserType

\* The parsers outside the innermost one.
LEMMA OuterFacts ==
    ASSUME NEW m, NEW u, NEW d, NEW c, NEW f, Active(m, u, d, c, f), c # <<>>
    PROVE  /\ c[1] \in ParserType /\ Fit(m, c[1]) /\ IsMemory(m) /\ Unshared(m)
           /\ Chain(m, c, f)[1] = c[1]
           /\ Len(c) \in Nat \ {0} /\ Len(f) \in Nat
           /\ \A k \in 2 .. Len(c) : c[k].buf = Null
           /\ \A k \in 1 .. Len(f) : f[k].buf = Null
           /\ \A k \in 2 .. Len(c) + Len(f) : LET out == Chain(m, c, f)[k] IN
                 Fit(m, out) /\ Waiting(out) /\ Apart(m, c[1], out)
           /\ Held(c, f) = {c[1].buf} \ {Null}
           /\ OneHolder(c, f)
<1>1. c \in Seq(ParserType) /\ f \in Seq(ParserType) /\ Good(m, Chain(m, c, f))
      /\ Heap(m, u, Held(c, f), d) /\ OneHolder(c, f)
  BY DEF Active
<1>2. Len(c) \in Nat \ {0} /\ Len(f) \in Nat /\ c[1] \in ParserType BY <1>1
<1>3. /\ DOMAIN Chain(m, c, f) = 1 .. Len(c) + Len(f)
      /\ \A k \in 1 .. Len(c) : Chain(m, c, f)[k] = c[k]
      /\ \A j \in 1 .. Len(f) : Chain(m, c, f)[Len(c) + j] = RestoredIn(m, f[j])
  <2>1. IsChain(Chain(m, c, f), m, c, f) BY <1>1, ChainFacts
  <2> QED BY <2>1 DEF IsChain
<1>4. Chain(m, c, f)[1] = c[1] BY <1>2, <1>3
<1>5. Fit(m, c[1])
  <2>1. 1 \in DOMAIN Chain(m, c, f) BY <1>2, <1>3
  <2> QED BY <2>1, <1>1, <1>4 DEF Good
<1>6. ASSUME NEW k \in 2 .. Len(c) + Len(f)
      PROVE  /\ Fit(m, Chain(m, c, f)[k]) /\ Waiting(Chain(m, c, f)[k])
             /\ Apart(m, c[1], Chain(m, c, f)[k])
  <2>1. k \in DOMAIN Chain(m, c, f) /\ k > 1 /\ 1 \in 1 .. k - 1 BY <1>2, <1>3
  <2> QED BY <2>1, <1>1, <1>4 DEF Good
<1>7. ASSUME NEW k \in 2 .. Len(c) PROVE c[k].buf = Null
  <2>1. k \in 2 .. Len(c) + Len(f) /\ k \in 1 .. Len(c) BY <1>2
  <2> QED BY <2>1, <1>3, <1>6, WaitingFacts
<1>8. ASSUME NEW j \in 1 .. Len(f) PROVE f[j].buf = Null
  <2>1. Len(c) + j \in 2 .. Len(c) + Len(f) BY <1>2
  <2>2. RestoredIn(m, f[j]).buf = Null BY <2>1, <1>3, <1>6, WaitingFacts
  <2>3. f[j] \in ParserType BY <1>1
  <2> QED BY <2>2, <2>3, RestoredFacts
<1>9. Held(c, f) = {c[1].buf} \ {Null}
  <2>1. DOMAIN c = 1 .. Len(c) /\ DOMAIN f = 1 .. Len(f) BY <1>1
  <2>2. \A k \in DOMAIN c : k = 1 \/ c[k].buf = Null BY <2>1, <1>2, <1>7
  <2>3. 1 \in DOMAIN c BY <2>1, <1>2
  <2> QED BY <2>1, <2>2, <2>3, <1>8 DEF Held
<1>10. IsMemory(m) /\ Unshared(m) BY <1>1, HeapFacts DEF Heap
<1> QED BY <1>1, <1>2, <1>4, <1>5, <1>6, <1>7, <1>8, <1>9, <1>10

\* Frames are the same for the memory w.
LEMMA FramesKeep ==
    ASSUME NEW m, NEW u, NEW d, NEW c, NEW f, Active(m, u, d, c, f), c # <<>>,
           NEW w, IsMemory(w), Only(m, w, c[1])
    PROVE  \A j \in 1 .. Len(f) : RestoredIn(w, f[j]) = RestoredIn(m, f[j])
<1> SUFFICES ASSUME NEW j \in 1 .. Len(f)
             PROVE  RestoredIn(w, f[j]) = RestoredIn(m, f[j])
  OBVIOUS
<1>1. c \in Seq(ParserType) /\ f \in Seq(ParserType) /\ f[j] \in ParserType
  BY DEF Active
<1> DEFINE out == RestoredIn(m, f[j])
<1>2. Len(c) + j \in 2 .. Len(c) + Len(f)
  BY OuterFacts
<1>3. Chain(m, c, f)[Len(c) + j] = out BY <1>1, ChainFacts DEF IsChain
<1>4. Fit(m, out) /\ Waiting(out) /\ Apart(m, c[1], out)
  BY <1>2, <1>3, OuterFacts
<1>5. out.fn = f[j].fn /\ out.at = f[j].at BY <1>1, RestoredFacts
<1> HIDE DEF out
<1>6. out.fn = "array" => Get(w, out.at) = Get(m, out.at)
  BY <1>4, OuterFacts, OthersKeep
<1> QED BY <1>5, <1>6 DEF RestoredIn, out

LEMMA OneHeld ==
    ASSUME NEW c \in Seq(ParserType), NEW f \in Seq(ParserType), c # <<>>,
           \A k \in 2 .. Len(c) : c[k].buf = Null, \A k \in 1 .. Len(f) : f[k].buf = Null
    PROVE  OneHolder(c, f) /\ Held(c, f) = {c[1].buf} \ {Null}
<1>1. DOMAIN c = 1 .. Len(c) /\ DOMAIN f = 1 .. Len(f) /\ Len(c) \in Nat \ {0}
      /\ Len(f) \in Nat
  OBVIOUS
<1>2. \A k \in DOMAIN c : k = 1 \/ c[k].buf = Null BY <1>1
<1>3. 1 \in DOMAIN c BY <1>1
<1>4. Held(c, f) = {c[1].buf} \ {Null} BY <1>1, <1>2, <1>3 DEF Held
<1>5. f # <<>> => f[1].buf = Null BY <1>1
<1>6. OneHolder(c, f) BY <1>1, <1>2, <1>5 DEF OneHolder
<1> QED BY <1>4, <1>6

LEMMA NoneHeld ==
    ASSUME NEW c \in Seq(ParserType), NEW f \in Seq(ParserType),
           \A k \in 1 .. Len(c) : c[k].buf = Null, \A k \in 1 .. Len(f) : f[k].buf = Null
    PROVE  OneHolder(c, f) /\ Held(c, f) = {}
<1>1. DOMAIN c = 1 .. Len(c) /\ DOMAIN f = 1 .. Len(f) /\ Len(c) \in Nat /\ Len(f) \in Nat
  OBVIOUS
<1>2. f # <<>> => f[1].buf = Null BY <1>1
<1> QED BY <1>1, <1>2 DEF OneHolder, Held

\* The innermost parser goes on as t.
LEMMA GoesOn ==
    ASSUME NEW m, NEW u, NEW d, NEW c, NEW f, Active(m, u, d, c, f), c # <<>>,
           NEW w, NEW v, NEW e \in BOOLEAN, NEW t, Fit(w, t), Heap(w, v, {t.buf} \ {Null}, e),
           Only(m, w, c[1]), Home(t) >= Home(c[1]),
           \A a \in Addresses : Owns(w, t, a) => Owns(m, c[1], a) \/ a[1] \notin DOMAIN m
    PROVE  Active(w, v, e, <<t>> \o Tail(c), f)
<1> DEFINE r == <<t>> \o Tail(c)
           n == Len(c) + Len(f)
           s == Chain(m, c, f)
           z == Chain(w, r, f)
<1>1. c \in Seq(ParserType) /\ f \in Seq(ParserType) /\ Good(m, s) /\ Unshared(m)
      /\ IsMemory(m) /\ IsMemory(w) /\ t \in ParserType
  BY OuterFacts, HeapFacts DEF Active, Fit, FitBase
<1>2. r \in Seq(ParserType) /\ IsReplaced(r, c, t) BY <1>1, Heads
<1> HIDE DEF r
<1>3. /\ Len(r) = Len(c) /\ r[1] = t /\ \A k \in 2 .. Len(c) : r[k] = c[k]
      /\ Len(c) \in Nat \ {0} /\ Len(f) \in Nat
  BY <1>2, OuterFacts DEF IsReplaced
<1>4. /\ DOMAIN s = 1 .. n /\ n \in Nat
      /\ \A k \in 1 .. Len(c) : s[k] = c[k]
      /\ \A j \in 1 .. Len(f) : s[Len(c) + j] = RestoredIn(m, f[j])
  <2>1. IsChain(s, m, c, f) BY <1>1, ChainFacts
  <2> HIDE DEF s
  <2> QED BY <2>1 DEF IsChain
<1>5. /\ DOMAIN z = 1 .. n
      /\ \A k \in 1 .. Len(c) : z[k] = r[k]
      /\ \A j \in 1 .. Len(f) : z[Len(c) + j] = RestoredIn(w, f[j])
  <2>1. IsChain(z, w, r, f) BY <1>1, <1>2, ChainFacts
  <2> HIDE DEF z
  <2> QED BY <2>1, <1>3 DEF IsChain
<1>6. \A j \in 1 .. Len(f) : RestoredIn(w, f[j]) = RestoredIn(m, f[j])
  BY <1>1, FramesKeep
<1> HIDE DEF s, z, n
<1>7. s[1] = c[1] /\ z[1] = t BY <1>3, <1>4, <1>5
<1>8. ASSUME NEW k \in 2 .. n PROVE z[k] = s[k]
  <2>1. CASE k <= Len(c)
    <3>1. k \in 2 .. Len(c) /\ k \in 1 .. Len(c) BY <2>1, <1>3
    <3> QED BY <3>1, <1>3, <1>4, <1>5
  <2>2. CASE ~(k <= Len(c))
    <3>1. k - Len(c) \in 1 .. Len(f) /\ Len(c) + (k - Len(c)) = k
      BY <2>2, <1>3, <1>4 DEF n
    <3> QED BY <3>1, <1>4, <1>5, <1>6, ZenonT(60)
  <2> QED BY <2>1, <2>2
<1>9. n > 0 BY <1>3 DEF n
<1>10. Good(w, z)
  BY <1>1, <1>4, <1>5, <1>7, <1>8, <1>9, Replaced
<1>11. \A k \in 2 .. Len(r) : r[k].buf = Null BY <1>3, OuterFacts
<1>12. r # <<>> BY <1>3
<1>13. OneHolder(r, f) /\ Held(r, f) = {t.buf} \ {Null}
  BY <1>1, <1>2, <1>3, <1>11, <1>12, OuterFacts, OneHeld
<1> QED BY <1>1, <1>2, <1>10, <1>13 DEF Active, r, z

\* It returns.
LEMMA Returns ==
    ASSUME NEW m, NEW u, NEW d, NEW c, NEW f, Active(m, u, d, c, f), c # <<>>,
           NEW w, NEW v, NEW e \in BOOLEAN, Heap(w, v, {}, e), Only(m, w, c[1])
    PROVE  Active(w, v, e, Tail(c), f)
<1> DEFINE r == Tail(c)
           n == Len(c) + Len(f)
           s == Chain(m, c, f)
           z == Chain(w, r, f)
<1>1. c \in Seq(ParserType) /\ f \in Seq(ParserType) /\ Good(m, s) /\ Unshared(m)
      /\ IsMemory(m) /\ IsMemory(w) /\ c[1] \in ParserType
  BY OuterFacts, HeapFacts DEF Active
<1>2. r \in Seq(ParserType) /\ IsPopped(r, c) BY <1>1, Heads
<1> HIDE DEF r
<1>3. /\ Len(r) = Len(c) - 1 /\ \A k \in 1 .. Len(c) - 1 : r[k] = c[k + 1]
      /\ Len(c) \in Nat \ {0} /\ Len(f) \in Nat
  BY <1>2, OuterFacts DEF IsPopped
<1>4. /\ DOMAIN s = 1 .. n /\ n \in Nat
      /\ \A k \in 1 .. Len(c) : s[k] = c[k]
      /\ \A j \in 1 .. Len(f) : s[Len(c) + j] = RestoredIn(m, f[j])
  <2>1. IsChain(s, m, c, f) BY <1>1, ChainFacts
  <2> HIDE DEF s
  <2> QED BY <2>1 DEF IsChain
<1>5. /\ DOMAIN z = 1 .. Len(r) + Len(f)
      /\ \A k \in 1 .. Len(r) : z[k] = r[k]
      /\ \A j \in 1 .. Len(f) : z[Len(r) + j] = RestoredIn(w, f[j])
  <2>1. IsChain(z, w, r, f) BY <1>1, <1>2, ChainFacts
  <2> HIDE DEF z
  <2> QED BY <2>1, <1>3 DEF IsChain
<1>6. \A j \in 1 .. Len(f) : RestoredIn(w, f[j]) = RestoredIn(m, f[j])
  BY <1>1, FramesKeep
<1> HIDE DEF s, z, n
<1>7. s[1] = c[1] /\ n > 0 /\ Len(r) + Len(f) = n - 1 BY <1>3, <1>4 DEF n
<1>8. ASSUME NEW k \in 1 .. n - 1 PROVE z[k] = s[k + 1]
  <2>1. CASE k <= Len(r)
    <3>1. k \in 1 .. Len(r) /\ k + 1 \in 1 .. Len(c) /\ k \in 1 .. Len(c) - 1
      BY <2>1, <1>3
    <3> QED BY <3>1, <1>3, <1>4, <1>5
  <2>2. CASE ~(k <= Len(r))
    <3> DEFINE j == k - Len(r)
    <3>1. j \in 1 .. Len(f) /\ Len(r) + j = k /\ Len(c) + j = k + 1
      BY <2>2, <1>3, <1>4 DEF n
    <3> HIDE DEF j
    <3>2. z[Len(r) + j] = s[Len(c) + j] BY <3>1, <1>4, <1>5, <1>6
    <3> QED BY <3>1, <3>2
  <2> QED BY <2>1, <2>2
<1>10. Good(w, z)
  BY <1>1, <1>4, <1>5, <1>7, <1>8, Popped, SMTT(60)
<1>11. \A k \in 1 .. Len(r) : r[k].buf = Null
  <2> SUFFICES ASSUME NEW k \in 1 .. Len(r) PROVE r[k].buf = Null OBVIOUS
  <2>1. k + 1 \in 2 .. Len(c) /\ k \in 1 .. Len(c) - 1 BY <1>3
  <2> QED BY <2>1, <1>3, OuterFacts, SMTT(60)
<1>13. OneHolder(r, f) /\ Held(r, f) = {}
  BY <1>1, <1>2, <1>11, OuterFacts, NoneHeld
<1> QED BY <1>1, <1>2, <1>10, <1>13 DEF Active, r, z

LEMMA NewParser ==
    ASSUME NEW fn \in ParserFns, NEW t \in Types, NEW a \in Addresses, NEW st \in ParserStates
    PROVE  /\ Parser(fn, t, a, st) \in ParserType
           /\ Parser(fn, t, a, st).fn = fn /\ Parser(fn, t, a, st).type = t
           /\ Parser(fn, t, a, st).at = a /\ Parser(fn, t, a, st).st = st
           /\ Parser(fn, t, a, st).ptr = None /\ Parser(fn, t, a, st).buf = Null
           /\ Parser(fn, t, a, st).len = 0 /\ Parser(fn, t, a, st).cap = 0
           /\ Parser(fn, t, a, st).seen = {}
BY DEF Parser, ParserType, Addresses, Null

\* A parser calls another for the part that it leaves to it, where nothing is yet.
LEMMA Calls ==
    ASSUME NEW m, NEW u, NEW d, NEW c, NEW f, Active(m, u, d, c, f), c # <<>>,
           Waiting(c[1]), NEW t \in Types, NEW a \in Addresses,
           a = SlotAt(m, c[1]), Width(t) = SlotWidth(c[1]),
           \A i \in a[2] .. a[2] + Width(t) - 1 : Get(m, Address(a[1], i)) = Cleared,
           NEW r \in Seq(ParserType), Len(r) = Len(c) + 1,
           r[1] = Parser("value", t, a, "start"), \A k \in 1 .. Len(c) : r[k + 1] = c[k]
    PROVE  Active(m, u, d, r, f)
<1> DEFINE n == Len(c) + Len(f)
           s == Chain(m, c, f)
           z == Chain(m, r, f)
           p == Parser("value", t, a, "start")
<1>1. c \in Seq(ParserType) /\ f \in Seq(ParserType) /\ Good(m, s)
      /\ IsMemory(m) /\ Len(c) \in Nat \ {0} /\ Len(f) \in Nat /\ c[1] \in ParserType
      /\ Fit(m, c[1]) /\ s[1] = c[1]
  BY OuterFacts DEF Active
<1>2. /\ DOMAIN s = 1 .. n /\ n \in Nat
      /\ \A k \in 1 .. Len(c) : s[k] = c[k]
      /\ \A j \in 1 .. Len(f) : s[Len(c) + j] = RestoredIn(m, f[j])
  <2>1. IsChain(s, m, c, f) BY <1>1, ChainFacts
  <2> HIDE DEF s
  <2> QED BY <2>1 DEF IsChain
<1>3. /\ DOMAIN z = 1 .. n + 1
      /\ \A k \in 1 .. Len(r) : z[k] = r[k]
      /\ \A j \in 1 .. Len(f) : z[Len(r) + j] = RestoredIn(m, f[j])
  <2>1. IsChain(z, m, r, f) BY <1>1, ChainFacts
  <2> HIDE DEF z
  <2>2. Len(r) + Len(f) = n + 1 BY <1>1
  <2> HIDE DEF n
  <2> QED BY <2>1, <2>2 DEF IsChain
<1> HIDE DEF s, z, n
<1>4. \A k \in 1 .. n : z[k + 1] = s[k]
  <2> SUFFICES ASSUME NEW k \in 1 .. n PROVE z[k + 1] = s[k] OBVIOUS
  <2>1. CASE k <= Len(c)
    <3>1. k \in 1 .. Len(c) /\ k + 1 \in 1 .. Len(r) BY <2>1, <1>1
    <3> QED BY <3>1, <1>2, <1>3
  <2>2. CASE ~(k <= Len(c))
    <3> DEFINE j == k - Len(c)
    <3>1. j \in 1 .. Len(f) /\ Len(r) + j = k + 1 /\ Len(c) + j = k
      BY <2>2, <1>1, <1>2 DEF n
    <3> HIDE DEF j
    <3>2. z[Len(r) + j] = s[Len(c) + j] BY <3>1, <1>2, <1>3
    <3> QED BY <3>1, <3>2
  <2> QED BY <2>1, <2>2
<1>5. /\ p \in ParserType /\ p.fn = "value" /\ p.type = t /\ p.at = a /\ p.st = "start"
      /\ p.ptr = None /\ p.buf = Null
  <2>1. "value" \in ParserFns /\ "start" \in ParserStates BY DEF ParserFns, ParserStates
  <2> QED BY <2>1, NewParser
<1>6. z[1] = p BY <1>1, <1>3
<1> HIDE DEF p
<1>7. /\ a[1] \in Nat /\ a[2] \in Nat /\ Width(t) \in Nat \ {0} /\ Base(p) = Width(t)
  BY <1>5, AddressIs, TypeFacts DEF Base
<1>8. \/ c[1].fn = "array" /\ c[1].st = "element"
      \/ c[1].fn = "struct" /\ c[1].st = "after"
  <2>1. c[1].st \in StatesOf(c[1].fn) /\ c[1].fn \in ParserFns
    BY <1>1, ParserFacts DEF Fit, FitBase
  <2> QED BY <2>1 DEF Waiting, StatesOf, ParserFns
<1>9. ASSUME NEW x \in Addresses, InSpan(a, Width(t), x)
      PROVE  InSlot(m, c[1], x) /\ Owns(m, c[1], x) /\ x[1] >= c[1].at[1]
  <2>1. InSpan(SlotAt(m, c[1]), SlotWidth(c[1]), x) BY <1>9
  <2> QED BY <2>1, <1>1, <1>8, SlotOwned DEF InSlot
<1>10. ASSUME NEW i \in a[2] .. a[2] + Width(t) - 1 PROVE ValidIn(m, Address(a[1], i))
  <2> DEFINE x == Address(a[1], i)
  <2>1. i \in Nat BY <1>7
  <2>2. x \in Addresses /\ x[1] = a[1] /\ x[2] = i BY <2>1, <1>7, AddressFacts
  <2> HIDE DEF x
  <2>3. InSpan(a, Width(t), x) BY <2>2, <1>7 DEF InSpan
  <2>4. ValidIn(m, x) BY <2>2, <2>3, <1>9 DEF Owns
  <2> QED BY <2>4 DEF x
<1>11. Fit(m, p)
  <2>1. FitBase(m, p)
    <3>1. p.st \in StatesOf(p.fn) BY <1>5 DEF StatesOf
    <3> QED BY <3>1, <1>5, <1>7, <1>10 DEF FitBase
  <2>2. FitString(m, p) /\ FitBlock(m, p) /\ FitArray(m, p) /\ FitPtr(m, p) /\ FitMembers(m, p)
    BY <1>5 DEF FitString, FitBlock, FitArray, FitPtr, FitMembers
  <2> QED BY <2>1, <2>2 DEF Fit
<1>12. Home(p) >= c[1].at[1]
  <2>1. InSpan(a, Width(t), a) BY <1>7 DEF InSpan
  <2> QED BY <2>1, <1>5, <1>9 DEF Home
<1>13. \A x \in Addresses : Owns(m, p, x) => InSlot(m, c[1], x)
  <2> SUFFICES ASSUME NEW x \in Addresses, Owns(m, p, x) PROVE InSlot(m, c[1], x)
    OBVIOUS
  <2>1. x # None BY AddressIs
  <2>2. ~HasBlock(m, p) BY <1>5 DEF HasBlock
  <2>3. InBase(p, x) BY <2>1, <2>2, <1>5 DEF Owns
  <2>4. InSpan(a, Width(t), x) BY <2>3, <1>5, <1>7 DEF InBase, InSpan
  <2> QED BY <2>4, <1>9
<1>14. n > 0 BY <1>1 DEF n
<1>15. Good(m, z)
  <2>1. /\ Waiting(s[1]) /\ Home(p) >= s[1].at[1]
        /\ \A x \in Addresses : Owns(m, p, x) => InSlot(m, s[1], x)
    BY <1>1, <1>12, <1>13
  <2>2. IsMemory(m) /\ n \in Nat /\ DOMAIN s = 1 .. n /\ Good(m, s) /\ DOMAIN z = 1 .. n + 1
    BY <1>1, <1>2, <1>3
  <2> QED BY <2>1, <2>2, <1>4, <1>6, <1>11, <1>14, Pushed
<1>16. /\ \A k \in 2 .. Len(c) : c[k].buf = Null
       /\ \A k \in 1 .. Len(f) : f[k].buf = Null
       /\ c[1].buf = Null /\ Held(c, f) = {c[1].buf} \ {Null}
  BY <1>1, OuterFacts, WaitingFacts
<1>17. \A k \in 1 .. Len(r) : r[k].buf = Null
  <2> SUFFICES ASSUME NEW k \in 1 .. Len(r) PROVE r[k].buf = Null OBVIOUS
  <2>1. CASE k = 1 BY <2>1, <1>5 DEF p
  <2>2. CASE k # 1
    <3> DEFINE j == k - 1
    <3>1. j \in 1 .. Len(c) /\ j + 1 = k BY <2>2, <1>1
    <3>2. j = 1 \/ j \in 2 .. Len(c) BY <3>1, <1>1
    <3> HIDE DEF j
    <3>3. r[k] = c[j] BY <3>1
    <3> QED BY <3>2, <3>3, <1>16
  <2> QED BY <2>1, <2>2
<1>18. OneHolder(r, f) /\ Held(r, f) = {}
  BY <1>1, <1>16, <1>17, NoneHeld
<1>19. Held(c, f) = {} BY <1>16
<1> QED BY <1>1, <1>15, <1>18, <1>19 DEF Active, z

\* What the parsers together are does not depend on which of them are frames.
LEMMA SameChain ==
    ASSUME NEW m, NEW s, NEW n \in Nat, DOMAIN s = 1 .. n, Good(m, s),
           NEW r, DOMAIN r = 1 .. n, \A k \in 1 .. n : r[k] = s[k]
    PROVE  Good(m, r)
BY DEF Good

\* eu_stack_run goes on with the innermost frame, ...
LEMMA Resumes ==
    ASSUME NEW m, NEW u, NEW d, NEW f, Active(m, u, d, <<>>, f), f # <<>>
    PROVE  Active(m, u, d, <<RestoredIn(m, f[1])>>, Tail(f))
<1> DEFINE x == RestoredIn(m, f[1])
           c == <<x>>
           g == Tail(f)
           n == Len(f)
           s == Chain(m, <<>>, f)
           z == Chain(m, c, g)
<1>1. f \in Seq(ParserType) /\ <<>> \in Seq(ParserType) /\ Good(m, s)
      /\ OneHolder(<<>>, f) /\ Heap(m, u, Held(<<>>, f), d) /\ d \in BOOLEAN
  BY DEF Active
<1>2. /\ n \in Nat \ {0} /\ f[1] \in ParserType /\ DOMAIN f = 1 .. n
  BY <1>1
<1>3. g \in Seq(ParserType) /\ Len(g) = n - 1 /\ \A k \in 1 .. n - 1 : g[k] = f[k + 1]
  BY <1>1, <1>2
<1>4. /\ DOMAIN s = 1 .. n
      /\ \A j \in 1 .. n : s[j] = RestoredIn(m, f[j])
  <2>1. IsChain(s, m, <<>>, f) BY <1>1, ChainFacts
  <2> HIDE DEF s
  <2>2. Len(<<>>) = 0 OBVIOUS
  <2>3. \A j \in 1 .. n : 0 + j = j OBVIOUS
  <2>4. 0 + n = n BY <1>2
  <2> QED BY <2>1, <2>2, <2>3, <2>4 DEF IsChain
<1>5. x \in ParserType /\ x.buf = f[1].buf
  <2>1. 1 \in DOMAIN s /\ s[1] = x BY <1>2, <1>4
  <2>2. Fit(m, x) BY <2>1, <1>1 DEF Good
  <2> QED BY <2>2, <1>2, RestoredFacts DEF Fit, FitBase
<1> HIDE DEF x, g
<1>6. c \in Seq(ParserType) /\ Len(c) = 1 /\ c[1] = x /\ DOMAIN c = 1 .. 1
  BY <1>5
<1> HIDE DEF c
<1>7. /\ DOMAIN z = 1 .. n /\ z[1] = x
      /\ \A j \in 1 .. n - 1 : z[1 + j] = RestoredIn(m, g[j])
  <2>1. IsChain(z, m, c, g) BY <1>3, <1>6, ChainFacts
  <2> HIDE DEF z
  <2>2. Len(c) + Len(g) = n /\ 1 \in 1 .. Len(c) BY <1>2, <1>3, <1>6
  <2> HIDE DEF n
  <2> QED BY <2>1, <2>2, <1>3, <1>6 DEF IsChain
<1>8. ASSUME NEW k \in 1 .. n PROVE z[k] = s[k]
  <2>1. CASE k = 1 BY <2>1, <1>2, <1>4, <1>7 DEF x
  <2>2. CASE k # 1
    <3> DEFINE j == k - 1
    <3>1. j \in 1 .. n - 1 /\ 1 + j = k /\ j + 1 = k BY <2>2, <1>2
    <3> HIDE DEF j
    <3>2. z[1 + j] = RestoredIn(m, g[j]) /\ g[j] = f[j + 1] BY <3>1, <1>3, <1>7
    <3> QED BY <3>1, <3>2, <1>4
  <2> QED BY <2>1, <2>2
<1> HIDE DEF s, z
<1>9. Good(m, z) BY <1>1, <1>2, <1>4, <1>7, <1>8, SameChain
<1>10. \A k \in 2 .. n : f[k].buf = Null BY <1>1, <1>2 DEF OneHolder
<1>11. \A k \in 1 .. Len(g) : g[k].buf = Null
  <2> SUFFICES ASSUME NEW k \in 1 .. Len(g) PROVE g[k].buf = Null OBVIOUS
  <2>1. k + 1 \in 2 .. n /\ k \in 1 .. n - 1 BY <1>2, <1>3
  <2> QED BY <2>1, <1>3, <1>10
<1>12. OneHolder(c, g) /\ Held(c, g) = {x.buf} \ {Null}
  <2>1. \A k \in 2 .. Len(c) : c[k].buf = Null BY <1>6
  <2>2. c # <<>> BY <1>6
  <2> HIDE DEF n
  <2> QED BY <2>1, <2>2, <1>3, <1>6, <1>11, OneHeld
<1>13. Held(<<>>, f) = {x.buf} \ {Null}
  <2>1. \A k \in DOMAIN f : k = 1 \/ f[k].buf = Null BY <1>2, <1>10
  <2>2. 1 \in DOMAIN f /\ DOMAIN <<>> = {} BY <1>2
  <2> QED BY <2>1, <2>2, <1>5 DEF Held
<1> QED BY <1>1, <1>3, <1>6, <1>9, <1>12, <1>13 DEF Active, z, c, g, x

\* ... and the innermost parser is a frame again.
LEMMA Suspends ==
    ASSUME NEW m, NEW u, NEW d, NEW x, NEW g, Active(m, u, d, <<x>>, g),
           x.fn # "array"
    PROVE  Active(m, u, d, <<>>, <<x>> \o g)
<1> DEFINE f == <<x>> \o g
           c == <<x>>
           n == Len(f)
           s == Chain(m, <<>>, f)
           z == Chain(m, c, g)
<1>1. c \in Seq(ParserType) /\ g \in Seq(ParserType) /\ <<>> \in Seq(ParserType)
      /\ Good(m, z) /\ OneHolder(c, g) /\ Heap(m, u, Held(c, g), d) /\ d \in BOOLEAN
  BY DEF Active
<1>2. Len(c) = 1 /\ c[1] = x /\ x \in ParserType /\ c # <<>> BY <1>1
<1>3. /\ f \in Seq(ParserType) /\ Len(f) = Len(g) + 1 /\ f[1] = x /\ Len(g) \in Nat
      /\ \A k \in 1 .. Len(g) : f[k + 1] = g[k]
  BY <1>1, <1>2
<1> HIDE DEF f, c
<1>4. /\ DOMAIN s = 1 .. n
      /\ \A j \in 1 .. n : s[j] = RestoredIn(m, f[j])
  <2>1. IsChain(s, m, <<>>, f) BY <1>1, <1>3, ChainFacts
  <2> HIDE DEF s
  <2>2. Len(<<>>) = 0 OBVIOUS
  <2>3. \A j \in 1 .. n : 0 + j = j OBVIOUS
  <2>4. 0 + n = n BY <1>3
  <2> QED BY <2>1, <2>2, <2>3, <2>4 DEF IsChain
<1>5. /\ DOMAIN z = 1 .. n /\ z[1] = x
      /\ \A j \in 1 .. n - 1 : z[1 + j] = RestoredIn(m, g[j])
  <2>1. IsChain(z, m, c, g) BY <1>1, ChainFacts
  <2> HIDE DEF z
  <2>2. Len(c) + Len(g) = n /\ 1 \in 1 .. Len(c) /\ Len(g) = n - 1 BY <1>2, <1>3
  <2> HIDE DEF n
  <2> QED BY <2>1, <2>2, <1>2 DEF IsChain
<1>6. ASSUME NEW k \in 1 .. n PROVE s[k] = z[k]
  <2>1. CASE k = 1
    <3>1. RestoredIn(m, x) = x BY <1>2, RestoredFacts
    <3> QED BY <2>1, <3>1, <1>3, <1>4, <1>5
  <2>2. CASE k # 1
    <3> DEFINE j == k - 1
    <3>1. j \in 1 .. n - 1 /\ 1 + j = k /\ j + 1 = k /\ j \in 1 .. Len(g) BY <2>2, <1>3
    <3> HIDE DEF j
    <3>2. z[1 + j] = RestoredIn(m, g[j]) /\ f[j + 1] = g[j] BY <3>1, <1>3, <1>5
    <3> QED BY <3>1, <3>2, <1>4
  <2> QED BY <2>1, <2>2
<1> HIDE DEF s, z
<1>7. n \in Nat BY <1>3
<1>8. Good(m, s) BY <1>1, <1>4, <1>5, <1>6, <1>7, SameChain
<1>9. /\ \A k \in 1 .. Len(g) : g[k].buf = Null
      /\ Held(c, g) = {x.buf} \ {Null}
  <2>1. Active(m, u, d, c, g) BY DEF c
  <2> QED BY <2>1, <1>2, OuterFacts
<1>10. \A k \in DOMAIN f : k = 1 \/ f[k].buf = Null
  <2> SUFFICES ASSUME NEW k \in DOMAIN f, k # 1 PROVE f[k].buf = Null OBVIOUS
  <2> DEFINE j == k - 1
  <2>1. j \in 1 .. Len(g) /\ j + 1 = k BY <1>3
  <2> HIDE DEF j
  <2>2. f[k] = g[j] BY <2>1, <1>3
  <2> QED BY <2>1, <2>2, <1>9
<1>11. OneHolder(<<>>, f) BY <1>10 DEF OneHolder
<1>12. Held(<<>>, f) = {x.buf} \ {Null}
  <2>1. 1 \in DOMAIN f /\ DOMAIN <<>> = {} BY <1>3
  <2> QED BY <2>1, <1>3, <1>10 DEF Held
<1> QED BY <1>1, <1>3, <1>8, <1>9, <1>11, <1>12 DEF Active, s, f

\* An error ends the parse; who holds what does not change with that.
LEMMA Breaks ==
    ASSUME NEW m, NEW u, NEW d, NEW c, NEW f, Active(m, u, d, c, f)
    PROVE  Broken(m, u, d, c, f)
<1> DEFINE n == Len(c) + Len(f)
           s == Chain(m, c, f)
<1>1. c \in Seq(ParserType) /\ f \in Seq(ParserType) /\ Good(m, s)
      /\ OneHolder(c, f) /\ Heap(m, u, Held(c, f), d) /\ d \in BOOLEAN
  BY DEF Active
<1>2. /\ DOMAIN s = 1 .. n /\ n \in Nat /\ Len(c) \in Nat /\ Len(f) \in Nat
      /\ \A k \in 1 .. Len(c) : s[k] = c[k]
      /\ \A j \in 1 .. Len(f) : s[Len(c) + j] = RestoredIn(m, f[j])
  <2>1. IsChain(s, m, c, f) BY <1>1, ChainFacts
  <2> HIDE DEF s
  <2> QED BY <2>1 DEF IsChain
<1> HIDE DEF s
<1>3. DOMAIN c = 1 .. Len(c) /\ DOMAIN f = 1 .. Len(f) BY <1>1
<1>4. ASSUME NEW k \in DOMAIN c PROVE Fit(m, c[k]) /\ s[k] = c[k] /\ k \in 1 .. n
  <2>1. k \in 1 .. Len(c) /\ k \in 1 .. n BY <1>2, <1>3
  <2> QED BY <2>1, <1>1, <1>2 DEF Good
<1>5. ASSUME NEW k \in DOMAIN c PROVE Upright(m, c[k])
  <2>1. Fit(m, c[k]) BY <1>4
  <2>2. ValidIn(m, c[k].at) BY <2>1, BaseFacts DEF Fit
  <2> QED BY <2>1, <2>2 DEF Fit, FitString, FitPtr, Upright
<1>6. ASSUME NEW j \in DOMAIN c, NEW i \in 1 .. j - 1 PROVE c[j].at[1] <= Home(c[i])
  <2>1. i \in DOMAIN c BY <1>2, <1>3
  <2>2. Apart(m, s[i], s[j]) BY <2>1, <1>1, <1>2, <1>4 DEF Good
  <2> QED BY <2>1, <2>2, <1>4 DEF Apart
<1>7. ASSUME NEW j \in DOMAIN f
      PROVE  /\ ValidIn(m, f[j].at)
             /\ \A i \in DOMAIN c : f[j].at[1] <= Home(c[i])
  <2> DEFINE k == Len(c) + j
  <2>1. j \in 1 .. Len(f) BY <1>3
  <2>2. k \in 1 .. n /\ s[k] = RestoredIn(m, f[j]) BY <2>1, <1>2
  <2>3. f[j] \in ParserType BY <1>1
  <2>4. s[k].at = f[j].at BY <2>2, <2>3, RestoredFacts
  <2>5. Fit(m, s[k]) BY <2>2, <1>1, <1>2 DEF Good
  <2>6. ValidIn(m, s[k].at) BY <2>5, BaseFacts DEF Fit
  <2>7. ASSUME NEW i \in DOMAIN c PROVE f[j].at[1] <= Home(c[i])
    <3>1. i \in 1 .. k - 1 BY <2>1, <1>2, <1>3
    <3>2. Apart(m, s[i], s[k]) BY <2>2, <3>1, <1>1, <1>2 DEF Good
    <3>3. s[i] = c[i] BY <1>4
    <3> QED BY <3>2, <3>3, <2>4 DEF Apart
  <2> QED BY <2>4, <2>6, <2>7
<1>8. Unwound(m, c, f) BY <1>5, <1>6, <1>7 DEF Unwound
<1> QED BY <1>1, <1>8 DEF Broken

\* The same pointers are in the heap.
LEMMA HeapSame ==
    ASSUME NEW m, NEW u, NEW B, NEW d, Heap(m, u, B, d), NEW w, IsMemory(w),
           DOMAIN w = DOMAIN m,
           \A b \in DOMAIN m : /\ DOMAIN w[b] = DOMAIN m[b]
                               /\ \A i \in DOMAIN m[b] : w[b][i].p = m[b][i].p
    PROVE  Heap(w, u, B, d)
<1>1. Points(w, u, B) BY DEF Heap, Points
<1>2. Unshared(w) BY DEF Heap, Unshared
<1>3. Owned(w, B, d) BY DEF Heap, Owned
<1> QED BY <1>1, <1>2, <1>3 DEF Heap

\* The arrays of c, whose cells get the length and capacity at a pause.
ArrayAt(c, a) == \E k \in DOMAIN c : c[k].fn = "array" /\ c[k].at = a
IsParked(w, m, c) ==
    /\ IsMemory(w) /\ DOMAIN w = DOMAIN m
    /\ \A b \in DOMAIN m :
          /\ DOMAIN w[b] = DOMAIN m[b] /\ Len(w[b]) = Len(m[b])
          /\ \A i \in DOMAIN m[b] :
                /\ w[b][i].p = m[b][i].p
                /\ ~ArrayAt(c, Address(b, i)) => w[b][i] = m[b][i]
                /\ \A k \in DOMAIN c :
                      /\ c[k].fn = "array" /\ c[k].at = Address(b, i)
                      /\ \A j \in DOMAIN c : c[j].fn = "array" /\ c[j].at = c[k].at => j = k
                      => w[b][i].len = c[k].len /\ w[b][i].cap = c[k].cap

LEMMA ParkedFacts ==
    ASSUME NEW m, IsMemory(m), NEW c \in Seq(ParserType)
    PROVE  IsParked(ParkedIn(m, c), m, c)
<1> DEFINE w == ParkedIn(m, c)
           cell(b, i) == IF ArrayAt(c, Address(b, i))
                         THEN LET k == CHOOSE k \in DOMAIN c :
                                  c[k].fn = "array" /\ c[k].at = Address(b, i)
                              IN  [m[b][i] EXCEPT !.len = c[k].len, !.cap = c[k].cap]
                         ELSE m[b][i]
<1>1. w = [b \in DOMAIN m |-> [i \in DOMAIN m[b] |-> cell(b, i)]]
  BY DEF ParkedIn, ArrayAt
<1>2. ASSUME NEW b \in DOMAIN m, NEW i \in DOMAIN m[b]
      PROVE  /\ cell(b, i) \in Cells /\ cell(b, i).p = m[b][i].p
             /\ ~ArrayAt(c, Address(b, i)) => cell(b, i) = m[b][i]
             /\ \A k \in DOMAIN c :
                   /\ c[k].fn = "array" /\ c[k].at = Address(b, i)
                   /\ \A j \in DOMAIN c : c[j].fn = "array" /\ c[j].at = c[k].at => j = k
                   => cell(b, i).len = c[k].len /\ cell(b, i).cap = c[k].cap
  <2>1. m[b][i] \in Cells BY MemoryFacts
  <2>2. CASE ~ArrayAt(c, Address(b, i)) BY <2>1, <2>2 DEF ArrayAt
  <2>3. CASE ArrayAt(c, Address(b, i))
    <3> DEFINE k == CHOOSE k \in DOMAIN c : c[k].fn = "array" /\ c[k].at = Address(b, i)
    <3>1. k \in DOMAIN c /\ c[k].fn = "array" /\ c[k].at = Address(b, i)
      BY <2>3 DEF ArrayAt
    <3>2. cell(b, i) = [m[b][i] EXCEPT !.len = c[k].len, !.cap = c[k].cap]
      BY <2>3
    <3> HIDE DEF k, cell
    <3>3. c[k].len \in Nat /\ c[k].cap \in Nat
      <4>1. c[k] \in ParserType BY <3>1
      <4> QED BY <4>1, ParserFacts
    <3>4. /\ cell(b, i) \in Cells /\ cell(b, i).p = m[b][i].p
          /\ cell(b, i).len = c[k].len /\ cell(b, i).cap = c[k].cap
      BY <2>1, <3>2, <3>3 DEF Cells
    <3>5. ASSUME NEW q \in DOMAIN c, c[q].fn = "array", c[q].at = Address(b, i),
                 \A j \in DOMAIN c : c[j].fn = "array" /\ c[j].at = c[q].at => j = q
          PROVE  q = k
      BY <3>1, <3>5
    <3> QED BY <2>3, <3>4, <3>5
  <2> QED BY <2>2, <2>3
<1> HIDE DEF w, cell
<1>3. /\ DOMAIN w = DOMAIN m
      /\ \A b \in DOMAIN m : w[b] = [i \in DOMAIN m[b] |-> cell(b, i)]
  BY <1>1
<1>4. ASSUME NEW b \in DOMAIN m
      PROVE  /\ DOMAIN w[b] = DOMAIN m[b] /\ w[b] \in Seq(Cells) /\ Len(w[b]) = Len(m[b])
             /\ \A i \in DOMAIN m[b] : w[b][i] = cell(b, i)
  <2>1. DOMAIN m[b] = 1 .. Len(m[b]) /\ Len(m[b]) \in Nat BY MemoryFacts
  <2> QED BY <2>1, <1>2, <1>3
<1>5. IsMemory(w)
  BY <1>1, <1>3, <1>4 DEF IsMemory
<1> QED BY <1>2, <1>3, <1>4, <1>5 DEF IsParked, w

\* An array parser and the cell of the array: no other parser has that cell.
LEMMA ArrayCells ==
    ASSUME NEW m, NEW s, IsMemory(m), Good(m, s), NEW n \in Nat, DOMAIN s = 1 .. n,
           NEW k \in 1 .. n, NEW j \in 1 .. n, s[k].fn = "array",
           Owns(m, s[j], s[k].at), ~InSlot(m, s[j], s[k].at)
    PROVE  j = k
<1> DEFINE a == s[k].at
<1>1. Fit(m, s[k]) BY DEF Good
<1>2. a \in Addresses /\ Owns(m, s[k], a) /\ a = Anchor(s[k])
  BY <1>1, BaseFacts, ParserFacts DEF Fit, Anchor
<1>3. CASE k < j
  <2>1. Apart(m, s[k], s[j]) BY <1>3 DEF Good
  <2> QED BY <2>1, <1>2 DEF Apart
<1>4. CASE j < k
  <2>1. Apart(m, s[j], s[k]) BY <1>4 DEF Good
  <2>2. InSlot(m, s[k], a) BY <2>1, <1>2 DEF Apart
  <2>3. ~InSlot(m, s[k], a) BY <1>1, <1>2, OutsideSlot
  <2> QED BY <2>2, <2>3
<1> QED BY <1>3, <1>4

\* At a pause the parsers leave the C stack, and each still governs what it did.
SavedAll(c) == [i \in DOMAIN c |-> Saved(c[i])]

LEMMA SavedFacts ==
    ASSUME NEW act \in ParserType
    PROVE  /\ Saved(act) \in ParserType /\ Saved(act).fn = act.fn
           /\ Saved(act).at = act.at /\ Saved(act).buf = act.buf
           /\ act.fn # "array" => Saved(act) = act
           /\ \A m : /\ act.fn = "array" => /\ Get(m, act.at).len = act.len
                                           /\ Get(m, act.at).cap = act.cap
                     => RestoredIn(m, Saved(act)) = act
<1>1. /\ Saved(act) \in ParserType /\ Saved(act).fn = act.fn
      /\ Saved(act).at = act.at /\ Saved(act).buf = act.buf
      /\ act.fn # "array" => Saved(act) = act
  BY DEF Saved, ParserType
<1>2. ASSUME NEW len, NEW cap, len = act.len, cap = act.cap
      PROVE  [[act EXCEPT !.len = 0, !.cap = 0] EXCEPT !.len = len, !.cap = cap] = act
  BY <1>2 DEF ParserType
<1>3. ASSUME NEW m, act.fn = "array" => /\ Get(m, act.at).len = act.len
                                        /\ Get(m, act.at).cap = act.cap
      PROVE  RestoredIn(m, Saved(act)) = act
  <2>1. CASE act.fn # "array" BY <2>1, <1>1, RestoredFacts
  <2>2. CASE act.fn = "array"
    <3> DEFINE len == Get(m, act.at).len
               cap == Get(m, act.at).cap
    <3>1. len = act.len /\ cap = act.cap BY <2>2, <1>3
    <3>2. RestoredIn(m, Saved(act))
          = [[act EXCEPT !.len = 0, !.cap = 0] EXCEPT !.len = len, !.cap = cap]
      <4>1. Saved(act) = [act EXCEPT !.len = 0, !.cap = 0] BY <2>2 DEF Saved
      <4>2. Saved(act).fn = "array" /\ Saved(act).at = act.at BY <2>2, <1>1
      <4> QED BY <4>1, <4>2 DEF RestoredIn
    <3> HIDE DEF len, cap
    <3> QED BY <3>1, <3>2, <1>2
  <2> QED BY <2>1, <2>2
<1> QED BY <1>1, <1>3

LEMMA Parks ==
    ASSUME NEW m, NEW u, NEW d, NEW c, NEW f, Active(m, u, d, c, f), c # <<>>
    PROVE  Active(ParkedIn(m, c), u, d, <<>>, SavedAll(c) \o f)
<1> DEFINE w == ParkedIn(m, c)
           g == SavedAll(c) \o f
           n == Len(c) + Len(f)
           s == Chain(m, c, f)
           z == Chain(w, <<>>, g)
<1>1. c \in Seq(ParserType) /\ f \in Seq(ParserType) /\ Good(m, s) /\ IsMemory(m)
      /\ OneHolder(c, f) /\ Heap(m, u, Held(c, f), d) /\ d \in BOOLEAN
  BY OuterFacts DEF Active
<1>2. /\ DOMAIN s = 1 .. n /\ n \in Nat /\ Len(c) \in Nat /\ Len(f) \in Nat
      /\ \A k \in 1 .. Len(c) : s[k] = c[k]
      /\ \A j \in 1 .. Len(f) : s[Len(c) + j] = RestoredIn(m, f[j])
  <2>1. IsChain(s, m, c, f) BY <1>1, ChainFacts
  <2> HIDE DEF s
  <2> QED BY <2>1 DEF IsChain
<1>3. /\ g \in Seq(ParserType) /\ Len(g) = n
      /\ \A k \in 1 .. Len(c) : g[k] = Saved(c[k])
      /\ \A j \in 1 .. Len(f) : g[Len(c) + j] = f[j]
  <2> DEFINE v == SavedAll(c)
  <2>1. DOMAIN c = 1 .. Len(c) /\ \A k \in DOMAIN c : c[k] \in ParserType BY <1>1
  <2>2. v \in Seq(ParserType) /\ Len(v) = Len(c) /\ \A k \in 1 .. Len(c) : v[k] = Saved(c[k])
    <3>1. \A k \in 1 .. Len(c) : Saved(c[k]) \in ParserType BY <2>1, SavedFacts
    <3>2. v = [k \in 1 .. Len(c) |-> Saved(c[k])] BY <2>1 DEF SavedAll
    <3> QED BY <3>1, <3>2, <1>2
  <2> HIDE DEF v
  <2>3. v \o f \in Seq(ParserType) /\ Len(v \o f) = Len(v) + Len(f) BY <2>2, <1>1, SMTT(60)
  <2>4. \A k \in 1 .. Len(c) : (v \o f)[k] = v[k] BY <2>2, <1>1
  <2>5. \A j \in 1 .. Len(f) : (v \o f)[Len(c) + j] = f[j] BY <2>2, <1>1, <1>2
  <2> QED BY <2>2, <2>3, <2>4, <2>5 DEF v
<1>4. IsParked(w, m, c) BY <1>1, ParkedFacts
<1> HIDE DEF w, g, s, n
<1>5. DOMAIN c = 1 .. Len(c) /\ DOMAIN f = 1 .. Len(f) BY <1>1
<1>6. ASSUME NEW k \in 1 .. n PROVE Fit(m, s[k]) /\ s[k] \in ParserType
  <2>1. Fit(m, s[k]) BY <1>1, <1>2 DEF Good
  <2> QED BY <2>1 DEF Fit, FitBase
\* The cell of one array.
<1>7. ASSUME NEW k \in 1 .. n, NEW a \in Addresses, Owns(m, s[k], a), ~InSlot(m, s[k], a),
             ArrayAt(c, a)
      PROVE  s[k].fn = "array" /\ a = s[k].at /\ k \in DOMAIN c
  <2>1. PICK j \in DOMAIN c : c[j].fn = "array" /\ c[j].at = a BY <1>7 DEF ArrayAt
  <2>2. j \in 1 .. n /\ s[j] = c[j] BY <1>2, <1>5 DEF n
  <2>3. k = j BY <2>1, <2>2, <1>1, <1>2, <1>7, ArrayCells
  <2> QED BY <2>1, <2>2, <2>3
<1>8. ASSUME NEW k \in 1 .. n PROVE Keeps(m, w, s[k])
  <2>1. ASSUME NEW a \in Addresses, Owns(m, s[k], a)
        PROVE  /\ ValidIn(w, a)
               /\ ~InSlot(m, s[k], a) =>
                     \/ Get(w, a) = Get(m, a)
                     \/ s[k].fn = "array" /\ a = s[k].at /\ Get(w, a).p = Get(m, a).p
    <3>1. a[1] \in DOMAIN m /\ a[2] \in DOMAIN m[a[1]] /\ a = Address(a[1], a[2])
      BY <2>1, AddressIs DEF Owns, ValidIn
    <3>2. /\ ValidIn(w, a) /\ Get(w, a).p = Get(m, a).p
          /\ ~ArrayAt(c, a) => Get(w, a) = Get(m, a)
      BY <3>1, <1>4 DEF IsParked, ValidIn, Get
    <3> QED BY <2>1, <3>2, <1>7
  <2>2. HasBlock(m, s[k]) => /\ Block(m, s[k]) \in DOMAIN w
                             /\ Len(w[Block(m, s[k])]) = Len(m[Block(m, s[k])])
    <3>1. HasBlock(m, s[k]) => s[k].fn \in {"array", "struct"} BY DEF HasBlock
    <3>2. HasBlock(m, s[k]) => Block(m, s[k]) \in DOMAIN m
      BY <3>1, <1>1, <1>6, BlockFacts
    <3> QED BY <3>2, <1>4 DEF IsParked
  <2>3. s[k].buf # Null => s[k].buf \in DOMAIN w /\ w[s[k].buf] = m[s[k].buf]
    <3> SUFFICES ASSUME s[k].buf # Null
                 PROVE  s[k].buf \in DOMAIN w /\ w[s[k].buf] = m[s[k].buf]
      OBVIOUS
    <3> DEFINE b == s[k].buf
    <3>1. b \in DOMAIN m /\ m[b] = <<>> BY <1>6 DEF Fit, FitString
    <3>2. b \in DOMAIN w /\ Len(w[b]) = 0 /\ IsMemory(w) BY <3>1, <1>4 DEF IsParked
    <3>3. w[b] \in Seq(Cells) BY <3>2, MemoryFacts
    <3> QED BY <3>1, <3>2, <3>3
  <2> QED BY <2>1, <2>2, <2>3 DEF Keeps
<1>9. IsMemory(w) BY <1>4 DEF IsParked
<1>10. Good(w, s) BY <1>1, <1>2, <1>8, <1>9, AllKept
<1>11. ASSUME NEW k \in 1 .. n, s[k].fn = "array"
       PROVE  /\ ValidIn(m, s[k].at) /\ s[k].at = Address(s[k].at[1], s[k].at[2])
              /\ \A j \in DOMAIN c : c[j].fn = "array" /\ c[j].at = s[k].at => j = k
  <2>1. /\ ValidIn(m, s[k].at) /\ s[k].at = Address(s[k].at[1], s[k].at[2])
    BY <1>6, BaseFacts, ParserFacts, AddressIs DEF Fit
  <2>2. ASSUME NEW j \in DOMAIN c, c[j].fn = "array", c[j].at = s[k].at PROVE j = k
    <3>1. j \in 1 .. n /\ s[j] = c[j] BY <1>2, <1>5 DEF n
    <3>2. Owns(m, s[j], s[j].at) /\ s[j].at \in Addresses /\ s[j].at = Anchor(s[j])
      BY <3>1, <2>2, <1>6, BaseFacts, ParserFacts DEF Fit, Anchor
    <3>3. ~InSlot(m, s[j], s[j].at) BY <3>1, <3>2, <2>2, <1>1, <1>6, OutsideSlot
    <3> QED BY <3>1, <3>2, <3>3, <2>2, <1>1, <1>2, <1>11, ArrayCells
  <2> QED BY <2>1, <2>2
<1>12. ASSUME NEW k \in DOMAIN c PROVE RestoredIn(w, g[k]) = s[k]
  <2>1. k \in 1 .. n /\ s[k] = c[k] /\ g[k] = Saved(c[k]) BY <1>2, <1>3, <1>5 DEF n
  <2>2. c[k].fn = "array" => /\ Get(w, c[k].at).len = c[k].len
                             /\ Get(w, c[k].at).cap = c[k].cap
    BY <2>1, <1>4, <1>11 DEF IsParked, ValidIn, Get
  <2>3. c[k] \in ParserType BY <1>1
  <2> QED BY <2>1, <2>2, <2>3, SavedFacts
<1>13. ASSUME NEW j \in 1 .. Len(f) PROVE RestoredIn(w, f[j]) = s[Len(c) + j]
  <2> DEFINE k == Len(c) + j
  <2>1. k \in 1 .. n /\ s[k] = RestoredIn(m, f[j]) /\ k \notin DOMAIN c
    BY <1>2, <1>5 DEF n
  <2>2. f[j] \in ParserType BY <1>1
  <2>3. s[k].fn = f[j].fn /\ s[k].at = f[j].at BY <2>1, <2>2, RestoredFacts
  <2>4. f[j].fn = "array" => Get(w, f[j].at) = Get(m, f[j].at)
    <3> SUFFICES ASSUME f[j].fn = "array" PROVE Get(w, f[j].at) = Get(m, f[j].at)
      OBVIOUS
    <3>1. /\ ValidIn(m, s[k].at) /\ s[k].at = Address(s[k].at[1], s[k].at[2])
          /\ ~ArrayAt(c, s[k].at)
      BY <2>1, <2>3, <1>11 DEF ArrayAt
    <3>2. Get(w, s[k].at) = Get(m, s[k].at)
      BY <3>1, <1>4 DEF IsParked, ValidIn, Get
    <3> QED BY <3>2, <2>3
  <2> QED BY <2>1, <2>4 DEF RestoredIn
<1>14. ASSUME NEW k \in 1 .. n PROVE RestoredIn(w, g[k]) = s[k]
  <2>1. CASE k <= Len(c)
    <3>1. k \in DOMAIN c BY <2>1, <1>2, <1>5
    <3> QED BY <3>1, <1>12
  <2>2. CASE ~(k <= Len(c))
    <3> DEFINE j == k - Len(c)
    <3>1. j \in 1 .. Len(f) /\ Len(c) + j = k BY <2>2, <1>2 DEF n
    <3> HIDE DEF j
    <3> QED BY <3>1, <1>3, <1>13
  <2> QED BY <2>1, <2>2
<1>15. /\ DOMAIN z = 1 .. n
       /\ \A k \in 1 .. n : z[k] = RestoredIn(w, g[k])
  <2>1. <<>> \in Seq(ParserType) /\ Len(<<>>) = 0 OBVIOUS
  <2>2. IsChain(z, w, <<>>, g) BY <2>1, <1>3, ChainFacts
  <2> HIDE DEF z
  <2>3. \A j \in 1 .. n : 0 + j = j OBVIOUS
  <2>4. 0 + n = n BY <1>2
  <2> QED BY <2>1, <2>2, <2>3, <2>4, <1>3 DEF IsChain
<1> HIDE DEF z
<1>16. Good(w, z)
  <2>1. \A k \in 1 .. n : z[k] = s[k] BY <1>14, <1>15
  <2> QED BY <2>1, <1>2, <1>10, <1>15, SameChain
<1>17. /\ Held(c, f) = {c[1].buf} \ {Null} /\ Len(c) \in Nat \ {0}
       /\ \A k \in 2 .. Len(c) : c[k].buf = Null
       /\ \A k \in 1 .. Len(f) : f[k].buf = Null
  BY OuterFacts
<1>18. g[1].buf = c[1].buf /\ 1 \in DOMAIN c
  <2>1. 1 \in DOMAIN c BY <1>5, <1>17
  <2>2. c[1] \in ParserType BY <2>1, <1>1
  <2> QED BY <2>1, <2>2, <1>3, <1>5, SavedFacts
<1>19. ASSUME NEW k \in 2 .. n PROVE g[k].buf = Null
  <2>1. CASE k <= Len(c)
    <3>1. k \in DOMAIN c /\ k \in 2 .. Len(c) BY <2>1, <1>2, <1>5
    <3>2. c[k] \in ParserType BY <3>1, <1>1
    <3> QED BY <3>1, <3>2, <1>3, <1>5, <1>17, SavedFacts
  <2>2. CASE ~(k <= Len(c))
    <3> DEFINE j == k - Len(c)
    <3>1. j \in 1 .. Len(f) /\ Len(c) + j = k BY <2>2, <1>2 DEF n
    <3> HIDE DEF j
    <3> QED BY <3>1, <1>3, <1>17
  <2> QED BY <2>1, <2>2
<1>20. OneHolder(<<>>, g) /\ Held(<<>>, g) = {c[1].buf} \ {Null}
  <2>1. DOMAIN g = 1 .. n /\ 1 \in DOMAIN g BY <1>2, <1>3, <1>17 DEF n
  <2>2. \A k \in DOMAIN g : k = 1 \/ g[k].buf = Null BY <2>1, <1>19
  <2>3. DOMAIN <<>> = {} OBVIOUS
  <2>4. OneHolder(<<>>, g) BY <2>1, <2>2, <2>3 DEF OneHolder
  <2>5. Held(<<>>, g) = {c[1].buf} \ {Null}
    BY <2>1, <2>2, <2>3, <1>18 DEF Held
  <2> QED BY <2>4, <2>5
<1>21. Heap(w, u, Held(<<>>, g), d)
  <2>1. Held(<<>>, g) = Held(c, f) BY <1>17, <1>20
  <2>2. Heap(w, u, Held(c, f), d)
    BY <1>1, <1>4, <1>9, HeapSame DEF IsParked
  <2> QED BY <2>1, <2>2
<1>22. <<>> \in Seq(ParserType) OBVIOUS
<1> QED BY <1>1, <1>3, <1>16, <1>20, <1>21, <1>22 DEF Active, z, w, g

-----------------------------------------------------------------------------
(***************************************************************************)
(* Memory that is written in several steps.                                *)
(***************************************************************************)
LEMMA SameSequence ==
    ASSUME NEW T, NEW x \in Seq(T), NEW y \in Seq(T), DOMAIN x = DOMAIN y,
           \A i \in DOMAIN y : x[i] = y[i]
    PROVE  x = y
<1>1. /\ DOMAIN x = 1 .. Len(x) /\ DOMAIN y = 1 .. Len(y)
      /\ Len(x) \in Nat /\ Len(y) \in Nat
  OBVIOUS
<1>2. ASSUME NEW j \in Nat, NEW k \in Nat, 1 .. j = 1 .. k PROVE j = k
  <2>1. CASE j > k
    <3>1. j \in 1 .. j BY <2>1
    <3>2. j \in 1 .. k BY <3>1, <1>2, Zenon
    <3> QED BY <3>2, <2>1
  <2>2. CASE k > j
    <3>1. k \in 1 .. k BY <2>2
    <3>2. k \in 1 .. j BY <3>1, <1>2, Zenon
    <3> QED BY <3>2, <2>2
  <2> QED BY <2>1, <2>2
<1>3. Len(x) = Len(y)
  <2>1. 1 .. Len(x) = 1 .. Len(y) BY <1>1, Zenon
  <2>2. Len(x) \in Nat /\ Len(y) \in Nat BY <1>1
  <2> QED BY <2>1, <2>2, <1>2, Zenon
<1> QED BY <1>3

LEMMA MemoryEqual ==
    ASSUME NEW v, NEW w, IsMemory(v), IsMemory(w), DOMAIN v = DOMAIN w,
           \A b \in DOMAIN w : /\ DOMAIN v[b] = DOMAIN w[b]
                               /\ \A i \in DOMAIN w[b] : v[b][i] = w[b][i]
    PROVE  v = w
<1>1. v = [b \in DOMAIN v |-> v[b]] /\ w = [b \in DOMAIN w |-> w[b]] BY DEF IsMemory
<1>2. ASSUME NEW x \in DOMAIN w PROVE v[x] = w[x]
  <2>1. v[x] \in Seq(Cells) /\ w[x] \in Seq(Cells) BY MemoryFacts
  <2>2. DOMAIN v[x] = DOMAIN w[x] /\ \A i \in DOMAIN w[x] : v[x][i] = w[x][i]
    OBVIOUS
  <2> QED BY <2>1, <2>2, SameSequence
<1> QED BY <1>1, <1>2

LEMMA PutSame ==
    ASSUME NEW m, IsMemory(m), NEW a \in Addresses, ValidIn(m, a), NEW c, c = Get(m, a)
    PROVE  Put(m, a, c) = m
<1>1. c \in Cells BY MemoryFacts DEF Get, ValidIn
<1>2. /\ IsMemory(Put(m, a, c)) /\ DOMAIN Put(m, a, c) = DOMAIN m
      /\ \A b \in DOMAIN m : /\ DOMAIN Put(m, a, c)[b] = DOMAIN m[b]
                             /\ \A i \in DOMAIN m[b] : Put(m, a, c)[b][i] = m[b][i]
  BY <1>1, PutFacts DEF Get
<1> QED BY <1>2, MemoryEqual

LEMMA PutGet ==
    ASSUME NEW m, IsMemory(m), NEW a \in Addresses, ValidIn(m, a), NEW c \in Cells
    PROVE  /\ Get(Put(m, a, c), a) = c /\ IsMemory(Put(m, a, c))
           /\ \A x \in Addresses : /\ ValidIn(Put(m, a, c), x) <=> ValidIn(m, x)
                                   /\ ValidIn(m, x) /\ x # a
                                      => Get(Put(m, a, c), x) = Get(m, x)
<1> DEFINE w == Put(m, a, c)
<1>1. /\ IsMemory(w) /\ DOMAIN w = DOMAIN m
      /\ \A b \in DOMAIN m :
            /\ DOMAIN w[b] = DOMAIN m[b]
            /\ \A i \in DOMAIN m[b] :
                  w[b][i] = IF b = a[1] /\ i = a[2] THEN c ELSE m[b][i]
  BY PutFacts
<1> HIDE DEF w
<1>2. Get(w, a) = c BY <1>1 DEF Get, ValidIn
<1>3. ASSUME NEW x \in Addresses
      PROVE  /\ ValidIn(w, x) <=> ValidIn(m, x)
             /\ ValidIn(m, x) /\ x # a => Get(w, x) = Get(m, x)
  <2>1. x # a => x[1] # a[1] \/ x[2] # a[2] BY DEF Addresses
  <2> QED BY <2>1, <1>1 DEF Get, ValidIn
<1> QED BY <1>1, <1>2, <1>3 DEF w

LEMMA PutWith ==
    ASSUME NEW m, IsMemory(m), NEW a \in Addresses, ValidIn(m, a), NEW c \in Cells,
           NEW b, b \notin DOMAIN m, NEW cells \in Seq(Cells)
    PROVE  With(Put(m, a, c), b, cells) = Put(With(m, b, cells), a, c)
<1> DEFINE v == With(Put(m, a, c), b, cells)
           p == With(m, b, cells)
           q == Put(m, a, c)
           w == Put(p, a, c)
<1>1. /\ IsMemory(q) /\ DOMAIN q = DOMAIN m
      /\ \A x \in DOMAIN m :
            /\ DOMAIN q[x] = DOMAIN m[x]
            /\ \A i \in DOMAIN m[x] :
                  q[x][i] = IF x = a[1] /\ i = a[2] THEN c ELSE m[x][i]
  BY PutFacts
<1> HIDE DEF q
<1>2. IsWith(v, q, b, cells) BY <1>1, WithFacts DEF q
<1>3. IsWith(p, m, b, cells) BY WithFacts
<1> HIDE DEF p, v
<1>4. a[1] # b /\ ValidIn(p, a) BY <1>3 DEF IsWith, ValidIn
<1>5. IsMemory(p) BY <1>3 DEF IsWith
<1>6. /\ IsMemory(w) /\ DOMAIN w = DOMAIN p
      /\ \A x \in DOMAIN p :
            /\ DOMAIN w[x] = DOMAIN p[x]
            /\ \A i \in DOMAIN p[x] :
                  w[x][i] = IF x = a[1] /\ i = a[2] THEN c ELSE p[x][i]
  BY <1>4, <1>5, PutFacts
<1> HIDE DEF w
<1>7. DOMAIN v = DOMAIN w /\ IsMemory(v) BY <1>1, <1>2, <1>3, <1>6 DEF IsWith
<1>8. ASSUME NEW x \in DOMAIN w
      PROVE  DOMAIN v[x] = DOMAIN w[x] /\ \A i \in DOMAIN w[x] : v[x][i] = w[x][i]
  <2>1. CASE x = b
    <3>1. v[x] = cells /\ p[x] = cells /\ x # a[1] BY <2>1, <1>2, <1>3, <1>4 DEF IsWith
    <3> QED BY <3>1, <1>6, <1>8
  <2>2. CASE x # b
    <3>1. x \in DOMAIN m /\ v[x] = q[x] /\ p[x] = m[x]
      BY <2>2, <1>1, <1>2, <1>3, <1>6, <1>8 DEF IsWith
    <3> QED BY <3>1, <1>1, <1>6, <1>8
  <2> QED BY <2>1, <2>2
<1>9. v = w BY <1>6, <1>7, <1>8, MemoryEqual
<1> QED BY <1>9 DEF v, w, p, q

\* A realloc, and the pointer to the block before and after it.
LEMMA PutMoved ==
    ASSUME NEW m, IsMemory(m), NEW a \in Addresses, ValidIn(m, a), NEW c \in Cells,
           NEW e \in Cells, NEW b \in DOMAIN m, b # a[1], NEW n \in Nat, Len(m[b]) <= n,
           NEW new, new \notin DOMAIN m
    PROVE  Moved(Put(m, a, e), b, new, n) = Put(Moved(Put(m, a, c), b, new, n), a, e)
<1> DEFINE p == Put(m, a, e)
           q == Put(m, a, c)
<1>1. /\ IsMemory(p) /\ DOMAIN p = DOMAIN m
      /\ \A x \in DOMAIN m :
            /\ DOMAIN p[x] = DOMAIN m[x]
            /\ x # a[1] => p[x] = m[x]
            /\ \A i \in DOMAIN m[x] :
                  p[x][i] = IF x = a[1] /\ i = a[2] THEN e ELSE m[x][i]
  BY PutFacts
<1>2. /\ IsMemory(q) /\ DOMAIN q = DOMAIN m
      /\ \A x \in DOMAIN m :
            /\ DOMAIN q[x] = DOMAIN m[x]
            /\ x # a[1] => q[x] = m[x]
            /\ \A i \in DOMAIN m[x] :
                  q[x][i] = IF x = a[1] /\ i = a[2] THEN c ELSE m[x][i]
  BY PutFacts
<1> HIDE DEF p, q
<1>3. p[b] = m[b] /\ q[b] = m[b]
  <2>1. p[b] = m[b] BY <1>1
  <2>2. q[b] = m[b] BY <1>2
  <2> QED BY <2>1, <2>2
<1> DEFINE v == Moved(p, b, new, n)
           r == Moved(q, b, new, n)
           w == Put(r, a, e)
<1>4. IsMoved(v, p, b, new, n) BY <1>1, <1>3, MovedFacts
<1>5. IsMoved(r, q, b, new, n) BY <1>2, <1>3, MovedFacts
<1> HIDE DEF v, r
<1>6. a[1] # new /\ ValidIn(r, a) /\ IsMemory(r)
  <2>1. a[1] \in DOMAIN m /\ a[2] \in DOMAIN m[a[1]] BY DEF ValidIn
  <2>2. a[1] \in DOMAIN q \ {b} /\ DOMAIN q[a[1]] = DOMAIN m[a[1]] BY <2>1, <1>2
  <2>3. a[1] \in DOMAIN r /\ r[a[1]] = q[a[1]] /\ IsMemory(r)
    BY <2>2, <1>5 DEF IsMoved
  <2> QED BY <2>1, <2>2, <2>3 DEF ValidIn
<1>7. /\ IsMemory(w) /\ DOMAIN w = DOMAIN r
      /\ \A x \in DOMAIN r :
            /\ DOMAIN w[x] = DOMAIN r[x]
            /\ \A i \in DOMAIN r[x] :
                  w[x][i] = IF x = a[1] /\ i = a[2] THEN e ELSE r[x][i]
  BY <1>6, PutFacts
<1> HIDE DEF w
<1>8. DOMAIN v = DOMAIN w /\ IsMemory(v) BY <1>1, <1>2, <1>4, <1>5, <1>7 DEF IsMoved
<1>9. ASSUME NEW x \in DOMAIN w
      PROVE  DOMAIN v[x] = DOMAIN w[x] /\ \A i \in DOMAIN w[x] : v[x][i] = w[x][i]
  <2>1. CASE x = new
    <3>1. DOMAIN v[x] = 1 .. n /\ DOMAIN r[x] = 1 .. n /\ DOMAIN w[x] = 1 .. n
      BY <2>1, <1>4, <1>5, <1>7, <1>9 DEF IsMoved
    <3>2. ASSUME NEW i \in 1 .. n PROVE v[x][i] = r[x][i]
      <4>1. DOMAIN m[b] = 1 .. Len(m[b]) /\ Len(m[b]) \in Nat BY MemoryFacts
      <4>2. CASE i \in DOMAIN m[b]
        BY <4>2, <2>1, <1>3, <1>4, <1>5 DEF IsMoved
      <4>3. CASE i \notin DOMAIN m[b]
        <5>1. i \in Len(m[b]) + 1 .. n BY <4>1, <4>3
        <5> QED BY <5>1, <2>1, <1>3, <1>4, <1>5 DEF IsMoved
      <4> QED BY <4>2, <4>3
    <3> QED BY <3>1, <3>2, <2>1, <1>6, <1>7, <1>9
  <2>2. CASE x # new
    <3>1. x \in DOMAIN m \ {b}
      <4>1. x \in DOMAIN r BY <1>7
      <4> QED BY <4>1, <2>2, <1>2, <1>5 DEF IsMoved
    <3>2. v[x] = p[x] BY <3>1, <1>1, <1>4 DEF IsMoved
    <3>3. r[x] = q[x] BY <3>1, <1>2, <1>5 DEF IsMoved
    <3>4. x \in DOMAIN r BY <1>7
    <3>5. DOMAIN p[x] = DOMAIN m[x] /\ DOMAIN q[x] = DOMAIN m[x] /\ DOMAIN w[x] = DOMAIN r[x]
      BY <3>1, <3>4, <1>1, <1>2, <1>7
    <3>6. ASSUME NEW i \in DOMAIN w[x] PROVE v[x][i] = w[x][i]
      <4>1. i \in DOMAIN m[x] /\ i \in DOMAIN r[x] BY <3>3, <3>5
      <4>2. p[x][i] = IF x = a[1] /\ i = a[2] THEN e ELSE m[x][i] BY <3>1, <4>1, <1>1
      <4>3. q[x][i] = IF x = a[1] /\ i = a[2] THEN c ELSE m[x][i] BY <3>1, <4>1, <1>2
      <4>4. w[x][i] = IF x = a[1] /\ i = a[2] THEN e ELSE r[x][i] BY <3>4, <4>1, <1>7
      <4> QED BY <3>2, <3>3, <4>2, <4>3, <4>4
    <3> QED BY <3>2, <3>3, <3>5, <3>6
  <2> QED BY <2>1, <2>2
<1>10. v = w BY <1>7, <1>8, <1>9, MemoryEqual
<1> QED BY <1>10 DEF v, w, p, q, r

-----------------------------------------------------------------------------
(***************************************************************************)
(* Only what a parser governs is written.                                  *)
(***************************************************************************)
LEMMA OnlySame ==
    ASSUME NEW m, NEW act
    PROVE  Only(m, m, act)
BY DEF Only

LEMMA OnlyPut ==
    ASSUME NEW m, IsMemory(m), NEW w, IsMemory(w), NEW act, Only(m, w, act),
           NEW a \in Addresses, ValidIn(w, a), NEW c \in Cells,
           Owns(m, act, a) \/ a[1] \notin DOMAIN m
    PROVE  Only(m, Put(w, a, c), act)
<1> DEFINE v == Put(w, a, c)
<1>1. /\ DOMAIN v = DOMAIN w
      /\ \A x \in DOMAIN w :
            /\ Len(v[x]) = Len(w[x])
            /\ \A i \in DOMAIN w[x] :
                  v[x][i] = IF x = a[1] /\ i = a[2] THEN c ELSE w[x][i]
  BY PutFacts
<1> HIDE DEF v
<1> SUFFICES Only(m, v, act) BY DEF v
<1> SUFFICES ASSUME NEW b \in DOMAIN m
             PROVE  \/ /\ b \in DOMAIN v /\ Len(v[b]) = Len(m[b])
                       /\ \A i \in DOMAIN m[b] :
                             Owns(m, act, Address(b, i)) \/ v[b][i] = m[b][i]
                    \/ HasBlock(m, act) /\ b = Block(m, act)
                    \/ act.buf # Null /\ b = act.buf
  BY DEF Only
<1>2. CASE /\ b \in DOMAIN w /\ Len(w[b]) = Len(m[b])
           /\ \A i \in DOMAIN m[b] : Owns(m, act, Address(b, i)) \/ w[b][i] = m[b][i]
  <2>1. b \in DOMAIN v /\ Len(v[b]) = Len(m[b]) BY <1>1, <1>2
  <2>2. DOMAIN w[b] = DOMAIN m[b]
    <3>1. DOMAIN m[b] = 1 .. Len(m[b]) BY MemoryFacts
    <3>2. DOMAIN w[b] = 1 .. Len(w[b]) BY <1>2, MemoryFacts
    <3> QED BY <3>1, <3>2, <1>2
  <2>3. ASSUME NEW i \in DOMAIN m[b]
        PROVE  Owns(m, act, Address(b, i)) \/ v[b][i] = m[b][i]
    <3>1. CASE b = a[1] /\ i = a[2]
      <4>1. Owns(m, act, a) BY <3>1
      <4>2. a = Address(b, i) BY <3>1, AddressIs
      <4> QED BY <4>1, <4>2
    <3>2. CASE ~(b = a[1] /\ i = a[2])
      <4>1. v[b][i] = w[b][i] BY <3>2, <2>2, <1>1, <1>2
      <4> QED BY <4>1, <1>2
    <3> QED BY <3>1, <3>2
  <2> QED BY <2>1, <2>3
<1> QED BY <1>2 DEF Only

LEMMA OnlyWith ==
    ASSUME NEW m, NEW w, IsMemory(w), NEW act, Only(m, w, act),
           NEW b, b \notin DOMAIN m, NEW cells \in Seq(Cells)
    PROVE  Only(m, With(w, b, cells), act)
<1>1. IsWith(With(w, b, cells), w, b, cells) BY WithFacts
<1> DEFINE v == With(w, b, cells)
<1> HIDE DEF v
<1>2. IsWith(v, w, b, cells) BY <1>1 DEF v
<1>3. \A x \in DOMAIN w : x # b => x \in DOMAIN v /\ v[x] = w[x] BY <1>2 DEF IsWith
<1>4. Only(m, v, act) BY <1>3 DEF Only
<1> QED BY <1>4 DEF v

LEMMA OnlyWithout ==
    ASSUME NEW m, NEW w, IsMemory(w), NEW act, Only(m, w, act), NEW b,
           \/ b \notin DOMAIN m
           \/ HasBlock(m, act) /\ b = Block(m, act)
           \/ act.buf # Null /\ b = act.buf
    PROVE  Only(m, Without(w, b), act)
<1> DEFINE v == Without(w, b)
<1>1. IsWithout(v, w, b) BY WithoutFacts
<1> HIDE DEF v
<1>2. \A x \in DOMAIN w : x # b => x \in DOMAIN v /\ v[x] = w[x] BY <1>1 DEF IsWithout
<1>3. Only(m, v, act) BY <1>2 DEF Only
<1> QED BY <1>3 DEF v

LEMMA OnlyMoved ==
    ASSUME NEW m, IsMemory(m), NEW w, IsMemory(w), NEW act, Only(m, w, act),
           NEW b \in DOMAIN w, HasBlock(m, act), b = Block(m, act),
           NEW new, new \notin DOMAIN m, new \notin DOMAIN w, NEW n \in Nat, Len(w[b]) <= n
    PROVE  Only(m, Moved(w, b, new, n), act)
<1> DEFINE v == Moved(w, b, new, n)
<1>1. IsMoved(v, w, b, new, n) BY MovedFacts
<1> HIDE DEF v
<1>2. \A x \in DOMAIN w : x # b => x \in DOMAIN v /\ v[x] = w[x] BY <1>1 DEF IsMoved
<1>3. Only(m, v, act) BY <1>2 DEF Only
<1> QED BY <1>3 DEF v

LEMMA HeapDrop ==
    ASSUME NEW m, NEW u, NEW B, NEW d, Heap(m, u, B, d), NEW e, d => e
    PROVE  Heap(m, u, B, e)
BY DEF Heap, Owned

LEMMA CellWith ==
    ASSUME NEW x \in Cells, NEW b \in Int
    PROVE  [x EXCEPT !.p = b] \in Cells /\ [x EXCEPT !.p = b].p = b
BY DEF Cells

LEMMA CellLength ==
    ASSUME NEW x \in Cells, NEW b \in Int, NEW n \in Nat
    PROVE  /\ [x EXCEPT !.p = b, !.len = n] \in Cells
           /\ [x EXCEPT !.p = b, !.len = n].p = b
BY DEF Cells

LEMMA CellExtras ==
    ASSUME NEW x \in Cells, NEW b \in Int, NEW n \in Nat
    PROVE  /\ [x EXCEPT !.p = b, !.len = n].len = n
           /\ [x EXCEPT !.p = b, !.len = n].cap = x.cap
BY DEF Cells

LEMMA CellCapacity ==
    ASSUME NEW x \in Cells, NEW k \in Nat
    PROVE  /\ [x EXCEPT !.cap = k] \in Cells /\ [x EXCEPT !.cap = k].p = x.p
           /\ [x EXCEPT !.cap = k].cap = k /\ [x EXCEPT !.cap = k].len = x.len
BY DEF Cells

-----------------------------------------------------------------------------
(***************************************************************************)
(* How a step of the innermost parser may end.                             *)
(***************************************************************************)
\* What the steps of a parse may assume.
Innermost == /\ IInv /\ phase = "parsing"

LEMMA InnermostFacts ==
    ASSUME Innermost
    PROVE  /\ Active(mem, used, dropped, calls, frames) /\ calls # <<>>
           /\ Top = calls[1] /\ Fit(mem, Top) /\ Top \in ParserType
           /\ IsMemory(mem) /\ Unshared(mem) /\ dropped \in BOOLEAN
           /\ Heap(mem, used, {Top.buf} \ {Null}, dropped)
           /\ used \in Nat \ {0} /\ Fresh = used + 1 /\ Fresh \notin DOMAIN mem
           /\ \A b \in DOMAIN mem : b \in Nat /\ b < Fresh
<1>1. Active(mem, used, dropped, calls, frames) /\ calls # <<>>
  BY DEF Innermost, IInv
<1>2. calls \in Seq(ParserType) /\ dropped \in BOOLEAN
      /\ Heap(mem, used, Held(calls, frames), dropped)
  BY <1>1 DEF Active
<1>3. Top = calls[1] BY <1>1, <1>2 DEF Top
<1>4. Fit(mem, calls[1]) /\ calls[1] \in ParserType /\ IsMemory(mem) /\ Unshared(mem)
      /\ Held(calls, frames) = {calls[1].buf} \ {Null}
  BY <1>1, OuterFacts
<1>5. used \in Nat \ {0} /\ DOMAIN mem \subseteq 1 .. used
  BY <1>2 DEF Heap, Points
<1>6. Fresh = used + 1 BY DEF Fresh
<1>7. Fresh \notin DOMAIN mem /\ \A b \in DOMAIN mem : b \in Nat /\ b < Fresh
  BY <1>5, <1>6
<1> QED BY <1>1, <1>2, <1>3, <1>4, <1>5, <1>6, <1>7

LEMMA StepGoesOn ==
    ASSUME Innermost, NEW t, GoOn(t), Fit(mem', t), dropped' \in BOOLEAN,
           Heap(mem', used', {t.buf} \ {Null}, dropped'),
           Only(mem, mem', Top), Home(t) >= Home(Top),
           \A a \in Addresses : Owns(mem', t, a)
                                => Owns(mem, Top, a) \/ a[1] \notin DOMAIN mem
    PROVE  IInv'
<1>1. Active(mem, used, dropped, calls, frames) /\ calls # <<>> /\ Top = calls[1]
  BY InnermostFacts
<1>2. /\ calls' = <<t>> \o Tail(calls) /\ frames' = frames /\ phase' = "parsing"
      /\ root' = root /\ claimed' = claimed /\ fault' = fault
  BY DEF GoOn, Keep, Innermost
<1>3. Active(mem', used', dropped', <<t>> \o Tail(calls), frames)
  BY <1>1, GoesOn
<1>4. <<t>> \o Tail(calls) # <<>>
  <2>1. calls \in Seq(ParserType) BY <1>1 DEF Active
  <2>2. Tail(calls) \in Seq(ParserType) BY <2>1, <1>1
  <2>3. <<t>> \o Tail(calls) \in Seq(ParserType) BY <1>3 DEF Active
  <2>4. t \in ParserType BY DEF Fit, FitBase
  <2>5. Len(<<t>> \o Tail(calls)) = 1 + Len(Tail(calls)) /\ Len(Tail(calls)) \in Nat
    BY <2>2, <2>4
  <2> QED BY <2>3, <2>5
<1>5. phase \in Phases /\ root \in RootTypes /\ claimed \in BOOLEAN /\ fault \in BOOLEAN
  BY DEF Innermost, IInv
<1> QED BY <1>2, <1>3, <1>4, <1>5 DEF IInv, Phases

LEMMA StepReturns ==
    ASSUME Innermost, Return, dropped' \in BOOLEAN,
           Heap(mem', used', {}, dropped'), Only(mem, mem', Top)
    PROVE  IInv'
<1>1. Active(mem, used, dropped, calls, frames) /\ calls # <<>> /\ Top = calls[1]
  BY InnermostFacts
<1>2. /\ calls' = Tail(calls) /\ frames' = frames
      /\ phase' = IF Tail(calls) = <<>> THEN "running" ELSE "parsing"
      /\ root' = root /\ claimed' = claimed /\ fault' = fault
  BY DEF Return, Keep, Innermost
<1>3. Active(mem', used', dropped', Tail(calls), frames) BY <1>1, Returns
<1>5. phase \in Phases /\ root \in RootTypes /\ claimed \in BOOLEAN /\ fault \in BOOLEAN
  BY DEF Innermost, IInv
<1> QED BY <1>2, <1>3, <1>5 DEF IInv, Phases

\* goto error
LEMMA StepFails ==
    ASSUME Innermost, Fail, Broken(mem', used', dropped', calls, frames)
    PROVE  IInv'
<1>1. calls # <<>> BY InnermostFacts
<1>2. /\ calls' = calls /\ frames' = frames /\ phase' = "unwinding"
      /\ root' = root /\ claimed' = claimed /\ fault' = fault
  BY DEF Fail, Keep
<1>5. root \in RootTypes /\ claimed \in BOOLEAN /\ fault \in BOOLEAN
  BY DEF Innermost, IInv
<1> QED BY <1>1, <1>2, <1>5 DEF IInv, Phases

LEMMA StepFailsAtOnce ==
    ASSUME Innermost, Fail, KeepMemory
    PROVE  IInv'
<1>1. Broken(mem, used, dropped, calls, frames) BY InnermostFacts, Breaks
<1>2. mem' = mem /\ used' = used /\ dropped' = dropped BY DEF KeepMemory
<1> QED BY <1>1, <1>2, StepFails

\* It calls the parser of the value at a, as act.
LEMMA StepCalls ==
    ASSUME Innermost, NEW act, NEW t \in Types, NEW a \in Addresses, Call(act, t, a),
           Fit(mem', act), dropped' \in BOOLEAN, Heap(mem', used', {}, dropped'),
           Only(mem, mem', Top), Home(act) >= Home(Top),
           \A x \in Addresses : Owns(mem', act, x)
                                => Owns(mem, Top, x) \/ x[1] \notin DOMAIN mem,
           Waiting(act), a = SlotAt(mem', act), Width(t) = SlotWidth(act),
           \A i \in a[2] .. a[2] + Width(t) - 1 : Get(mem', Address(a[1], i)) = Cleared
    PROVE  IInv'
<1> DEFINE c == <<act>> \o Tail(calls)
           p == Parser("value", t, a, "start")
           r == <<p, act>> \o Tail(calls)
<1>1. Active(mem, used, dropped, calls, frames) /\ calls # <<>> /\ Top = calls[1]
  BY InnermostFacts
<1>2. /\ calls' = r /\ frames' = frames /\ phase' = "parsing"
      /\ root' = root /\ claimed' = claimed /\ fault' = fault
  BY DEF Call, Keep, Innermost
<1>3. act \in ParserType /\ act.buf = Null
  BY WaitingFacts DEF Fit, FitBase
<1>4. Active(mem', used', dropped', c, frames)
  <2>1. {act.buf} \ {Null} = {} BY <1>3
  <2> QED BY <2>1, <1>1, GoesOn
<1>5. p \in ParserType
  <2>1. "value" \in ParserFns /\ "start" \in ParserStates BY DEF ParserFns, ParserStates
  <2> QED BY <2>1, NewParser
<1> HIDE DEF p
<1>6. calls \in Seq(ParserType) BY <1>1 DEF Active
<1>7. c \in Seq(ParserType) /\ IsReplaced(c, calls, act) BY <1>1, <1>3, <1>6, Heads
<1>8. r \in Seq(ParserType) /\ IsPushed(r, calls, p, act)
  BY <1>1, <1>3, <1>5, <1>6, Heads
<1>9. Len(calls) \in Nat \ {0} BY <1>1, <1>6
<1> HIDE DEF c, r
<1>10. /\ Len(c) = Len(calls) /\ c[1] = act /\ \A k \in 2 .. Len(calls) : c[k] = calls[k]
       /\ Len(r) = Len(calls) + 1 /\ r[1] = p /\ r[2] = act
       /\ \A k \in 2 .. Len(calls) : r[k + 1] = calls[k]
  BY <1>7, <1>8 DEF IsReplaced, IsPushed
<1>11. \A k \in 1 .. Len(c) : r[k + 1] = c[k]
  <2> SUFFICES ASSUME NEW k \in 1 .. Len(c) PROVE r[k + 1] = c[k] OBVIOUS
  <2>1. k = 1 \/ k \in 2 .. Len(calls) BY <1>9, <1>10
  <2>2. k = 1 => k + 1 = 2 OBVIOUS
  <2> QED BY <2>1, <2>2, <1>10
<1>12. c # <<>> /\ r # <<>> BY <1>7, <1>8, <1>9, <1>10
<1>13. Active(mem', used', dropped', r, frames)
  <2>1. Len(r) = Len(c) + 1 /\ r[1] = p /\ c[1] = act BY <1>10
  <2> HIDE DEF Waiting
  <2> QED BY <2>1, <1>4, <1>8, <1>11, <1>12, Calls DEF p
<1>14. root \in RootTypes /\ claimed \in BOOLEAN /\ fault \in BOOLEAN
  BY DEF Innermost, IInv
<1> QED BY <1>2, <1>12, <1>13, <1>14 DEF IInv, Phases

-----------------------------------------------------------------------------
(***************************************************************************)
(* Where a value starts.                                                   *)
(***************************************************************************)
LEMMA FreshValue ==
    ASSUME Innermost, Top.fn \in {"initial", "value"}
    PROVE  /\ Top.ptr = None /\ Home(Top) = Top.at[1] /\ Top.buf = Null
           /\ Top.at \in Addresses /\ ValidIn(mem, Top.at)
           /\ Get(mem, Top.at) = Cleared /\ At(Top.at) = Cleared
           /\ Top.at[1] \in Nat /\ Top.at[2] \in Nat /\ Top.type \in Types
           /\ \A i \in Top.at[2] .. Top.at[2] + Width(Top.type) - 1 :
                 /\ ValidIn(mem, Address(Top.at[1], i))
                 /\ Get(mem, Address(Top.at[1], i)) = Cleared
           /\ \A x \in Addresses : InSpan(Top.at, Width(Top.type), x) => Owns(mem, Top, x)
           /\ Owns(mem, Top, Top.at)
           /\ Heap(mem, used, {}, dropped)
<1>1. Fit(mem, Top) /\ Top \in ParserType /\ Heap(mem, used, {Top.buf} \ {Null}, dropped)
  BY InnermostFacts
<1>2. Top.ptr = None /\ Top.buf = Null BY <1>1 DEF Fit, FitPtr, FitString
<1>3. Home(Top) = Top.at[1] BY <1>2 DEF Home
<1>4. /\ Top.at \in Addresses /\ Top.at[1] \in Nat /\ Top.at[2] \in Nat
      /\ Top.type \in Types /\ Top.at = Address(Top.at[1], Top.at[2])
  BY <1>1, ParserFacts, AddressIs
<1>5. Base(Top) = Width(Top.type) /\ Width(Top.type) \in Nat \ {0}
  BY <1>4, TypeFacts DEF Base
<1>6. ASSUME NEW i \in Top.at[2] .. Top.at[2] + Width(Top.type) - 1
      PROVE  /\ ValidIn(mem, Address(Top.at[1], i))
             /\ Get(mem, Address(Top.at[1], i)) = Cleared
  BY <1>1, <1>5 DEF Fit, FitBase
<1>7. ValidIn(mem, Top.at) /\ Get(mem, Top.at) = Cleared
  <2>1. Top.at[2] \in Top.at[2] .. Top.at[2] + Width(Top.type) - 1 BY <1>4, <1>5
  <2> QED BY <2>1, <1>4, <1>6
<1>8. At(Top.at) = Get(mem, Top.at) BY DEF At, Get
<1>9. ASSUME NEW x \in Addresses, InSpan(Top.at, Width(Top.type), x)
      PROVE  Owns(mem, Top, x)
  <2>1. InBase(Top, x) BY <1>5, <1>9 DEF InSpan, InBase
  <2> QED BY <2>1, <1>1, BaseFacts DEF Fit
<1>10. Owns(mem, Top, Top.at) BY <1>1, BaseFacts DEF Fit
<1>11. {Top.buf} \ {Null} = {} BY <1>2
<1> QED BY <1>1, <1>2, <1>3, <1>4, <1>6, <1>7, <1>8, <1>9, <1>10, <1>11

\* A value of type t can start: all is clear, but for the tag of a variant.
IsReady(t, w) ==
    /\ t \in Types /\ IsMemory(w) /\ Heap(w, used, {}, dropped) /\ Only(mem, w, Top)
    /\ Width(t) <= Width(Top.type)
    /\ \A i \in Top.at[2] .. Top.at[2] + Width(t) - 1 :
          LET x == Address(Top.at[1], i) IN
          /\ ValidIn(w, x)
          /\ Get(w, x).p = 0 /\ Get(w, x).len = 0 /\ Get(w, x).cap = 0
          /\ i < Top.at[2] + Width(t) - 1 => Get(w, x) = Cleared

LEMMA ReadyAtOnce ==
    ASSUME Innermost, Top.fn \in {"initial", "value"}
    PROVE  IsReady(Top.type, mem)
<1>1. IsMemory(mem) BY InnermostFacts
<1>2. Width(Top.type) \in Nat BY FreshValue, TypeFacts
<1>3. Only(mem, mem, Top) BY OnlySame
<1>4. Cleared.p = 0 /\ Cleared.len = 0 /\ Cleared.cap = 0 BY CellType
<1>5. Width(Top.type) <= Width(Top.type) BY <1>2
<1> QED BY <1>1, <1>3, <1>4, <1>5, FreshValue DEF IsReady

LEMMA ReadyTagged ==
    ASSUME Innermost, Top.fn \in {"initial", "value"}, NEW t \in Tags
    PROVE  IsReady(t, Put(mem, Top.at, [At(Top.at) EXCEPT !.tag = t]))
<1> DEFINE c == [At(Top.at) EXCEPT !.tag = t]
           w == Put(mem, Top.at, c)
<1>1. t \in Types /\ Width(t) = 1 /\ Width(Top.type) \in Nat \ {0}
  BY TagFacts, FreshValue, TypeFacts
<1>2. c \in Cells /\ c.p = 0 /\ c.len = 0 /\ c.cap = 0
  <2>1. At(Top.at) = Cleared BY FreshValue
  <2> QED BY <2>1, <1>1 DEF Cleared, Cell, Cells, Null
<1> HIDE DEF c
<1>3. /\ IsMemory(mem) /\ Top.at \in Addresses /\ ValidIn(mem, Top.at)
      /\ Get(mem, Top.at) = Cleared /\ Heap(mem, used, {}, dropped)
      /\ Owns(mem, Top, Top.at)
  BY InnermostFacts, FreshValue
<1>4. IsMemory(w) /\ Get(w, Top.at) = c /\ ValidIn(w, Top.at)
  BY <1>2, <1>3, PutGet
<1>5. Only(mem, w, Top)
  <2>1. Only(mem, mem, Top) BY OnlySame
  <2> QED BY <2>1, <1>2, <1>3, OnlyPut
<1>6. Heap(w, used, {}, dropped)
  <2>1. c.p = Get(mem, Top.at).p BY <1>2, <1>3, CellType
  <2> QED BY <2>1, <1>2, <1>3, HeapPut
<1> HIDE DEF w
<1>7. ASSUME NEW i \in Top.at[2] .. Top.at[2] + Width(t) - 1
      PROVE  i = Top.at[2] /\ Address(Top.at[1], i) = Top.at
  <2>1. Top.at[2] \in Nat /\ Top.at = Address(Top.at[1], Top.at[2])
    BY <1>3, AddressIs
  <2> QED BY <2>1, <1>1
<1>8. Width(t) <= Width(Top.type) BY <1>1
<1>9. \A i \in Top.at[2] .. Top.at[2] + Width(t) - 1 :
          LET x == Address(Top.at[1], i) IN
          /\ ValidIn(w, x)
          /\ Get(w, x).p = 0 /\ Get(w, x).len = 0 /\ Get(w, x).cap = 0
          /\ i < Top.at[2] + Width(t) - 1 => Get(w, x) = Cleared
  <2> SUFFICES ASSUME NEW i \in Top.at[2] .. Top.at[2] + Width(t) - 1
               PROVE  LET x == Address(Top.at[1], i) IN
                      /\ ValidIn(w, x)
                      /\ Get(w, x).p = 0 /\ Get(w, x).len = 0 /\ Get(w, x).cap = 0
                      /\ i < Top.at[2] + Width(t) - 1 => Get(w, x) = Cleared
    OBVIOUS
  <2>1. i = Top.at[2] /\ Address(Top.at[1], i) = Top.at BY <1>7
  <2>2. ~(i < Top.at[2] + Width(t) - 1) BY <2>1, <1>1, <1>3, AddressIs
  <2> QED BY <2>1, <2>2, <1>2, <1>4
<1>10. IsReady(t, w) BY <1>1, <1>4, <1>5, <1>6, <1>8, <1>9 DEF IsReady
<1> QED BY <1>10 DEF w, c

LEMMA BeginReady ==
    ASSUME Innermost, Top.fn \in {"initial", "value"}, NEW t, NEW w, IsReady(t, w),
           Begin(t, w)
    PROVE  IInv'
<1>1. /\ t \in Types /\ IsMemory(w) /\ Heap(w, used, {}, dropped) /\ Only(mem, w, Top)
      /\ Width(t) \in Nat \ {0} /\ Width(t) <= Width(Top.type)
      /\ Width(Top.type) \in Nat
  BY FreshValue, TypeFacts DEF IsReady
<1>2. /\ Top.at \in Addresses /\ Top.at[1] \in Nat /\ Top.at[2] \in Nat
      /\ Top.at = Address(Top.at[1], Top.at[2]) /\ Owns(mem, Top, Top.at)
      /\ dropped \in BOOLEAN
  BY FreshValue, AddressIs, InnermostFacts
<1>3. ASSUME NEW i \in Top.at[2] .. Top.at[2] + Width(t) - 1
      PROVE  /\ ValidIn(w, Address(Top.at[1], i))
             /\ Get(w, Address(Top.at[1], i)).p = 0
             /\ Get(w, Address(Top.at[1], i)).len = 0
             /\ Get(w, Address(Top.at[1], i)).cap = 0
             /\ i < Top.at[2] + Width(t) - 1 => Get(w, Address(Top.at[1], i)) = Cleared
  BY DEF IsReady
<1>4. ValidIn(w, Top.at) /\ Get(w, Top.at).p = 0 /\ Get(w, Top.at).cap = 0
  <2>1. Top.at[2] \in Top.at[2] .. Top.at[2] + Width(t) - 1 BY <1>1, <1>2
  <2> QED BY <2>1, <1>2, <1>3
<1>5. CASE BeginScalar(t, w)
  <2>1. /\ Return /\ used' = used /\ dropped' = dropped
        /\ mem' = w \/ mem' = Put(w, Top.at, [Get(w, Top.at) EXCEPT !.p = Junk])
    BY <1>5 DEF BeginScalar, Get
  <2>2. CASE mem' = w BY <2>1, <2>2, <1>1, <1>2, StepReturns
  <2>3. CASE mem' = Put(w, Top.at, [Get(w, Top.at) EXCEPT !.p = Junk])
    <3> DEFINE c == [Get(w, Top.at) EXCEPT !.p = Junk]
    <3>1. Get(w, Top.at) \in Cells BY <1>1, <1>4, MemoryFacts DEF Get, ValidIn
    <3>2. c \in Cells /\ c.p = Junk BY <3>1 DEF Cells, Junk
    <3> HIDE DEF c
    <3>3. Heap(Put(w, Top.at, c), used, {}, dropped)
      BY <3>2, <1>1, <1>2, <1>4, HeapPut
    <3>4. Only(mem, Put(w, Top.at, c), Top)
      BY <3>2, <1>1, <1>2, <1>4, InnermostFacts, OnlyPut
    <3>5. mem' = Put(w, Top.at, c) BY <2>3 DEF c
    <3> QED BY <3>3, <3>4, <3>5, <2>1, <1>2, StepReturns
  <2> QED BY <2>1, <2>2, <2>3
\* A parser that governs no more than its value.
<1>6. ASSUME NEW act, act \in ParserType, GoOn(act), mem' = w, used' = used,
             dropped' = dropped, act.at = Top.at, act.buf = Null, act.ptr = None,
             Base(act) <= Width(t), ~HasBlock(w, act), Fit(w, act)
      PROVE  IInv'
  <2>1. Home(act) = Home(Top) /\ Home(Top) \in Nat
    <3>1. Home(Top) = Top.at[1] BY FreshValue
    <3> QED BY <3>1, <1>2, <1>6 DEF Home
  <2>2. ASSUME NEW a \in Addresses, Owns(w, act, a) PROVE Owns(mem, Top, a)
    <3>1. InBase(act, a) BY <2>2, <1>6, AddressIs DEF Owns
    <3>2. a[1] \in Nat /\ a[2] \in Nat /\ Base(act) \in Nat
      BY AddressIs, <1>6, ParserFacts
    <3>3. InSpan(Top.at, Width(Top.type), a)
      BY <3>1, <3>2, <1>1, <1>2, <1>6 DEF InBase, InSpan
    <3> QED BY <3>3, FreshValue
  <2>3. Heap(w, used, {act.buf} \ {Null}, dropped)
    <3>1. {act.buf} \ {Null} = {} BY <1>6
    <3> QED BY <3>1, <1>1
  <2>4. Home(act) >= Home(Top) BY <2>1
  <2> QED BY <2>2, <2>3, <2>4, <1>1, <1>2, <1>6, StepGoesOn
<1>7. CASE BeginString(t, w)
  <2> DEFINE act == Parser("string", t, Top.at, "text")
  <2>1. "string" \in ParserFns /\ "text" \in ParserStates BY DEF ParserFns, ParserStates
  <2>2. /\ act \in ParserType /\ act.fn = "string" /\ act.type = t /\ act.at = Top.at
        /\ act.st = "text" /\ act.ptr = None /\ act.buf = Null
    BY <2>1, <1>1, <1>2, NewParser
  <2>3. GoOn(act) /\ mem' = w /\ used' = used /\ dropped' = dropped
    BY <1>7 DEF BeginString
  <2> HIDE DEF act
  <2>4. Base(act) = 1 /\ ~HasBlock(w, act) BY <2>2 DEF Base, HasBlock
  <2>5. Fit(w, act)
    <3>1. act.st \in StatesOf(act.fn) BY <2>2 DEF StatesOf
    <3>2. \A i \in act.at[2] .. act.at[2] + Base(act) - 1 : ValidIn(w, Address(act.at[1], i))
      <4>1. \A i \in act.at[2] .. act.at[2] + Base(act) - 1 : i = Top.at[2]
        BY <2>2, <2>4, <1>2
      <4> QED BY <4>1, <2>2, <1>2, <1>4
    <3>3. FitBase(w, act) BY <3>1, <3>2, <2>2 DEF FitBase
    <3>4. FitString(w, act) BY <2>2, <1>4 DEF FitString
    <3> QED BY <3>3, <3>4, <2>2 DEF Fit, FitBlock, FitArray, FitPtr, FitMembers
  <2> QED BY <2>2, <2>3, <2>4, <2>5, <1>1, <1>6
<1>8. CASE BeginArray(t, w)
  <2> DEFINE p == Parser("array", t, Top.at, "open")
             act == [p EXCEPT !.cap = InitialCapacity]
  <2>1. "array" \in ParserFns /\ "open" \in ParserStates BY DEF ParserFns, ParserStates
  <2>2. /\ p \in ParserType /\ p.fn = "array" /\ p.type = t /\ p.at = Top.at
        /\ p.st = "open" /\ p.ptr = None /\ p.buf = Null /\ p.len = 0
    BY <2>1, <1>1, <1>2, NewParser
  <2>3. GoOn(act) /\ mem' = w /\ used' = used /\ dropped' = dropped
    BY <1>8 DEF BeginArray
  <2> HIDE DEF p
  <2>4. InitialCapacity \in Nat \ {0} BY SizeAssumption
  <2>5. /\ act \in ParserType /\ act.fn = "array" /\ act.type = t /\ act.at = Top.at
        /\ act.st = "open" /\ act.ptr = None /\ act.buf = Null /\ act.len = 0
        /\ act.cap = InitialCapacity
    BY <2>2, <2>4 DEF ParserType
  <2> HIDE DEF act
  <2>6. Base(act) = 1 /\ ~HasBlock(w, act) BY <2>5 DEF Base, HasBlock
  <2>7. Fit(w, act)
    <3>1. act.st \in StatesOf(act.fn) BY <2>5 DEF StatesOf
    <3>2. \A i \in act.at[2] .. act.at[2] + Base(act) - 1 : ValidIn(w, Address(act.at[1], i))
      <4>1. \A i \in act.at[2] .. act.at[2] + Base(act) - 1 : i = Top.at[2]
        BY <2>5, <2>6, <1>2
      <4> QED BY <4>1, <2>5, <1>2, <1>4
    <3>3. FitBase(w, act) BY <3>1, <3>2, <2>5 DEF FitBase
    <3>4. FitBlock(w, act)
      <4>1. Block(w, act) = 0 /\ Count(w, act) = 0
        BY <2>5, <1>4 DEF Block, Count, Anchor
      <4> QED BY <4>1, <2>6 DEF FitBlock
    <3>5. FitArray(w, act) BY <2>4, <2>5 DEF FitArray
    <3> QED BY <3>3, <3>4, <3>5, <2>5 DEF Fit, FitString, FitPtr, FitMembers
  <2>8. Base(act) <= Width(t) BY <2>6, <1>1
  <2> QED BY <2>3, <2>5, <2>6, <2>7, <2>8, <1>6
<1>9. CASE BeginStruct(t, w)
  <2> DEFINE act == Parser("struct", t, Top.at, "open")
  <2>1. "struct" \in ParserFns /\ "open" \in ParserStates BY DEF ParserFns, ParserStates
  <2>2. /\ act \in ParserType /\ act.fn = "struct" /\ act.type = t /\ act.at = Top.at
        /\ act.st = "open" /\ act.ptr = None /\ act.buf = Null /\ act.seen = {}
    BY <2>1, <1>1, <1>2, NewParser
  <2>3. GoOn(act) /\ mem' = w /\ used' = used /\ dropped' = dropped /\ Kind[t] = "struct"
    BY <1>9 DEF BeginStruct
  <2> HIDE DEF act
  <2>4. /\ Base(act) = Width(t) /\ Width(t) = Len(Members[t]) + 1
        /\ Members[t] \in Seq(Types)
    BY <2>2, <2>3, <1>1, TypeFacts DEF Base, StructWidth
  <2>5. /\ Len(Members[t]) \in Nat /\ DOMAIN Members[t] = 1 .. Len(Members[t])
        /\ Anchor(act) = Address(Top.at[1], Top.at[2] + Len(Members[t]))
    BY <2>2, <2>4 DEF Anchor, Extras
  <2> DEFINE n == Len(Members[t])
  <2> HIDE DEF n
  <2>6. /\ Get(w, Anchor(act)).p = 0 /\ Get(w, Anchor(act)).len = 0
        /\ Get(w, Anchor(act)).cap = 0
    <3>1. Top.at[2] + n \in Top.at[2] .. Top.at[2] + Width(t) - 1
      BY <2>4, <2>5, <1>2 DEF n
    <3> QED BY <3>1, <2>5, <1>3 DEF n
  <2>7. ~HasBlock(w, act) BY <2>2, <2>6 DEF HasBlock
  <2>8. Fit(w, act)
    <3>1. act.st \in StatesOf(act.fn) BY <2>2 DEF StatesOf
    <3>2. FitBase(w, act) BY <3>1, <2>2, <2>4, <1>3 DEF FitBase
    <3>3. FitBlock(w, act)
      <4>1. Block(w, act) = 0 /\ Count(w, act) = 0 BY <2>2, <2>6 DEF Block, Count
      <4> QED BY <4>1, <2>7 DEF FitBlock
    <3>4. FitMembers(w, act)
      <4>1. ASSUME NEW i \in DOMAIN Members[t]
            PROVE  Get(w, Address(act.at[1], act.at[2] + i - 1)) = Cleared
        <5>1. /\ Top.at[2] + i - 1 \in Top.at[2] .. Top.at[2] + Width(t) - 1
              /\ Top.at[2] + i - 1 < Top.at[2] + Width(t) - 1
          BY <2>4, <2>5, <1>2, SMTT(60) DEF n
        <5> QED BY <5>1, <2>2, <1>3
      <4> QED BY <4>1, <2>2 DEF FitMembers
    <3> QED BY <3>2, <3>3, <3>4, <2>2 DEF Fit, FitString, FitArray, FitPtr
  <2>9. Base(act) <= Width(t) BY <2>4, <1>1
  <2> QED BY <2>2, <2>3, <2>7, <2>8, <2>9, <1>6
<1> QED BY <1>5, <1>7, <1>8, <1>9 DEF Begin

\* A struct of n cells is allocated for the pointer.
LEMMA BeginAllocated ==
    ASSUME Innermost, Top.fn \in {"initial", "value"}, BeginStructPtr(Top.type)
    PROVE  IInv'
<1> DEFINE t == Top.type
           n == StructWidth(t)
           c == [At(Top.at) EXCEPT !.p = Fresh]
           z == Zeroed(n)
           v == With(mem, Fresh, z)
           w == Put(v, Top.at, c)
           p == Parser("struct", t, Address(Fresh, 1), "open")
           act == [p EXCEPT !.ptr = Top.at]
<1>1. /\ t \in Types /\ n \in Nat \ {0} /\ IsMemory(mem) /\ dropped \in BOOLEAN
      /\ Fresh = used + 1 /\ used \in Nat \ {0} /\ Fresh \notin DOMAIN mem
      /\ n = Len(Members[t]) + 1 /\ Members[t] \in Seq(Types)
      /\ Fresh \in Nat
  BY FreshValue, TypeFacts, InnermostFacts DEF StructWidth
<1>2. /\ Top.at \in Addresses /\ ValidIn(mem, Top.at) /\ At(Top.at) = Cleared
      /\ Get(mem, Top.at) = Cleared /\ Heap(mem, used, {}, dropped)
      /\ Owns(mem, Top, Top.at) /\ Home(Top) = Top.at[1] /\ Top.at[1] \in Nat
      /\ Top.at # None
  BY FreshValue, AddressIs
<1>3. c \in Cells /\ c.p = Fresh /\ Cleared.p = 0
  BY <1>1, <1>2, CellType DEF Cleared, Cell, Cells, Null
<1>4. Top.at[1] \in DOMAIN mem /\ Top.at[1] < Fresh BY <1>2, InnermostFacts DEF ValidIn
<1>5. /\ z \in Seq(Cells) /\ Len(z) = n /\ DOMAIN z = 1 .. n
      /\ \A i \in 1 .. n : z[i] = Cleared
  BY <1>1, ZeroedFacts
<1> HIDE DEF c, z, n, t
<1>6. CASE /\ Allocate(Pointer(Top.at, Fresh), n)
           /\ GoOn(act)
  <2>1. mem' = With(Put(mem, Top.at, c), Fresh, z) /\ used' = Fresh /\ dropped' = dropped
    BY <1>6 DEF Allocate, Pointer, c, z
  <2>2. mem' = w BY <2>1, <1>1, <1>2, <1>3, <1>5, PutWith
  <2>3. IsWith(v, mem, Fresh, z) BY <1>1, <1>5, WithFacts
  <2>4. Heap(v, Fresh, {Fresh}, dropped)
    <3>1. Heap(With(mem, used + 1, Zeroed(n)), used + 1, {} \cup {used + 1}, dropped)
      BY <1>1, <1>2, HeapNew
    <3>2. {} \cup {used + 1} = {Fresh} BY <1>1
    <3> QED BY <3>1, <3>2, <1>1 DEF z
  <2> HIDE DEF v
  <2>5. /\ IsMemory(v) /\ ValidIn(v, Top.at) /\ Get(v, Top.at) = Cleared
        /\ v[Fresh] = z /\ Fresh \in DOMAIN v
    BY <2>3, <1>2, <1>4 DEF IsWith, ValidIn, Get
  <2>6. Heap(w, Fresh, {}, dropped)
    <3>1. Heap(w, Fresh, {Fresh} \ {c.p}, dropped)
      BY <2>4, <2>5, <1>2, <1>3, HeapTake
    <3>2. {Fresh} \ {c.p} = {} BY <1>3
    <3> QED BY <3>1, <3>2
  <2>7. Only(mem, w, Top)
    <3>1. Only(mem, v, Top)
      BY <1>1, <1>5, OnlySame, OnlyWith DEF v
    <3> QED BY <3>1, <2>5, <1>1, <1>2, <1>3, OnlyPut
  <2>8. /\ IsMemory(w) /\ Get(w, Top.at) = c /\ ValidIn(w, Top.at)
        /\ \A x \in Addresses : /\ ValidIn(w, x) <=> ValidIn(v, x)
                                /\ ValidIn(v, x) /\ x # Top.at => Get(w, x) = Get(v, x)
    BY <2>5, <1>2, <1>3, PutGet
  <2>9. ASSUME NEW i \in 1 .. n
        PROVE  ValidIn(w, Address(Fresh, i)) /\ Get(w, Address(Fresh, i)) = Cleared
    <3> DEFINE x == Address(Fresh, i)
    <3>1. x \in Addresses /\ x[1] = Fresh /\ x[2] = i BY <1>1, AddressFacts
    <3> HIDE DEF x
    <3>2. ValidIn(v, x) /\ Get(v, x) = Cleared BY <3>1, <2>5, <1>5 DEF ValidIn, Get
    <3>3. x # Top.at BY <3>1, <1>4, <1>1
    <3> QED BY <3>1, <3>2, <3>3, <2>8 DEF x
  <2>10. "struct" \in ParserFns /\ "open" \in ParserStates BY DEF ParserFns, ParserStates
  <2>11. Address(Fresh, 1) \in Addresses /\ Address(Fresh, 1)[1] = Fresh
         /\ Address(Fresh, 1)[2] = 1
    BY <1>1, AddressFacts
  <2>12. /\ p \in ParserType /\ p.fn = "struct" /\ p.type = t /\ p.at = Address(Fresh, 1)
         /\ p.st = "open" /\ p.buf = Null /\ p.seen = {}
    BY <2>10, <2>11, <1>1, NewParser
  <2> HIDE DEF p, w
  <2>13. /\ act \in ParserType /\ act.fn = "struct" /\ act.type = t
         /\ act.at = Address(Fresh, 1) /\ act.st = "open" /\ act.buf = Null
         /\ act.seen = {} /\ act.ptr = Top.at
    BY <2>12, <1>2 DEF ParserType, Addresses
  <2>14. GoOn(act) BY <1>6
  <2> HIDE DEF act
  <2>15. act.at[1] = Fresh /\ act.at[2] = 1 BY <2>11, <2>13
  <2>16. Base(act) = n BY <2>13 DEF Base, n
  <2> DEFINE k == Len(Members[t])
  <2>17. k \in Nat /\ n = k + 1 /\ DOMAIN Members[t] = 1 .. k BY <1>1
  <2> HIDE DEF k
  <2>18. Anchor(act) = Address(Fresh, n)
    <3>1. Anchor(act) = Address(Fresh, 1 + k) BY <2>13, <2>15 DEF Anchor, Extras, k
    <3>2. 1 + k = n BY <2>17
    <3> QED BY <3>1, <3>2
  <2>19. Get(w, Anchor(act)) = Cleared
    <3>1. n \in 1 .. n BY <1>1
    <3> QED BY <3>1, <2>9, <2>18
  <2>20. ~HasBlock(w, act) BY <2>13, <2>19, CellType DEF HasBlock
  <2>21. Fit(w, act)
    <3>1. act.st \in StatesOf(act.fn) BY <2>13 DEF StatesOf
    <3>2. \A i \in act.at[2] .. act.at[2] + Base(act) - 1 : ValidIn(w, Address(act.at[1], i))
      <4>1. \A i \in act.at[2] .. act.at[2] + Base(act) - 1 : i \in 1 .. n
        BY <2>15, <2>16, <1>1
      <4> QED BY <4>1, <2>9, <2>15
    <3>3. FitBase(w, act) BY <3>1, <3>2, <2>13 DEF FitBase
    <3>4. FitBlock(w, act)
      <4>1. Block(w, act) = 0 /\ Count(w, act) = 0
        BY <2>13, <2>19, CellType DEF Block, Count
      <4> QED BY <4>1, <2>20 DEF FitBlock
    <3>5. FitMembers(w, act)
      <4>1. ASSUME NEW i \in DOMAIN Members[t]
            PROVE  Get(w, Address(act.at[1], act.at[2] + i - 1)) = Cleared
        <5>1. act.at[2] + i - 1 = i /\ i \in 1 .. n BY <2>15, <2>17
        <5> QED BY <5>1, <2>9, <2>15
      <4> QED BY <4>1, <2>13 DEF FitMembers
    <3>6. FitPtr(w, act)
      BY <2>8, <2>13, <2>15, <1>3, <1>4 DEF FitPtr
    <3> QED BY <3>3, <3>4, <3>5, <3>6, <2>13 DEF Fit, FitString, FitArray
  <2>22. Home(act) >= Home(Top)
    <3>1. Home(act) = Top.at[1] BY <2>13, <1>2 DEF Home
    <3> QED BY <3>1, <1>2
  <2>23. ASSUME NEW a \in Addresses, Owns(w, act, a)
         PROVE  Owns(mem, Top, a) \/ a[1] \notin DOMAIN mem
    <3>1. InBase(act, a) \/ a = Top.at BY <2>13, <2>20, <2>23 DEF Owns
    <3>2. InBase(act, a) => a[1] = Fresh BY <2>15 DEF InBase
    <3> QED BY <3>1, <3>2, <1>1, <1>2
  <2>24. Heap(w, Fresh, {act.buf} \ {Null}, dropped)
    <3>1. {act.buf} \ {Null} = {} BY <2>13
    <3> QED BY <3>1, <2>6
  <2> QED BY <2>1, <2>2, <2>7, <2>14, <2>21, <2>22, <2>23, <2>24, <1>1, StepGoesOn
<1>7. CASE Fail /\ mem' = Pointer(Top.at, Null) /\ UNCHANGED <<used, dropped>>
  <2>1. [At(Top.at) EXCEPT !.p = Null] = Get(mem, Top.at)
    BY <1>2 DEF Cleared, Cell, Null
  <2>2. mem' = mem
    BY <1>7, <2>1, <1>1, <1>2, PutSame DEF Pointer
  <2> QED BY <1>7, <2>2, StepFailsAtOnce DEF KeepMemory
<1> QED BY <1>6, <1>7 DEF BeginStructPtr, n, t, act, p

LEMMA ValueKeeps ==
    ASSUME Innermost, Value
    PROVE  IInv'
<1>1. Top.fn \in {"initial", "value"} BY DEF Value
<1>2. CASE Begin(Top.type, mem) BY <1>1, <1>2, ReadyAtOnce, BeginReady
<1>3. CASE BeginStructPtr(Top.type) BY <1>1, <1>3, BeginAllocated
<1>4. ASSUME NEW t \in Tags, Begin(t, Put(mem, Top.at, [At(Top.at) EXCEPT !.tag = t]))
      PROVE  IInv'
  <2> DEFINE w == Put(mem, Top.at, [At(Top.at) EXCEPT !.tag = t])
  <2>1. IsReady(t, w) BY <1>1, ReadyTagged
  <2>2. Begin(t, w) BY <1>4
  <2> HIDE DEF w
  <2> QED BY <1>1, <2>1, <2>2, BeginReady
<1>5. CASE Fail /\ KeepMemory BY <1>5, StepFailsAtOnce
<1> QED BY <1>2, <1>3, <1>4, <1>5 DEF Value

-----------------------------------------------------------------------------
(***************************************************************************)
(* Strings.                                                                *)
(***************************************************************************)
LEMMA TextFacts ==
    ASSUME Innermost, Top.fn = "string"
    PROVE  /\ Top.at \in Addresses /\ ValidIn(mem, Top.at) /\ Owns(mem, Top, Top.at)
           /\ Get(mem, Top.at) \in Cells /\ Get(mem, Top.at) = At(Top.at)
           /\ Get(mem, Top.at).p <= 0
           /\ Top.buf \in Nat
           /\ Top.buf # Null => /\ Top.buf \in DOMAIN mem /\ mem[Top.buf] = <<>>
                                /\ Top.at[1] # Top.buf
           /\ ~HasBlock(mem, Top)
<1>1. Fit(mem, Top) /\ Top \in ParserType /\ IsMemory(mem) BY InnermostFacts
<1>2. Top.at \in Addresses /\ Top.buf \in Nat BY <1>1, ParserFacts
<1>3. ValidIn(mem, Top.at) /\ Owns(mem, Top, Top.at) BY <1>1, BaseFacts DEF Fit
<1>4. Get(mem, Top.at) \in Cells BY <1>1, <1>3, MemoryFacts DEF Get, ValidIn
<1>5. /\ Get(mem, Top.at).p <= 0
      /\ Top.buf # Null => Top.buf \in DOMAIN mem /\ mem[Top.buf] = <<>>
  BY <1>1 DEF Fit, FitString
<1>6. Top.buf # Null => Top.at[1] # Top.buf BY <1>3, <1>5 DEF ValidIn
<1>7. ~HasBlock(mem, Top) BY DEF HasBlock
<1> QED BY <1>2, <1>3, <1>4, <1>5, <1>6, <1>7 DEF Get, At

LEMMA StringEmptyKeeps ==
    ASSUME Innermost, StringEmpty
    PROVE  IInv'
<1> DEFINE c == [At(Top.at) EXCEPT !.p = ZeroLengthPtr]
           m == Put(mem, Top.at, c)
           B == {Top.buf} \ {Null}
<1>1. Top.fn = "string" /\ Return /\ used' = used /\ dropped' = dropped
      /\ mem' = IF Top.buf = Null THEN m ELSE Without(m, Top.buf)
  BY DEF StringEmpty, In, Inside, Pointer
<1>2. /\ Top.at \in Addresses /\ ValidIn(mem, Top.at) /\ Owns(mem, Top, Top.at)
      /\ Get(mem, Top.at).p <= 0 /\ c \in Cells /\ c.p = ZeroLengthPtr
      /\ Top.buf # Null => /\ Top.buf \in DOMAIN mem /\ mem[Top.buf] = <<>>
                           /\ Top.at[1] # Top.buf
  <2>1. At(Top.at) \in Cells BY <1>1, TextFacts
  <2>2. c \in Cells /\ c.p = ZeroLengthPtr BY <2>1 DEF Cells, ZeroLengthPtr
  <2> HIDE DEF c
  <2> QED BY <2>2, <1>1, TextFacts
<1> HIDE DEF c
<1>3. Heap(mem, used, B, dropped) /\ IsMemory(mem) /\ dropped \in BOOLEAN
  BY InnermostFacts
<1>4. Heap(m, used, B, dropped) BY <1>2, <1>3, HeapPut
<1>5. Only(mem, m, Top) /\ IsMemory(m)
  BY <1>2, <1>3, OnlySame, OnlyPut, PutFacts
<1>6. Top.buf # Null => m[Top.buf] = <<>> BY <1>2, <1>3, PutFacts
<1> HIDE DEF m
<1>7. CASE Top.buf = Null
  <2>1. B = {} BY <1>7
  <2> QED BY <2>1, <1>1, <1>3, <1>4, <1>5, <1>7, StepReturns
<1>8. CASE Top.buf # Null
  <2>1. B = {Top.buf} /\ B \ {Top.buf} = {} /\ Top.buf \in B BY <1>8
  <2>2. DOMAIN m[Top.buf] = {} BY <1>6, <1>8
  <2>3. Heap(Without(m, Top.buf), used, B \ {Top.buf}, dropped)
    BY <2>1, <2>2, <1>4, HeapFree
  <2>4. Only(mem, Without(m, Top.buf), Top) BY <1>5, <1>8, OnlyWithout
  <2> QED BY <2>1, <2>3, <2>4, <1>1, <1>3, <1>8, StepReturns
<1> QED BY <1>7, <1>8

LEMMA StringDoneKeeps ==
    ASSUME Innermost, StringDone
    PROVE  IInv'
<1> DEFINE c(b) == [At(Top.at) EXCEPT !.p = b, !.len = 1]
<1>1. Top.fn = "string" /\ Return
  BY DEF StringDone, In, Inside
<1>2. /\ Top.at \in Addresses /\ ValidIn(mem, Top.at) /\ Owns(mem, Top, Top.at)
      /\ Get(mem, Top.at).p <= 0 /\ Top.buf \in Nat
      /\ \A b \in Nat : c(b) \in Cells /\ c(b).p = b
  <2>1. At(Top.at) \in Cells BY <1>1, TextFacts
  <2>2. ASSUME NEW b \in Nat PROVE c(b) \in Cells /\ c(b).p = b
    <3>1. b \in Int /\ 1 \in Nat OBVIOUS
    <3>2. /\ [At(Top.at) EXCEPT !.p = b, !.len = 1] \in Cells
          /\ [At(Top.at) EXCEPT !.p = b, !.len = 1].p = b
      BY <2>1, <3>1, CellLength
    <3> QED BY <3>2
  <2> HIDE DEF c
  <2> QED BY <2>2, <1>1, TextFacts
<1>3. /\ Heap(mem, used, {Top.buf} \ {Null}, dropped) /\ IsMemory(mem)
      /\ dropped \in BOOLEAN /\ Fresh = used + 1 /\ used \in Nat /\ Fresh \notin DOMAIN mem
  BY InnermostFacts
<1> HIDE DEF c
<1>4. CASE Top.buf = Null /\ Allocate(Assigned(Fresh), 0)
  <2> DEFINE z == Zeroed(0)
             v == With(mem, Fresh, z)
             e == c(Fresh)
             w == Put(v, Top.at, e)
  <2>1. /\ mem' = With(Put(mem, Top.at, e), Fresh, z)
        /\ used' = Fresh /\ dropped' = dropped
    BY <1>4 DEF Allocate, Assigned, c
  <2>2. e \in Cells /\ e.p = Fresh
    <3>1. Fresh \in Nat BY <1>3
    <3> QED BY <3>1, <1>2
  <2> HIDE DEF e
  <2>3. z \in Seq(Cells) BY ZeroedFacts
  <2>20. z = Zeroed(0) OBVIOUS
  <2> HIDE DEF z
  <2>4. mem' = w BY <2>1, <2>2, <2>3, <1>2, <1>3, PutWith
  <2>5. Heap(v, Fresh, {Fresh}, dropped)
    <3>1. {Top.buf} \ {Null} = {} /\ {} \cup {used + 1} = {Fresh} BY <1>3, <1>4
    <3> QED BY <3>1, <2>20, <1>3, HeapNew
  <2>6. Only(mem, v, Top) BY <2>3, <1>3, OnlySame, OnlyWith
  <2>7. IsWith(v, mem, Fresh, z) BY <2>3, <1>3, WithFacts
  <2> HIDE DEF v
  <2>8. IsMemory(v) /\ ValidIn(v, Top.at) /\ Get(v, Top.at) = Get(mem, Top.at)
    BY <2>7, <1>2, <1>3 DEF IsWith, ValidIn, Get
  <2>9. Heap(w, Fresh, {}, dropped)
    <3>1. Heap(w, Fresh, {Fresh} \ {e.p}, dropped)
      BY <2>2, <2>5, <2>8, <1>2, HeapTake
    <3>2. {Fresh} \ {e.p} = {} BY <2>2
    <3> QED BY <3>1, <3>2
  <2>10. Only(mem, w, Top) BY <2>2, <2>6, <2>8, <1>2, <1>3, OnlyPut
  <2> QED BY <2>1, <2>4, <2>9, <2>10, <1>1, <1>3, StepReturns
<1>5. CASE Top.buf # Null /\ mem' = Assigned(Top.buf) /\ UNCHANGED <<used, dropped>>
  <2> DEFINE e == c(Top.buf)
             w == Put(mem, Top.at, e)
  <2>1. mem' = w BY <1>5 DEF Assigned, c
  <2>2. e \in Cells /\ e.p = Top.buf
    <3> QED BY <1>2
  <2> HIDE DEF e
  <2>3. Heap(w, used, {}, dropped)
    <3>1. {Top.buf} \ {Null} = {Top.buf} BY <1>5
    <3>2. Heap(w, used, {Top.buf} \ {e.p}, dropped)
      BY <3>1, <2>2, <1>2, <1>3, HeapTake
    <3>3. {Top.buf} \ {e.p} = {} BY <2>2
    <3> QED BY <3>2, <3>3
  <2>4. Only(mem, w, Top) BY <2>2, <1>2, <1>3, OnlySame, OnlyPut
  <2> QED BY <2>1, <2>3, <2>4, <1>1, <1>3, <1>5, StepReturns
<1> QED BY <1>4, <1>5 DEF StringDone

LEMMA StringFailsKeeps ==
    ASSUME Innermost, StringFails
    PROVE  IInv'
BY StepFailsAtOnce DEF StringFails

\* What stands stays so when there is more memory.
LEMMA StillUpright ==
    ASSUME NEW m, NEW w, NEW act, Upright(m, act),
           ValidIn(w, act.at), act.buf # Null => act.buf \in DOMAIN w /\ w[act.buf] = m[act.buf],
           act.ptr # None => ValidIn(w, act.ptr) /\ Get(w, act.ptr).p = Get(m, act.ptr).p
    PROVE  Upright(w, act)
BY DEF Upright

LEMMA StringFailsInPauseKeeps ==
    ASSUME Innermost, StringFailsInPause
    PROVE  IInv'
<1> DEFINE t == [Top EXCEPT !.buf = Fresh]
           z == Zeroed(0)
           w == With(mem, Fresh, z)
           g == <<t>> \o frames
<1>1. /\ Top.fn = "string" /\ Top.buf = Null /\ mem' = w /\ used' = Fresh
      /\ dropped' = dropped /\ frames' = g /\ phase' = "unwinding"
      /\ calls' = calls /\ root' = root /\ claimed' = claimed /\ fault' = fault
  BY DEF StringFailsInPause, In, Inside, Allocate
<1>2. /\ Active(mem, used, dropped, calls, frames) /\ calls # <<>> /\ Top = calls[1]
      /\ Top \in ParserType /\ IsMemory(mem) /\ dropped \in BOOLEAN
      /\ Heap(mem, used, {Top.buf} \ {Null}, dropped)
      /\ used \in Nat \ {0} /\ Fresh = used + 1 /\ Fresh \notin DOMAIN mem
  BY InnermostFacts
<1>3. /\ calls \in Seq(ParserType) /\ frames \in Seq(ParserType)
      /\ Unwound(mem, calls, frames)
  <2>1. Broken(mem, used, dropped, calls, frames) BY <1>2, Breaks
  <2> QED BY <2>1 DEF Broken
<1>4. /\ \A k \in 2 .. Len(calls) : calls[k].buf = Null
      /\ \A k \in 1 .. Len(frames) : frames[k].buf = Null
      /\ Len(calls) \in Nat \ {0} /\ Len(frames) \in Nat
  BY <1>2, OuterFacts
<1>5. t \in ParserType /\ t.buf = Fresh /\ t.fn = "string"
  <2>1. Fresh \in Nat BY <1>2
  <2> QED BY <2>1, <1>1, <1>2 DEF ParserType
<1>6. z = Zeroed(0) /\ z \in Seq(Cells) BY ZeroedFacts
<1> HIDE DEF t, z
<1>7. Heap(w, Fresh, {Fresh}, dropped)
  <2>1. {Top.buf} \ {Null} = {} /\ {} \cup {used + 1} = {Fresh} BY <1>1, <1>2
  <2> QED BY <2>1, <1>2, <1>6, HeapNew, SMTT(60)
<1>8. IsMemory(w) /\ \A b \in DOMAIN mem : b \in DOMAIN w /\ w[b] = mem[b]
  <2>1. IsWith(w, mem, Fresh, z) BY <1>2, <1>6, WithFacts
  <2> HIDE DEF w
  <2> QED BY <2>1, <1>2 DEF IsWith
<1> HIDE DEF w
<1>9. /\ g \in Seq(ParserType) /\ Len(g) = Len(frames) + 1 /\ g[1] = t
      /\ \A k \in 1 .. Len(frames) : g[k + 1] = frames[k]
  BY <1>3, <1>5
<1> HIDE DEF g
<1>10. DOMAIN calls = 1 .. Len(calls) /\ DOMAIN g = 1 .. Len(g) /\ DOMAIN frames = 1 .. Len(frames)
  BY <1>3, <1>9
<1>11. ASSUME NEW k \in DOMAIN g, k # 1
       PROVE  k - 1 \in DOMAIN frames /\ g[k] = frames[k - 1] /\ g[k].buf = Null
  <2> DEFINE j == k - 1
  <2>1. j \in 1 .. Len(frames) /\ j + 1 = k BY <1>4, <1>9, <1>10, <1>11
  <2> HIDE DEF j
  <2>2. g[k] = frames[j] BY <2>1, <1>9
  <2> QED BY <2>1, <2>2, <1>4, <1>10 DEF j
<1>12. \A k \in DOMAIN calls : calls[k].buf = Null
  <2> SUFFICES ASSUME NEW k \in DOMAIN calls PROVE calls[k].buf = Null OBVIOUS
  <2>1. k = 1 \/ k \in 2 .. Len(calls) BY <1>4, <1>10
  <2> QED BY <2>1, <1>1, <1>2, <1>4
<1>13. OneHolder(calls, g)
  <2>1. \A k \in DOMAIN g : k > 1 => g[k].buf = Null BY <1>10, <1>11
  <2>2. 1 \in DOMAIN calls BY <1>4, <1>10
  <2> QED BY <2>1, <2>2, <1>12 DEF OneHolder
<1>14. Held(calls, g) = {Fresh}
  <2>1. \A k \in DOMAIN g : k = 1 \/ g[k].buf = Null BY <1>11
  <2>2. 1 \in DOMAIN g /\ g[1].buf = Fresh BY <1>4, <1>5, <1>9, <1>10
  <2>3. Fresh # Null BY <1>2 DEF Null
  <2> QED BY <2>1, <2>2, <2>3, <1>12 DEF Held
<1>15. ASSUME NEW k \in DOMAIN calls PROVE Upright(w, calls[k])
  <2>1. Upright(mem, calls[k]) BY <1>3 DEF Unwound
  <2>2. ValidIn(w, calls[k].at) BY <2>1, <1>8 DEF Upright, ValidIn
  <2>3. calls[k].ptr # None =>
           ValidIn(w, calls[k].ptr) /\ Get(w, calls[k].ptr).p = Get(mem, calls[k].ptr).p
    BY <2>1, <1>8 DEF Upright, ValidIn, Get
  <2> QED BY <2>1, <2>2, <2>3, <1>12, StillUpright
<1>16. ASSUME NEW j \in DOMAIN g, g[j].fn # "string"
       PROVE  /\ ValidIn(w, g[j].at)
              /\ \A i \in DOMAIN calls : g[j].at[1] <= Home(calls[i])
  <2>1. j # 1 BY <1>5, <1>9, <1>16
  <2>2. j - 1 \in DOMAIN frames /\ g[j] = frames[j - 1] BY <2>1, <1>11
  <2>3. /\ ValidIn(mem, g[j].at)
        /\ \A i \in DOMAIN calls : g[j].at[1] <= Home(calls[i])
    BY <2>2, <1>3, <1>16 DEF Unwound
  <2>4. ValidIn(w, g[j].at) BY <2>3, <1>8 DEF ValidIn
  <2> QED BY <2>3, <2>4
<1>17. Unwound(w, calls, g) BY <1>3, <1>15, <1>16 DEF Unwound
<1>18. Broken(w, Fresh, dropped, calls, g)
  BY <1>2, <1>3, <1>7, <1>9, <1>13, <1>14, <1>17 DEF Broken
<1>19. root \in RootTypes /\ claimed \in BOOLEAN /\ fault \in BOOLEAN
  BY DEF Innermost, IInv
<1> QED BY <1>1, <1>2, <1>18, <1>19 DEF IInv, Phases

-----------------------------------------------------------------------------
(***************************************************************************)
(* Arrays.                                                                 *)
(***************************************************************************)
LEMMA ArrayFacts ==
    ASSUME Innermost, Top.fn = "array"
    PROVE  /\ Top.at \in Addresses /\ ValidIn(mem, Top.at) /\ Owns(mem, Top, Top.at)
           /\ Get(mem, Top.at) \in Cells /\ Get(mem, Top.at) = At(Top.at)
           /\ Top.at[1] \in Nat /\ Top.at[2] \in Nat /\ Base(Top) = 1
           /\ Top.buf = Null /\ Top.ptr = None /\ Home(Top) = Top.at[1]
           /\ Top.len \in Nat /\ Top.cap \in Nat \ {0}
           /\ Top.type \in Types /\ Element[Top.type] \in Types
           /\ Unit(Top) = Width(Element[Top.type]) /\ Unit(Top) \in Nat \ {0}
           /\ Block(mem, Top) = At(Top.at).p
           /\ Heap(mem, used, {}, dropped)
           /\ Top.st = "open" => ~HasBlock(mem, Top) /\ Top.len = 0 /\ At(Top.at).p <= 0
           /\ Top.st # "open" => LET b == At(Top.at).p IN
                 /\ HasBlock(mem, Top) /\ b \in Nat /\ b > Top.at[1] /\ b \in DOMAIN mem
                 /\ Top.len > 0 /\ Top.len <= Top.cap
                 /\ Len(mem[b]) = Top.cap * Unit(Top)
                 /\ \A i \in Top.len * Unit(Top) + 1 .. Len(mem[b]) : mem[b][i] = Cleared
<1>1. /\ Fit(mem, Top) /\ Top \in ParserType /\ IsMemory(mem)
      /\ Heap(mem, used, {Top.buf} \ {Null}, dropped)
  BY InnermostFacts
<1>2. Top.buf = Null /\ Top.ptr = None
  BY <1>1 DEF Fit, FitString, FitPtr
<1>3. ValidIn(mem, Top.at) /\ Owns(mem, Top, Top.at) BY <1>1, BaseFacts DEF Fit
<1>4. Get(mem, Top.at) \in Cells BY <1>1, <1>3, MemoryFacts DEF Get, ValidIn
<1>5. Get(mem, Top.at) = At(Top.at) BY DEF Get, At
<1>6. /\ Top.at \in Addresses /\ Top.at[1] \in Nat /\ Top.at[2] \in Nat
      /\ Top.type \in Types /\ Top.len \in Nat /\ Top.cap \in Nat /\ Unit(Top) \in Nat \ {0}
  BY <1>1, ParserFacts
<1>7. Element[Top.type] \in Types BY <1>6, TypeFacts
<1>8. Base(Top) = 1 /\ Unit(Top) = Width(Element[Top.type]) /\ Anchor(Top) = Top.at
  BY DEF Base, Unit, Anchor
<1>9. Top.cap > 0 /\ (Top.st # "open" => Top.len > 0) BY <1>1 DEF Fit, FitArray
<1>10. /\ Block(mem, Top) = At(Top.at).p /\ Count(mem, Top) = Top.len
       /\ Room(mem, Top) = Top.cap
  BY <1>5, <1>8 DEF Block, Count, Room
<1>11. HasBlock(mem, Top) <=> Top.st # "open" BY DEF HasBlock
<1>12. Heap(mem, used, {}, dropped)
  <2>1. {Top.buf} \ {Null} = {} BY <1>2
  <2> QED BY <2>1, <1>1
<1>13. Home(Top) = Top.at[1] BY <1>2 DEF Home
<1>14. Top.st = "open" => ~HasBlock(mem, Top) /\ Top.len = 0 /\ At(Top.at).p <= 0
  BY <1>1, <1>10, <1>11 DEF Fit, FitBlock
<1> DEFINE b == At(Top.at).p
<1> HIDE DEF b
<1>15. ASSUME Top.st # "open"
       PROVE  /\ HasBlock(mem, Top) /\ b \in Nat /\ b > Top.at[1] /\ b \in DOMAIN mem
              /\ Top.len > 0 /\ Top.len <= Top.cap
              /\ Len(mem[b]) = Top.cap * Unit(Top)
              /\ \A i \in Top.len * Unit(Top) + 1 .. Len(mem[b]) : mem[b][i] = Cleared
  <2>1. HasBlock(mem, Top) /\ Block(mem, Top) = b BY <1>10, <1>11, <1>15 DEF b
  <2>2. b \in Nat BY <2>1, <1>1, BlockFacts
  <2>3. /\ b > Top.at[1] /\ b \in DOMAIN mem /\ Top.len <= Top.cap
        /\ Len(mem[b]) = Top.cap * Unit(Top)
        /\ \A i \in Top.len * Unit(Top) + 1 .. Len(mem[b]) : mem[b][i] = Cleared
    BY <2>1, <1>1, <1>10 DEF Fit, FitBlock
  <2> QED BY <2>1, <2>2, <2>3, <1>9, <1>15
<1> QED BY <1>2, <1>3, <1>4, <1>5, <1>6, <1>7, <1>8, <1>9, <1>10, <1>12, <1>13, <1>14, <1>15 DEF b

\* The array has n elements in a block b with room for k, the last still clear.
LEMMA ArrayCalls ==
    ASSUME Innermost, Top.fn = "array", NEW b \in Nat, NEW n \in Nat, NEW k \in Nat,
           0 < n, n <= k, NEW act,
           act = [Top EXCEPT !.st = "element", !.len = n, !.cap = k],
           Call(act, Element[Top.type], ElementAt(Top.type, b, n)),
           dropped' \in BOOLEAN, Heap(mem', used', {}, dropped'), Only(mem, mem', Top),
           ValidIn(mem', Top.at), Get(mem', Top.at).p = b, b > Top.at[1],
           b \in DOMAIN mem', Len(mem'[b]) = k * Unit(Top),
           \A i \in (n - 1) * Unit(Top) + 1 .. Len(mem'[b]) : mem'[b][i] = Cleared,
           (b = Block(mem, Top) /\ HasBlock(mem, Top) /\ mem' = mem) \/ b \notin DOMAIN mem
    PROVE  IInv'
<1> DEFINE w == mem'
           U == Unit(Top)
           t == Element[Top.type]
           a == ElementAt(Top.type, b, n)
<1>1. /\ Top \in ParserType /\ Top.type \in Types /\ t \in Types /\ U = Width(t)
      /\ U \in Nat \ {0} /\ Top.buf = Null /\ Top.ptr = None
      /\ Top.at \in Addresses /\ Home(Top) = Top.at[1] /\ Top.at[1] \in Nat /\ Top.at[2] \in Nat
      /\ Owns(mem, Top, Top.at)
  BY ArrayFacts, InnermostFacts
<1>2. IsMemory(w) BY HeapFacts
<1>3. "element" \in ParserStates BY DEF ParserStates
<1>4. /\ act \in ParserType /\ act.fn = "array" /\ act.st = "element" /\ act.len = n
      /\ act.cap = k /\ act.at = Top.at /\ act.type = Top.type /\ act.buf = Null
      /\ act.ptr = None
  BY <1>1, <1>3 DEF ParserType
<1>5. /\ Anchor(act) = Top.at /\ Unit(act) = U /\ Base(act) = 1
  BY <1>4 DEF Anchor, Unit, Base
<1>6. Block(w, act) = b /\ Count(w, act) = n /\ Room(w, act) = k /\ HasBlock(w, act)
  BY <1>4, <1>5 DEF Block, Count, Room, HasBlock
<1>7. /\ n * U \in Nat /\ (n - 1) * U \in Nat /\ (n - 1) * U + U = n * U
      /\ n * U <= k * U /\ k * U \in Nat
  BY <1>1, Times
<1> DEFINE nu == n * U
           pu == (n - 1) * U
           ku == k * U
<1> HIDE DEF w, U, t, nu, pu, ku
<1>8. Len(w[b]) = ku /\ \A i \in pu + 1 .. ku : w[b][i] = Cleared
  BY DEF w, pu, ku, U
<1>9. nu \in Nat /\ pu \in Nat /\ pu + U = nu /\ nu <= ku /\ ku \in Nat
  BY <1>7 DEF nu, pu, ku
<1>10. a = Address(b, pu + 1)
  <2>1. a = Address(b, (n - 1) * Width(t) + 1) BY DEF ElementAt, t
  <2>2. pu = (n - 1) * Width(t) BY <1>1 DEF pu
  <2> HIDE DEF a
  <2> QED BY <2>1, <2>2, Zenon
<1> HIDE DEF a
<1>11. a \in Addresses /\ a[1] = b /\ a[2] = pu + 1
  <2>1. pu + 1 \in Nat BY <1>9
  <2> QED BY <2>1, <1>10, AddressFacts
<1>12. DOMAIN w[b] = 1 .. ku BY <1>2, <1>8, MemoryFacts DEF w
<1>13. Fit(w, act)
  <2>1. act.st \in StatesOf(act.fn) BY <1>4 DEF StatesOf
  <2>2. \A i \in act.at[2] .. act.at[2] + Base(act) - 1 : ValidIn(w, Address(act.at[1], i))
    <3>1. \A i \in act.at[2] .. act.at[2] + Base(act) - 1 : i = Top.at[2]
      BY <1>1, <1>4, <1>5
    <3>2. Top.at = Address(Top.at[1], Top.at[2]) BY <1>1, AddressIs
    <3> QED BY <3>1, <3>2, <1>4 DEF w
  <2>3. FitBase(w, act) BY <2>1, <2>2, <1>4 DEF FitBase
  <2>4. FitBlock(w, act)
    <3>1. \A i \in n * U + 1 .. Len(w[b]) : w[b][i] = Cleared
      <4>1. \A i \in nu + 1 .. ku : i \in pu + 1 .. ku BY <1>1, <1>9, SMTT(60)
      <4> QED BY <4>1, <1>8 DEF nu
    <3>2. Len(w[b]) = k * U BY <1>8 DEF ku
    <3>3. b \in DOMAIN w BY DEF w
    <3>4. k > 0 OBVIOUS
    <3> QED BY <3>1, <3>2, <3>3, <3>4, <1>4, <1>5, <1>6 DEF FitBlock
  <2>5. FitArray(w, act)
    <3>1. k > 0 OBVIOUS
    <3> QED BY <3>1, <1>4 DEF FitArray
  <2> QED BY <2>3, <2>4, <2>5, <1>4 DEF Fit, FitString, FitPtr, FitMembers
<1>14. Waiting(act) BY <1>4 DEF Waiting
<1>15. a = SlotAt(w, act) /\ Width(t) = SlotWidth(act)
  BY <1>1, <1>4, <1>5, <1>6 DEF SlotAt, SlotWidth, a
<1>16. ASSUME NEW i \in a[2] .. a[2] + Width(t) - 1
       PROVE  Get(w, Address(a[1], i)) = Cleared
  <2>1. i \in pu + 1 .. ku /\ i \in Nat BY <1>1, <1>9, <1>11, SMTT(60)
  <2>2. Address(a[1], i)[1] = b /\ Address(a[1], i)[2] = i BY <2>1, <1>11, AddressFacts
  <2> QED BY <2>1, <2>2, <1>8 DEF Get
<1>17. Home(act) >= Home(Top) BY <1>1, <1>4 DEF Home
<1>18. ASSUME NEW x \in Addresses, Owns(w, act, x)
       PROVE  Owns(mem, Top, x) \/ x[1] \notin DOMAIN mem
  <2>1. InBase(act, x) \/ x[1] = b
    BY <1>4, <1>6, <1>18, AddressIs DEF Owns
  <2>2. CASE InBase(act, x)
    <3>1. InBase(Top, x) BY <2>2, <1>4, <1>5, ArrayFacts DEF InBase
    <3> QED BY <3>1, InnermostFacts, BaseFacts DEF Fit
  <2>3. CASE x[1] = b /\ b \in DOMAIN mem
    <3>1. HasBlock(mem, Top) /\ x[1] = Block(mem, Top) /\ w = mem BY <2>3 DEF w
    <3>2. ValidIn(mem, x) BY <3>1, <1>18 DEF Owns
    <3> QED BY <3>1, <3>2 DEF Owns
  <2> QED BY <2>1, <2>2, <2>3
<1> QED
  BY <1>1, <1>11, <1>13, <1>14, <1>15, <1>16, <1>17, <1>18, StepCalls DEF a, w, t

\* A block is allocated for the pointer in a cell of the innermost parser.
LEMMA Allocated ==
    ASSUME Innermost, Heap(mem, used, {}, dropped),
           NEW a \in Addresses, ValidIn(mem, a), Owns(mem, Top, a), Get(mem, a).p <= 0,
           NEW c \in Cells, c.p = Fresh, NEW n \in Nat,
           mem' = With(Put(mem, a, c), Fresh, Zeroed(n))
    PROVE  /\ IsMemory(mem') /\ Heap(mem', Fresh, {}, dropped) /\ Only(mem, mem', Top)
           /\ Get(mem', a) = c /\ ValidIn(mem', a) /\ Fresh \in DOMAIN mem'
           /\ Len(mem'[Fresh]) = n /\ \A i \in 1 .. n : mem'[Fresh][i] = Cleared
<1> DEFINE z == Zeroed(n)
           v == With(mem, Fresh, z)
           w == Put(v, a, c)
<1>1. /\ IsMemory(mem) /\ Fresh = used + 1 /\ used \in Nat /\ Fresh \notin DOMAIN mem
  BY InnermostFacts
<1>2. /\ z \in Seq(Cells) /\ Len(z) = n /\ DOMAIN z = 1 .. n /\ z = Zeroed(n)
      /\ \A i \in 1 .. n : z[i] = Cleared
  BY ZeroedFacts
<1> HIDE DEF z
<1>3. mem' = w BY <1>1, <1>2, PutWith
<1>4. Heap(v, Fresh, {Fresh}, dropped)
  <2>1. {} \cup {used + 1} = {Fresh} BY <1>1
  <2> QED BY <2>1, <1>1, <1>2, HeapNew
<1>5. Only(mem, v, Top) BY <1>1, <1>2, OnlySame, OnlyWith
<1>6. IsWith(v, mem, Fresh, z) BY <1>1, <1>2, WithFacts
<1> HIDE DEF v
<1>7. a[1] \in DOMAIN mem /\ a[1] # Fresh BY <1>1 DEF ValidIn
<1>8. /\ IsMemory(v) /\ ValidIn(v, a) /\ Get(v, a) = Get(mem, a)
      /\ v[Fresh] = z /\ Fresh \in DOMAIN v
  BY <1>6, <1>7 DEF IsWith, ValidIn, Get
<1>9. Heap(w, Fresh, {}, dropped)
  <2>1. Heap(w, Fresh, {Fresh} \ {c.p}, dropped) BY <1>4, <1>8, HeapTake
  <2>2. {Fresh} \ {c.p} = {} OBVIOUS
  <2> QED BY <2>1, <2>2
<1>10. Only(mem, w, Top) BY <1>1, <1>5, <1>8, OnlyPut
<1>11. IsMemory(w) /\ Get(w, a) = c /\ ValidIn(w, a) BY <1>8, PutGet
<1>12. Fresh \in DOMAIN w /\ w[Fresh] = z BY <1>7, <1>8, PutFacts
<1> HIDE DEF w
<1> QED BY <1>2, <1>3, <1>9, <1>10, <1>11, <1>12

\* The memory stays, and the innermost parser governs what it did.
LEMMA GoesOnInPlace ==
    ASSUME Innermost, NEW t, GoOn(t), KeepMemory, t \in ParserType, Fit(mem, t),
           t.fn = Top.fn, t.type = Top.type, t.at = Top.at, t.ptr = Top.ptr,
           t.buf = Top.buf, HasBlock(mem, t) <=> HasBlock(mem, Top)
    PROVE  IInv'
<1>1. mem' = mem /\ used' = used /\ dropped' = dropped BY DEF KeepMemory
<1>2. /\ Heap(mem, used, {Top.buf} \ {Null}, dropped) /\ dropped \in BOOLEAN
      /\ Fit(mem, Top)
  BY InnermostFacts
<1>3. Only(mem, mem, Top) BY OnlySame
<1>4. Base(t) = Base(Top) /\ Block(mem, t) = Block(mem, Top)
  BY DEF Base, Block, Anchor
<1>5. \A a \in Addresses : Owns(mem, t, a) => Owns(mem, Top, a)
  BY <1>4 DEF Owns, InBase
<1>6. Home(t) = Home(Top) /\ Home(Top) \in Nat
  BY <1>2, HomeFacts DEF Home
<1>7. Home(t) >= Home(Top) BY <1>6
<1> QED BY <1>1, <1>2, <1>3, <1>5, <1>7, StepGoesOn

StoredCell(x, p, len, cap) == [x EXCEPT !.p = p, !.len = len, !.cap = cap]

\* The cell of an array that is written back.
LEMMA StoredFacts ==
    ASSUME NEW x \in Cells, NEW p \in Int, NEW len \in Nat, NEW cap \in Nat
    PROVE  /\ StoredCell(x, p, len, cap) \in Cells
           /\ StoredCell(x, p, len, cap).p = p
BY DEF Cells, StoredCell

LEMMA ArrayEmptyKeeps ==
    ASSUME Innermost, ArrayEmpty
    PROVE  IInv'
<1> DEFINE c == StoredCell(At(Top.at), ZeroLengthPtr, 0, 0)
           w == Put(mem, Top.at, c)
<1>1. /\ Top.fn = "array" /\ Top.st = "open" /\ Return /\ mem' = w /\ used' = used
      /\ dropped' = dropped
  BY DEF ArrayEmpty, In, Inside, Stored, StoredCell
<1>2. At(Top.at) \in Cells /\ Get(mem, Top.at).p <= 0 /\ Heap(mem, used, {}, dropped)
      /\ Top.at \in Addresses /\ ValidIn(mem, Top.at) /\ Owns(mem, Top, Top.at)
  BY <1>1, ArrayFacts
<1>3. c \in Cells /\ c.p = ZeroLengthPtr
  <2>1. ZeroLengthPtr \in Int /\ 0 \in Nat BY DEF ZeroLengthPtr
  <2> QED BY <2>1, <1>2, StoredFacts
<1> HIDE DEF c
<1>4. IsMemory(mem) /\ dropped \in BOOLEAN BY InnermostFacts
<1>5. Heap(w, used, {}, dropped) BY <1>2, <1>3, HeapPut
<1>6. Only(mem, w, Top) BY <1>2, <1>3, <1>4, OnlySame, OnlyPut
<1> QED BY <1>1, <1>4, <1>5, <1>6, StepReturns

LEMMA ArrayDoneKeeps ==
    ASSUME Innermost, ArrayDone
    PROVE  IInv'
<1> DEFINE c == StoredCell(At(Top.at), At(Top.at).p, Top.len, Top.cap)
           w == Put(mem, Top.at, c)
<1>1. /\ Top.fn = "array" /\ Return /\ mem' = w /\ used' = used /\ dropped' = dropped
  BY DEF ArrayDone, In, Inside, Stored, StoredCell
<1>2. At(Top.at) \in Cells /\ Heap(mem, used, {}, dropped) /\ Get(mem, Top.at) = At(Top.at)
      /\ Top.at \in Addresses /\ ValidIn(mem, Top.at) /\ Owns(mem, Top, Top.at)
      /\ Top.len \in Nat /\ Top.cap \in Nat
  BY <1>1, ArrayFacts
<1>3. c \in Cells /\ c.p = At(Top.at).p
  <2>1. At(Top.at).p \in Int BY <1>2, CellType
  <2> QED BY <2>1, <1>2, StoredFacts, ZenonT(60)
<1> HIDE DEF c
<1>4. IsMemory(mem) /\ dropped \in BOOLEAN BY InnermostFacts
<1>5. Heap(w, used, {}, dropped) BY <1>2, <1>3, HeapPut
<1>6. Only(mem, w, Top) BY <1>2, <1>3, <1>4, OnlySame, OnlyPut
<1> QED BY <1>1, <1>4, <1>5, <1>6, StepReturns

LEMMA ArrayFirstKeeps ==
    ASSUME Innermost, ArrayFirst
    PROVE  IInv'
<1> DEFINE x == At(Top.at)
           c == [x EXCEPT !.p = Fresh]
           n == Top.cap * Width(Element[Top.type])
           act == [Top EXCEPT !.st = "element", !.len = 1]
<1>1. /\ Top.fn = "array" /\ Top.st = "open" /\ used' = Fresh /\ dropped' = dropped
      /\ mem' = With(Put(mem, Top.at, c), Fresh, Zeroed(n))
      /\ Call(act, Element[Top.type], ElementAt(Top.type, Fresh, 1))
  BY DEF ArrayFirst, In, Inside, Allocate, Pointer
<1>2. /\ x \in Cells /\ Heap(mem, used, {}, dropped) /\ Get(mem, Top.at) = x
      /\ Get(mem, Top.at).p <= 0
      /\ Top.at \in Addresses /\ ValidIn(mem, Top.at) /\ Owns(mem, Top, Top.at)
      /\ Top.cap \in Nat \ {0} /\ Unit(Top) = Width(Element[Top.type])
      /\ Unit(Top) \in Nat \ {0}
  BY <1>1, ArrayFacts
<1>3. /\ Fresh \in Nat /\ Fresh \notin DOMAIN mem /\ Top \in ParserType
      /\ dropped \in BOOLEAN /\ \A b \in DOMAIN mem : b \in Nat /\ b < Fresh
  <2>1. Fresh \in Nat BY InnermostFacts
  <2> QED BY <2>1, InnermostFacts
<1> HIDE DEF x
<1>4. c \in Cells /\ c.p = Fresh
  <2>1. Fresh \in Int BY <1>3
  <2> QED BY <2>1, <1>2, CellWith
<1>5. n \in Nat /\ n = Top.cap * Unit(Top) BY <1>2, Times
<1> HIDE DEF c, n
<1>6. /\ Heap(mem', Fresh, {}, dropped) /\ Only(mem, mem', Top)
      /\ Get(mem', Top.at) = c /\ ValidIn(mem', Top.at) /\ Fresh \in DOMAIN mem'
      /\ Len(mem'[Fresh]) = n /\ \A i \in 1 .. n : mem'[Fresh][i] = Cleared
  BY <1>1, <1>2, <1>4, <1>5, Allocated
<1>7. act = [Top EXCEPT !.st = "element", !.len = 1, !.cap = Top.cap]
  BY <1>3 DEF ParserType
<1> HIDE DEF act
<1>8. \A i \in (1 - 1) * Unit(Top) + 1 .. Len(mem'[Fresh]) : mem'[Fresh][i] = Cleared
  <2>1. (1 - 1) * Unit(Top) + 1 = 1 BY <1>2
  <2> QED BY <2>1, <1>6
<1>9. 1 \in Nat /\ 0 < 1 /\ 1 <= Top.cap /\ Top.cap \in Nat BY <1>2
<1>10. Fresh > Top.at[1] BY <1>2, <1>3 DEF ValidIn
<1> QED
  BY <1>1, <1>3, <1>4, <1>5, <1>6, <1>7, <1>8, <1>9, <1>10, ArrayCalls

LEMMA ArrayCommaKeeps ==
    ASSUME Innermost, ArrayComma
    PROVE  IInv'
<1> DEFINE t == [Top EXCEPT !.st = "comma"]
<1>1. Top.fn = "array" /\ Top.st = "element" /\ GoOn(t) /\ KeepMemory
  BY DEF ArrayComma, In, Inside
<1>2. Top \in ParserType /\ Fit(mem, Top) BY InnermostFacts
<1>3. "comma" \in ParserStates BY DEF ParserStates
<1>4. /\ t \in ParserType /\ t.fn = "array" /\ t.st = "comma" /\ t.len = Top.len
      /\ t.cap = Top.cap /\ t.at = Top.at /\ t.type = Top.type /\ t.buf = Top.buf
      /\ t.ptr = Top.ptr
  BY <1>1, <1>2, <1>3 DEF ParserType
<1> HIDE DEF t
<1>5. /\ Base(t) = Base(Top) /\ Block(mem, t) = Block(mem, Top)
      /\ Count(mem, t) = Count(mem, Top) /\ Room(mem, t) = Room(mem, Top)
      /\ Unit(t) = Unit(Top) /\ HasBlock(mem, t) /\ HasBlock(mem, Top)
  BY <1>1, <1>4 DEF Base, Block, Count, Room, Unit, HasBlock, Anchor
<1>6. Fit(mem, t)
  <2>1. t.st \in StatesOf(t.fn) BY <1>4 DEF StatesOf
  <2>2. FitBase(mem, t) BY <2>1, <1>1, <1>2, <1>4, <1>5 DEF Fit, FitBase
  <2>3. FitString(mem, t) BY <1>1, <1>2, <1>4 DEF Fit, FitString
  <2>4. FitBlock(mem, t) BY <1>1, <1>2, <1>4, <1>5 DEF Fit, FitBlock
  <2>5. FitArray(mem, t) BY <1>1, <1>2, <1>4 DEF Fit, FitArray
  <2>6. FitPtr(mem, t) BY <1>1, <1>2, <1>4 DEF Fit, FitPtr
  <2> QED BY <2>2, <2>3, <2>4, <2>5, <2>6, <1>4 DEF Fit, FitMembers
<1> QED BY <1>1, <1>4, <1>5, <1>6, GoesOnInPlace

LEMMA ArrayNextKeeps ==
    ASSUME Innermost, ArrayNext
    PROVE  IInv'
<1> DEFINE act == [Top EXCEPT !.st = "element", !.len = @ + 1]
           b == At(Top.at).p
           n == Top.len + 1
<1>1. /\ Top.fn = "array" /\ Top.st = "comma" /\ Top.len < Top.cap
      /\ Call(act, Element[Top.type], ElementAt(Top.type, b, n))
      /\ mem' = mem /\ used' = used /\ dropped' = dropped
  BY DEF ArrayNext, In, Inside, KeepMemory
<1>2. /\ Heap(mem, used, {}, dropped) /\ Get(mem, Top.at).p = b
      /\ ValidIn(mem, Top.at) /\ Block(mem, Top) = b
      /\ Top.cap \in Nat \ {0} /\ Top.len \in Nat
      /\ Unit(Top) \in Nat \ {0}
  BY <1>1, ArrayFacts
<1>3. /\ HasBlock(mem, Top) /\ b \in Nat /\ b > Top.at[1] /\ b \in DOMAIN mem
      /\ Top.len > 0 /\ Len(mem[b]) = Top.cap * Unit(Top)
      /\ \A i \in Top.len * Unit(Top) + 1 .. Len(mem[b]) : mem[b][i] = Cleared
  BY <1>1, ArrayFacts
<1>4. Top \in ParserType /\ dropped \in BOOLEAN BY InnermostFacts
<1>5. act = [Top EXCEPT !.st = "element", !.len = n, !.cap = Top.cap]
  BY <1>4 DEF ParserType
<1>6. n \in Nat /\ 0 < n /\ n <= Top.cap /\ n - 1 = Top.len /\ Top.cap \in Nat
  BY <1>1, <1>2
<1> HIDE DEF act, b, n
<1>7. \A i \in (n - 1) * Unit(Top) + 1 .. Len(mem[b]) : mem[b][i] = Cleared
  BY <1>3, <1>6
<1>8. Only(mem, mem, Top) BY OnlySame
<1> QED
  BY <1>1, <1>2, <1>3, <1>4, <1>5, <1>6, <1>7, <1>8, ArrayCalls

LEMMA ArrayGrowKeeps ==
    ASSUME Innermost, ArrayGrow
    PROVE  IInv'
<1> DEFINE x == At(Top.at)
           b == x.p
           act == [Top EXCEPT !.st = "element", !.len = @ + 1, !.cap = 2 * @]
           c == [x EXCEPT !.p = Null]
           e == [x EXCEPT !.p = Fresh]
           L == Len(mem[b])
           q == Put(mem, Top.at, c)
           r == Moved(q, b, Fresh, 2 * L)
           w == Put(r, Top.at, e)
           n == Top.len + 1
           k == 2 * Top.cap
<1>1. /\ Top.fn = "array" /\ Top.st = "comma" /\ Top.len = Top.cap
      /\ Call(act, Element[Top.type], ElementAt(Top.type, Fresh, n))
      /\ mem' = Moved(Put(mem, Top.at, e), b, Fresh, 2 * L)
      /\ used' = Fresh /\ dropped' = dropped
  BY DEF ArrayGrow, In, Inside, Pointer
<1>2. /\ x \in Cells /\ Heap(mem, used, {}, dropped) /\ Get(mem, Top.at) = x
      /\ Top.at \in Addresses /\ ValidIn(mem, Top.at) /\ Owns(mem, Top, Top.at)
      /\ Top.cap \in Nat \ {0} /\ Top.len \in Nat
      /\ Unit(Top) \in Nat \ {0} /\ Block(mem, Top) = b
  BY <1>1, ArrayFacts
<1>3. /\ HasBlock(mem, Top) /\ b \in Nat /\ b > Top.at[1] /\ b \in DOMAIN mem
      /\ Len(mem[b]) = Top.cap * Unit(Top)
  BY <1>1, ArrayFacts
<1>4. /\ IsMemory(mem) /\ Fresh = used + 1 /\ used \in Nat /\ Fresh \notin DOMAIN mem
      /\ Top \in ParserType /\ dropped \in BOOLEAN
      /\ \A y \in DOMAIN mem : y \in Nat /\ y < Fresh
  BY InnermostFacts
<1>5. Fresh \in Nat BY <1>4
<1> HIDE DEF x
<1>6. c \in Cells /\ c.p = Null /\ e \in Cells /\ e.p = Fresh
  <2>1. Fresh \in Int /\ Null \in Int BY <1>5 DEF Null
  <2> QED BY <2>1, <1>2, CellWith
<1>7. L \in Nat /\ 2 * L \in Nat /\ L <= 2 * L
  <2>1. L \in Nat BY <1>3, <1>4, MemoryFacts
  <2> QED BY <2>1
<1>8. L = Top.cap * Unit(Top) BY <1>3
<1>9. Top.at[1] # b /\ Top.at[1] \in Nat BY <1>2, <1>3, AddressIs
<1> HIDE DEF c, e, b, L
<1>10. mem' = w BY <1>1, <1>2, <1>3, <1>4, <1>6, <1>7, <1>9, PutMoved, SMTT(60) DEF L
<1>11. Heap(q, used, {b}, dropped)
  <2>1. Get(mem, Top.at).p > 0 /\ Get(mem, Top.at).p = b BY <1>2, <1>3, <1>9 DEF b
  <2>2. Heap(q, used, {} \cup {Get(mem, Top.at).p}, dropped)
    BY <2>1, <1>2, <1>6, HeapGive
  <2>3. {} \cup {Get(mem, Top.at).p} = {b} BY <2>1
  <2> QED BY <2>2, <2>3
<1>12. /\ IsMemory(q) /\ ValidIn(q, Top.at) /\ Get(q, Top.at) = c
  BY <1>2, <1>4, <1>6, PutGet
<1>13. /\ q[b] = mem[b] /\ b \in DOMAIN q /\ Len(q[b]) = L /\ Fresh \notin DOMAIN q
  BY <1>2, <1>3, <1>4, <1>6, <1>9, PutFacts DEF L
<1>14. Only(mem, q, Top) BY <1>2, <1>4, <1>6, OnlySame, OnlyPut
<1> HIDE DEF q
<1>15. Heap(r, Fresh, {Fresh}, dropped)
  <2>1. b \in {b} /\ ({b} \ {b}) \cup {used + 1} = {Fresh} BY <1>4
  <2>2. Heap(Moved(q, b, used + 1, 2 * L), used + 1, ({b} \ {b}) \cup {used + 1}, dropped)
    BY <2>1, <1>7, <1>11, <1>13, HeapMoved
  <2> QED BY <2>1, <2>2, <1>4
<1>16. Only(mem, r, Top)
  BY <1>2, <1>3, <1>4, <1>7, <1>12, <1>13, <1>14, OnlyMoved
<1>17. IsMoved(r, q, b, Fresh, 2 * L)
  BY <1>7, <1>12, <1>13, MovedFacts
<1> HIDE DEF r
<1>18. ValidIn(r, Top.at) /\ Get(r, Top.at) = c
  <2>1. Top.at[1] \in DOMAIN q \ {b} /\ Top.at[2] \in DOMAIN q[Top.at[1]]
    BY <1>9, <1>12 DEF ValidIn
  <2>2. Top.at[1] \in DOMAIN r /\ r[Top.at[1]] = q[Top.at[1]]
    BY <2>1, <1>17 DEF IsMoved
  <2> QED BY <2>1, <2>2, <1>12 DEF ValidIn, Get
<1>19. /\ IsMemory(r) /\ Fresh \in DOMAIN r /\ Len(r[Fresh]) = 2 * L
       /\ \A i \in L + 1 .. 2 * L : r[Fresh][i] = Cleared
  BY <1>13, <1>17 DEF IsMoved
<1>20. Heap(w, Fresh, {}, dropped)
  <2>1. Get(r, Top.at).p <= 0 BY <1>6, <1>18 DEF Null
  <2>2. e.p \in {Fresh} /\ {Fresh} \ {e.p} = {} BY <1>6
  <2>3. Heap(w, Fresh, {Fresh} \ {e.p}, dropped)
    BY <2>1, <2>2, <1>2, <1>6, <1>15, <1>18, HeapTake
  <2> QED BY <2>2, <2>3
<1>21. Only(mem, w, Top)
  BY <1>2, <1>4, <1>6, <1>16, <1>18, <1>19, OnlyPut
<1>22. ValidIn(w, Top.at) /\ Get(w, Top.at) = e
  BY <1>2, <1>6, <1>18, <1>19, PutGet
<1>23. Top.at[1] # Fresh BY <1>2, <1>4 DEF ValidIn
<1>24. Fresh \in DOMAIN w /\ w[Fresh] = r[Fresh]
  BY <1>2, <1>6, <1>18, <1>19, <1>23, PutFacts
<1> HIDE DEF w
<1>25. act = [Top EXCEPT !.st = "element", !.len = n, !.cap = k]
  BY <1>4 DEF ParserType
<1> HIDE DEF act
<1>26. n \in Nat /\ 0 < n /\ n <= k /\ n - 1 = Top.cap /\ k \in Nat
  BY <1>1, <1>2
<1>27. k * Unit(Top) = 2 * L BY <1>2, <1>8
<1> HIDE DEF n, k
<1>28. /\ Len(w[Fresh]) = k * Unit(Top)
       /\ \A i \in (n - 1) * Unit(Top) + 1 .. Len(w[Fresh]) : w[Fresh][i] = Cleared
  <2>1. (n - 1) * Unit(Top) = L BY <1>8, <1>26
  <2> QED BY <2>1, <1>19, <1>24, <1>27
<1>29. Fresh > Top.at[1] BY <1>2, <1>4 DEF ValidIn
<1> QED
  BY <1>1, <1>4, <1>5, <1>6, <1>10, <1>20, <1>21, <1>22, <1>24, <1>25, <1>26, <1>28,
     <1>29, ArrayCalls

\* Only the parser's own name and type may change before an error unwinds it.
LEMMA BrokenAlike ==
    ASSUME NEW m, NEW u, NEW d, NEW t, NEW c, NEW f, NEW r \in Seq(ParserType),
           Broken(m, u, d, r, f), c \in Seq(ParserType), Len(r) = Len(c), Len(c) > 0,
           \A k \in 2 .. Len(c) : r[k] = c[k], r[1] = t,
           t.fn = c[1].fn, t.at = c[1].at, t.ptr = c[1].ptr, t.buf = c[1].buf
    PROVE  Broken(m, u, d, c, f)
<1>1. DOMAIN c = 1 .. Len(c) /\ DOMAIN r = 1 .. Len(c) /\ Len(c) \in Nat
  OBVIOUS
<1>2. \A k \in DOMAIN c : /\ k \in DOMAIN r /\ r[k].fn = c[k].fn /\ r[k].at = c[k].at
                          /\ r[k].ptr = c[k].ptr /\ r[k].buf = c[k].buf
  <2> TAKE k \in DOMAIN c
  <2>1. CASE k = 1 BY <2>1, <1>1
  <2>2. CASE k # 1
    <3>1. k \in 2 .. Len(c) BY <2>2, <1>1
    <3> QED BY <3>1, <1>1
  <2> QED BY <2>1, <2>2
<1>3. DOMAIN r = DOMAIN c BY <1>1
<1>4. {r[k].buf : k \in DOMAIN r} = {c[k].buf : k \in DOMAIN c} BY <1>2, <1>3
<1>5. Held(r, f) = Held(c, f) BY <1>4 DEF Held
<1>6. OneHolder(c, f)
  <2>1. OneHolder(r, f) BY DEF Broken
  <2>2. \A k \in DOMAIN c : k > 1 => c[k].buf = Null BY <2>1, <1>2, <1>3 DEF OneHolder
  <2>3. c # <<>> /\ r # <<>> /\ r[1].buf = c[1].buf BY <1>1
  <2> QED BY <2>1, <2>2, <2>3 DEF OneHolder
<1>7. Unwound(m, c, f)
  <2>1. Unwound(m, r, f) BY DEF Broken
  <2>2. \A k \in DOMAIN c : Home(c[k]) = Home(r[k]) BY <1>2 DEF Home
  <2>3. \A k \in DOMAIN c : Upright(m, c[k])
    <3> TAKE k \in DOMAIN c
    <3>1. Upright(m, r[k]) BY <2>1, <1>3 DEF Unwound
    <3> QED BY <3>1, <1>2 DEF Upright
  <2>4. \A j \in DOMAIN c : \A i \in 1 .. j - 1 : c[j].at[1] <= Home(c[i])
    <3> TAKE j \in DOMAIN c
    <3> TAKE i \in 1 .. j - 1
    <3>1. i \in DOMAIN c BY <1>1
    <3>2. r[j].at[1] <= Home(r[i]) BY <2>1, <1>3 DEF Unwound
    <3> QED BY <3>1, <3>2, <1>2, <2>2
  <2>5. \A j \in DOMAIN f : f[j].fn # "string" =>
          /\ ValidIn(m, f[j].at)
          /\ \A i \in DOMAIN c : f[j].at[1] <= Home(c[i])
    BY <2>1, <2>2, <1>3 DEF Unwound
  <2> QED BY <2>3, <2>4, <2>5 DEF Unwound
<1> QED BY <1>5, <1>6, <1>7 DEF Broken

LEMMA ArrayCannotGrowKeeps ==
    ASSUME Innermost, ArrayCannotGrow
    PROVE  IInv'
<1> DEFINE c == StoredCell(At(Top.at), Null, 0, 0)
           b == At(Top.at).p
           q == Put(mem, Top.at, c)
           w == Without(q, b)
           e == dropped \/ Owning(mem[b])
           t == [Top EXCEPT !.st = "open", !.len = 0]
<1>1. /\ Top.fn = "array" /\ Top.st = "comma" /\ Fail /\ mem' = w /\ used' = used
      /\ dropped' = e
  BY DEF ArrayCannotGrow, In, Inside, Stored, StoredCell
<1>2. /\ At(Top.at) \in Cells /\ Heap(mem, used, {}, dropped)
      /\ Get(mem, Top.at) = At(Top.at)
      /\ Top.at \in Addresses /\ ValidIn(mem, Top.at) /\ Owns(mem, Top, Top.at)
      /\ Block(mem, Top) = b /\ Top.buf = Null /\ Top.ptr = None
      /\ Top.cap \in Nat \ {0} /\ Top.type \in Types
      /\ Top.at[1] \in Nat /\ Top.at[2] \in Nat
  BY <1>1, ArrayFacts
<1>3. HasBlock(mem, Top) /\ b \in Nat /\ b > Top.at[1] /\ b \in DOMAIN mem
  BY <1>1, ArrayFacts
<1>4. /\ IsMemory(mem) /\ Top \in ParserType /\ dropped \in BOOLEAN /\ Fit(mem, Top)
      /\ Active(mem, used, dropped, calls, frames) /\ calls # <<>> /\ Top = calls[1]
  BY InnermostFacts
<1>5. c \in Cells /\ c.p = Null
  <2>1. Null \in Int BY DEF Null
  <2>2. 0 \in Nat OBVIOUS
  <2>3. c \in Cells BY <2>1, <2>2, <1>2, StoredFacts
  <2>4. c.p = Null BY <2>1, <2>2, <1>2, StoredFacts
  <2> QED BY <2>3, <2>4
<1>6. e \in BOOLEAN BY <1>4 DEF Owning
<1>7. dropped => e OBVIOUS
<1>8. Top.at[1] # b BY <1>2, <1>3
<1>9. (\E i \in DOMAIN mem[b] : mem[b][i].p \in DOMAIN mem) => e BY DEF Owning, Live
<1> HIDE DEF c, b, e
<1>10. Heap(q, used, {b}, dropped)
  <2>1. Get(mem, Top.at).p > 0 /\ Get(mem, Top.at).p = b BY <1>2, <1>3 DEF b
  <2>2. Heap(q, used, {} \cup {Get(mem, Top.at).p}, dropped)
    BY <2>1, <1>2, <1>5, HeapGive
  <2>3. {} \cup {Get(mem, Top.at).p} = {b} BY <2>1
  <2> QED BY <2>2, <2>3
<1>11. /\ IsMemory(q) /\ ValidIn(q, Top.at) /\ Get(q, Top.at) = c
  BY <1>2, <1>4, <1>5, PutGet
<1>12. q[b] = mem[b] /\ DOMAIN q = DOMAIN mem
  BY <1>2, <1>3, <1>4, <1>5, <1>8, PutFacts
<1>13. Only(mem, q, Top) BY <1>2, <1>4, <1>5, OnlySame, OnlyPut
<1> HIDE DEF q
<1>14. Heap(w, used, {}, e)
  <2>1. b \in {b} /\ {b} \ {b} = {} OBVIOUS
  <2>2. (\E i \in DOMAIN q[b] : q[b][i].p \in DOMAIN q) => e BY <1>9, <1>12
  <2>3. Heap(w, used, {b} \ {b}, e) BY <2>1, <2>2, <1>7, <1>10, HeapFree
  <2> QED BY <2>1, <2>3
<1>15. Only(mem, w, Top) BY <1>2, <1>3, <1>11, <1>13, OnlyWithout
<1>16. IsWithout(w, q, b) BY <1>11, WithoutFacts
<1> HIDE DEF w
<1>17. ValidIn(w, Top.at) /\ Get(w, Top.at) = c
  <2>1. Top.at[1] \in DOMAIN q \ {b} /\ Top.at[2] \in DOMAIN q[Top.at[1]]
    BY <1>8, <1>11 DEF ValidIn
  <2>2. Top.at[1] \in DOMAIN w /\ w[Top.at[1]] = q[Top.at[1]]
    BY <2>1, <1>16 DEF IsWithout
  <2> QED BY <2>1, <2>2, <1>11 DEF ValidIn, Get
<1>18. "open" \in ParserStates BY DEF ParserStates
<1>19. /\ t \in ParserType /\ t.fn = "array" /\ t.st = "open" /\ t.len = 0
       /\ t.cap = Top.cap /\ t.at = Top.at /\ t.type = Top.type /\ t.buf = Null
       /\ t.ptr = None
  BY <1>1, <1>2, <1>4, <1>18, ZenonT(60) DEF ParserType
<1> HIDE DEF t
<1>20. Base(t) = 1 /\ Anchor(t) = Top.at /\ ~HasBlock(w, t) /\ Base(Top) = 1
  BY <1>1, <1>19 DEF Base, Anchor, HasBlock
<1>21. Block(w, t) = Null /\ Count(w, t) = 0
  BY <1>5, <1>17, <1>19, <1>20 DEF Block, Count
<1>22. Fit(w, t)
  <2>1. t.st \in StatesOf(t.fn) BY <1>19 DEF StatesOf
  <2>2. FitBase(w, t)
    <3>1. \A i \in t.at[2] .. t.at[2] + Base(t) - 1 : Address(t.at[1], i) = t.at
      BY <1>2, <1>19, <1>20, AddressIs
    <3>2. t.fn \notin {"initial", "value"} BY <1>19
    <3> QED BY <2>1, <3>1, <3>2, <1>17, <1>19 DEF FitBase
  <2>3. FitString(w, t) BY <1>19 DEF FitString
  <2>4. FitBlock(w, t) BY <1>20, <1>21 DEF FitBlock, Null
  <2>5. FitArray(w, t) BY <1>2, <1>19 DEF FitArray
  <2>6. FitPtr(w, t) BY <1>19 DEF FitPtr
  <2> QED BY <2>2, <2>3, <2>4, <2>5, <2>6, <1>19 DEF Fit, FitMembers
<1>23. \A a \in Addresses : Owns(w, t, a) => Owns(mem, Top, a) \/ a[1] \notin DOMAIN mem
  <2> SUFFICES ASSUME NEW a \in Addresses, Owns(w, t, a) PROVE Owns(mem, Top, a)
    OBVIOUS
  <2>1. a # None BY AddressIs
  <2>2. InBase(t, a) BY <2>1, <1>19, <1>20 DEF Owns
  <2>3. InBase(Top, a) BY <2>2, <1>19, <1>20 DEF InBase
  <2> QED BY <2>3, <1>4, BaseFacts DEF Fit
<1>24. Home(t) = Home(Top) BY <1>2, <1>19 DEF Home
<1>25. Home(t) >= Home(Top) BY <1>24, <1>4, HomeFacts
<1>26. Heap(w, used, {t.buf} \ {Null}, e)
  <2>1. {t.buf} \ {Null} = {} BY <1>19
  <2> QED BY <2>1, <1>14
<1>27. Active(w, used, e, <<t>> \o Tail(calls), frames)
  BY <1>4, <1>6, <1>15, <1>22, <1>23, <1>25, <1>26, GoesOn
<1>28. Broken(w, used, e, <<t>> \o Tail(calls), frames) BY <1>27, Breaks
<1>29. calls \in Seq(ParserType) BY <1>4 DEF Active
<1> DEFINE r == <<t>> \o Tail(calls)
<1>30. r \in Seq(ParserType) /\ IsReplaced(r, calls, t) /\ Len(calls) \in Nat \ {0}
  BY <1>4, <1>19, <1>29, Heads
<1>31. Broken(w, used, e, r, frames) BY <1>28
<1> HIDE DEF r
<1>32. Broken(w, used, e, calls, frames)
  <2>1. /\ Len(r) = Len(calls) /\ Len(calls) > 0 /\ r[1] = t
        /\ \A k \in 2 .. Len(calls) : r[k] = calls[k]
    BY <1>30 DEF IsReplaced
  <2>2. /\ t.fn = calls[1].fn /\ t.at = calls[1].at /\ t.ptr = calls[1].ptr
        /\ t.buf = calls[1].buf
    BY <1>1, <1>2, <1>4, <1>19
  <2> QED BY <2>1, <2>2, <1>29, <1>30, <1>31, BrokenAlike
<1> QED BY <1>1, <1>32, StepFails

LEMMA ArrayFailsKeeps ==
    ASSUME Innermost, ArrayFails
    PROVE  IInv'
<1>1. Fail /\ KeepMemory BY DEF ArrayFails
<1> QED BY <1>1, StepFailsAtOnce

\* The innermost parser is an object's.
LEMMA StructFacts ==
    ASSUME Innermost, Top.fn = "struct"
    PROVE  /\ Top \in ParserType /\ Fit(mem, Top) /\ Top.type \in Types
           /\ Top.at \in Addresses /\ Top.at[1] \in Nat /\ Top.at[2] \in Nat
           /\ Top.buf = Null /\ Heap(mem, used, {}, dropped) /\ dropped \in BOOLEAN
           /\ Base(Top) = StructWidth(Top.type) /\ Unit(Top) = EntryWidth(Top.type)
<1>1. Top \in ParserType /\ Fit(mem, Top) /\ dropped \in BOOLEAN BY InnermostFacts
<1>2. Top.buf = Null BY <1>1 DEF Fit, FitString
<1>3. Heap(mem, used, {}, dropped)
  <2>1. {Top.buf} \ {Null} = {} BY <1>2
  <2> QED BY <2>1, InnermostFacts
<1>4. Base(Top) = StructWidth(Top.type) /\ Unit(Top) = EntryWidth(Top.type)
  BY DEF Base, Unit
<1> QED BY <1>1, <1>2, <1>3, <1>4, ParserFacts

\* It goes on with another state, and another member.
LEMMA StructFit ==
    ASSUME NEW m, NEW act, Fit(m, act), act.fn = "struct", NEW t \in ParserType,
           t.fn = "struct", t.type = act.type, t.at = act.at, t.ptr = act.ptr,
           t.buf = act.buf, t.st \in StatesOf("struct"), FitMembers(m, t)
    PROVE  Fit(m, t) /\ (HasBlock(m, t) <=> HasBlock(m, act))
<1>1. /\ Base(t) = Base(act) /\ Anchor(t) = Anchor(act) /\ Unit(t) = Unit(act)
  BY DEF Base, Anchor, Unit
<1>2. /\ Block(m, t) = Block(m, act) /\ Count(m, t) = Count(m, act)
      /\ Room(m, t) = Room(m, act) /\ (HasBlock(m, t) <=> HasBlock(m, act))
  BY <1>1 DEF Block, Count, Room, HasBlock
<1>3. FitBase(m, t)
  <2>1. FitBase(m, act) BY DEF Fit
  <2>2. t.fn \notin {"initial", "value"} OBVIOUS
  <2> QED BY <2>1, <2>2, <1>1 DEF FitBase
<1>4. FitString(m, t) BY DEF Fit, FitString
<1>5. FitBlock(m, t)
  <2>1. FitBlock(m, act) BY DEF Fit
  <2>2. act.fn \in {"array", "struct"} OBVIOUS
  <2> QED BY <2>1, <2>2, <1>1, <1>2 DEF FitBlock
<1>6. FitPtr(m, t) BY DEF Fit, FitPtr
<1>7. FitArray(m, t)
  <2>1. t.fn # "array" OBVIOUS
  <2> QED BY <2>1 DEF FitArray
<1>8. Fit(m, t) BY <1>3, <1>4, <1>5, <1>6, <1>7 DEF Fit
<1> QED BY <1>2, <1>8

LEMMA StructNamed ==
    ASSUME Innermost, Top.fn = "struct", GoOn([Top EXCEPT !.st = "name"]), KeepMemory
    PROVE  IInv'
<1> DEFINE t == [Top EXCEPT !.st = "name"]
<1>1. Top \in ParserType /\ Fit(mem, Top) BY InnermostFacts
<1>2. "name" \in ParserStates BY DEF ParserStates
<1>3. /\ t \in ParserType /\ t.fn = "struct" /\ t.st = "name" /\ t.at = Top.at
      /\ t.type = Top.type /\ t.buf = Top.buf /\ t.ptr = Top.ptr /\ t.seen = Top.seen
  BY <1>1, <1>2 DEF ParserType
<1>4. GoOn(t) OBVIOUS
<1> HIDE DEF t
<1>5. t.st \in StatesOf("struct") BY <1>3 DEF StatesOf
<1>6. FitMembers(mem, t) BY <1>1, <1>3 DEF Fit, FitMembers
<1>7. Fit(mem, t) /\ (HasBlock(mem, t) <=> HasBlock(mem, Top))
  BY <1>1, <1>3, <1>5, <1>6, StructFit
<1> QED BY <1>3, <1>4, <1>7, GoesOnInPlace

LEMMA StructNameKeeps ==
    ASSUME Innermost, StructName
    PROVE  IInv'
<1>1. Top.fn = "struct" /\ GoOn([Top EXCEPT !.st = "name"]) /\ KeepMemory
  BY DEF StructName, In, Inside
<1> QED BY <1>1, StructNamed

LEMMA StructEscapeKeeps ==
    ASSUME Innermost, StructEscape
    PROVE  IInv'
<1>1. Top.fn = "struct" /\ GoOn([Top EXCEPT !.st = "name"]) /\ KeepMemory
  BY DEF StructEscape, In, Inside
<1> QED BY <1>1, StructNamed

LEMMA StructDoneKeeps ==
    ASSUME Innermost, StructDone
    PROVE  IInv'
<1>1. Top.fn = "struct" /\ Return /\ mem' = mem /\ used' = used /\ dropped' = dropped
  BY DEF StructDone, In, Inside, KeepMemory
<1>2. Heap(mem, used, {}, dropped) /\ dropped \in BOOLEAN BY <1>1, StructFacts
<1>3. Only(mem, mem, Top) BY OnlySame
<1> QED BY <1>1, <1>2, <1>3, StepReturns

LEMMA StructFailsKeeps ==
    ASSUME Innermost, StructFails
    PROVE  IInv'
<1>1. Fail /\ KeepMemory BY DEF StructFails
<1> QED BY <1>1, StepFailsAtOnce

\* A member that has been met before is not looked up again: Repeats is FALSE.
LEMMA StructMemberKeeps ==
    ASSUME Innermost, StructMember, Repeats = FALSE
    PROVE  IInv'
<1>1. Top.fn = "struct" /\ KeepMemory BY DEF StructMember, In, Inside
<1>2. PICK i \in DOMAIN Members[Top.type] :
        /\ i \notin Top.seen
        /\ GoOn([Top EXCEPT !.st = "named", !.seen = @ \cup {i},
                      !.child = Members[Top.type][i],
                      !.childAt = Address(Top.at[1], Top.at[2] + i - 1)])
  BY DEF StructMember
<1> DEFINE ty == Members[Top.type][i]
           ca == Address(Top.at[1], Top.at[2] + i - 1)
           t == [Top EXCEPT !.st = "named", !.seen = @ \cup {i}, !.child = ty,
                            !.childAt = ca]
<1>3. /\ Top \in ParserType /\ Fit(mem, Top) /\ Top.type \in Types
      /\ Top.at[1] \in Nat /\ Top.at[2] \in Nat
  BY <1>1, StructFacts
<1>4. i \in Nat \ {0} /\ ty \in Types /\ Width(ty) = 1
  <2>1. Members[Top.type] \in Seq(Types) BY <1>3, TypeFacts
  <2>2. i \in Nat \ {0} BY <2>1, <1>2
  <2> QED BY <2>2, <1>2, <1>3, TypeFacts
<1>5. ca \in Nat \X Nat /\ ca[1] = Top.at[1] /\ ca[2] = Top.at[2] + i - 1
  <2>1. Top.at[2] + i - 1 \in Nat BY <1>3, <1>4
  <2> QED BY <2>1, <1>3, AddressFacts DEF Addresses
<1>6. Get(mem, ca) = Cleared BY <1>1, <1>2, <1>3 DEF Fit, FitMembers
<1>7. "named" \in ParserStates BY DEF ParserStates
<1>8. GoOn(t) BY <1>2
<1>9. ca = Address(Top.at[1], Top.at[2] + i - 1) /\ ty = Members[Top.type][i] OBVIOUS
<1> HIDE DEF ty, ca
<1>10. /\ t \in ParserType /\ t.fn = "struct" /\ t.st = "named" /\ t.at = Top.at
       /\ t.type = Top.type /\ t.buf = Top.buf /\ t.ptr = Top.ptr
       /\ t.seen = Top.seen \cup {i} /\ t.child = ty /\ t.childAt = ca
  BY <1>1, <1>3, <1>4, <1>5, <1>7 DEF ParserType
<1> HIDE DEF t
<1>11. FitMembers(mem, t)
  <2>1. \A j \in DOMAIN Members[t.type] \ t.seen :
           Get(mem, Address(t.at[1], t.at[2] + j - 1)) = Cleared
    BY <1>1, <1>3, <1>10 DEF Fit, FitMembers
  <2>2. IsMember(t)
    <3>1. i \in t.seen \cap DOMAIN Members[t.type] BY <1>2, <1>10
    <3>2. t.child = Members[t.type][i] /\ t.childAt = Address(t.at[1], t.at[2] + i - 1)
      BY <1>9, <1>10
    <3> QED BY <3>1, <3>2 DEF IsMember
  <2>3. \A j \in t.childAt[2] .. t.childAt[2] + Width(t.child) - 1 :
           Get(mem, Address(t.childAt[1], j)) = Cleared
    <3> TAKE j \in t.childAt[2] .. t.childAt[2] + Width(t.child) - 1
    <3>1. ca[2] \in Nat /\ j \in ca[2] .. ca[2] + 1 - 1
      BY <1>4, <1>5, <1>10
    <3>2. j = ca[2] BY <3>1
    <3>3. Address(t.childAt[1], j) = ca BY <3>2, <1>10, <1>5, <1>9
    <3> QED BY <3>3, <1>6
  <2> QED BY <2>1, <2>2, <2>3 DEF FitMembers
<1>12. t.st \in StatesOf("struct") BY <1>10 DEF StatesOf
<1>13. Fit(mem, t) /\ (HasBlock(mem, t) <=> HasBlock(mem, Top))
  BY <1>1, <1>3, <1>10, <1>11, <1>12, StructFit
<1> QED BY <1>1, <1>8, <1>10, <1>13, GoesOnInPlace

LEMMA StructValueKeeps ==
    ASSUME Innermost, StructValue
    PROVE  IInv'
<1> DEFINE t == [Top EXCEPT !.st = "after"]
<1>1. /\ Top.fn = "struct" /\ Top.st = "named" /\ Call(t, Top.child, Top.childAt)
      /\ mem' = mem /\ used' = used /\ dropped' = dropped
  BY DEF StructValue, In, Inside, KeepMemory
<1>2. /\ Top \in ParserType /\ Fit(mem, Top) /\ Heap(mem, used, {}, dropped)
      /\ dropped \in BOOLEAN
  BY <1>1, StructFacts
<1>3. Top.childAt \in Addresses /\ Top.child \in Types
  <2>1. IsMemory(mem) BY InnermostFacts
  <2> QED BY <2>1, <1>1, <1>2, ChildFacts
<1>4. "after" \in ParserStates BY DEF ParserStates
<1>5. /\ t \in ParserType /\ t.fn = "struct" /\ t.st = "after" /\ t.at = Top.at
      /\ t.type = Top.type /\ t.buf = Top.buf /\ t.ptr = Top.ptr /\ t.seen = Top.seen
      /\ t.child = Top.child /\ t.childAt = Top.childAt
  BY <1>1, <1>2, <1>4 DEF ParserType
<1> HIDE DEF t
<1>6. /\ Block(mem, t) = Block(mem, Top) /\ Count(mem, t) = Count(mem, Top)
      /\ HasBlock(mem, t) <=> HasBlock(mem, Top)
      /\ Base(t) = Base(Top) /\ Home(t) = Home(Top)
  BY <1>1, <1>5 DEF Block, Count, HasBlock, Anchor, Base, Home
<1>7. FitMembers(mem, t)
  <2>1. IsMember(Top) \/ IsExtra(mem, Top) BY <1>1, <1>2 DEF Fit, FitMembers
  <2>2. IsMember(Top) => IsMember(t) BY <1>5 DEF IsMember
  <2>3. IsExtra(mem, Top) => IsExtra(mem, t) BY <1>5, <1>6 DEF IsExtra
  <2>4. \A j \in DOMAIN Members[t.type] \ t.seen :
           Get(mem, Address(t.at[1], t.at[2] + j - 1)) = Cleared
    BY <1>1, <1>2, <1>5 DEF Fit, FitMembers
  <2> QED BY <2>1, <2>2, <2>3, <2>4, <1>5 DEF FitMembers
<1>8. t.st \in StatesOf("struct") BY <1>5 DEF StatesOf
<1>9. Fit(mem, t) BY <1>1, <1>2, <1>5, <1>7, <1>8, StructFit
<1>10. Waiting(t) BY <1>5 DEF Waiting
<1>11. Top.childAt = SlotAt(mem, t) /\ Width(Top.child) = SlotWidth(t)
  BY <1>5 DEF SlotAt, SlotWidth
<1>12. \A i \in Top.childAt[2] .. Top.childAt[2] + Width(Top.child) - 1 :
          Get(mem, Address(Top.childAt[1], i)) = Cleared
  BY <1>1, <1>2 DEF Fit, FitMembers
<1>13. \A x \in Addresses : Owns(mem, t, x) => Owns(mem, Top, x) \/ x[1] \notin DOMAIN mem
  BY <1>5, <1>6 DEF Owns, InBase
<1>14. Home(t) >= Home(Top) BY <1>2, <1>6, HomeFacts
<1>15. Only(mem, mem, Top) BY OnlySame
<1> QED
  BY <1>1, <1>2, <1>3, <1>9, <1>10, <1>11, <1>12, <1>13, <1>14, <1>15, StepCalls

\* When a parser returns EU_ERROR, the others unwind.
LEMMA BrokenTail ==
    ASSUME NEW m, NEW u, NEW d, NEW c, NEW f, Broken(m, u, d, c, f), c # <<>>,
           NEW w, NEW e \in BOOLEAN, Heap(w, u, Held(Tail(c), f), e),
           \A k \in 2 .. Len(c) : Upright(w, c[k]),
           \A j \in DOMAIN f : f[j].fn # "string" => ValidIn(w, f[j].at)
    PROVE  Broken(w, u, e, Tail(c), f)
<1> DEFINE r == Tail(c)
<1>1. c \in Seq(ParserType) /\ f \in Seq(ParserType) BY DEF Broken
<1>2. r \in Seq(ParserType) /\ IsPopped(r, c) /\ Len(c) \in Nat \ {0}
  <2>1. c[1] \in ParserType BY <1>1
  <2> QED BY <2>1, <1>1, Heads
<1> HIDE DEF r
<1>3. /\ DOMAIN r = 1 .. Len(c) - 1 /\ \A k \in 1 .. Len(c) - 1 : r[k] = c[k + 1]
      /\ DOMAIN c = 1 .. Len(c)
  BY <1>1, <1>2 DEF IsPopped
<1>4. \A k \in DOMAIN r : k + 1 \in DOMAIN c /\ k + 1 \in 2 .. Len(c) /\ r[k] = c[k + 1]
                          /\ k \in Nat
  BY <1>2, <1>3
<1>5. OneHolder(r, f)
  <2>1. OneHolder(c, f) BY DEF Broken
  <2>2. \A k \in DOMAIN r : r[k].buf = Null
    <3> TAKE k \in DOMAIN r
    <3>1. k + 1 \in DOMAIN c /\ k + 1 > 1 BY <1>3, <1>4
    <3> QED BY <3>1, <1>4, <2>1 DEF OneHolder
  <2>3. r # <<>> => 1 \in DOMAIN r BY <1>2
  <2> QED BY <2>1, <2>2, <2>3 DEF OneHolder
<1>6. Unwound(w, r, f)
  <2>1. Unwound(m, c, f) BY DEF Broken
  <2>2. \A k \in DOMAIN r : Upright(w, r[k]) BY <1>4
  <2>3. \A j \in DOMAIN r : \A i \in 1 .. j - 1 : r[j].at[1] <= Home(r[i])
    <3> TAKE j \in DOMAIN r
    <3> TAKE i \in 1 .. j - 1
    <3>1. i \in DOMAIN r /\ i + 1 \in 1 .. (j + 1) - 1 BY <1>2, <1>3
    <3>2. c[j + 1].at[1] <= Home(c[i + 1]) BY <2>1, <3>1, <1>4 DEF Unwound
    <3> QED BY <3>1, <3>2, <1>4
  <2>4. \A j \in DOMAIN f : f[j].fn # "string" =>
          /\ ValidIn(w, f[j].at)
          /\ \A i \in DOMAIN r : f[j].at[1] <= Home(r[i])
    BY <2>1, <1>4 DEF Unwound
  <2> QED BY <2>2, <2>3, <2>4 DEF Unwound
<1> QED BY <1>1, <1>2, <1>5, <1>6 DEF Broken, r

\* What is in hand when the innermost parser has returned.
LEMMA HeldTail ==
    ASSUME NEW c \in Seq(ParserType), NEW f \in Seq(ParserType), c # <<>>, OneHolder(c, f)
    PROVE  /\ c[1].buf = Null => Held(Tail(c), f) = Held(c, f)
           /\ c[1].buf # Null => Held(Tail(c), f) = {} /\ Held(c, f) = {c[1].buf}
<1> DEFINE r == Tail(c)
<1>1. c[1] \in ParserType OBVIOUS
<1>2. IsPopped(r, c) /\ r \in Seq(ParserType) /\ Len(c) \in Nat \ {0} BY <1>1, Heads
<1> HIDE DEF r
<1>3. /\ DOMAIN r = 1 .. Len(c) - 1 /\ \A k \in 1 .. Len(c) - 1 : r[k] = c[k + 1]
      /\ DOMAIN c = 1 .. Len(c)
  BY <1>2 DEF IsPopped
<1>4. \A k \in DOMAIN r : k + 1 \in DOMAIN c /\ k + 1 > 1 /\ r[k] = c[k + 1]
  BY <1>2, <1>3
<1>5. \A k \in DOMAIN r : r[k].buf = Null
  BY <1>4 DEF OneHolder
<1>6. \A k \in DOMAIN c : k > 1 => c[k].buf = Null BY DEF OneHolder
<1>7. 1 \in DOMAIN c BY <1>2, <1>3
<1>8. \A k \in DOMAIN c : k = 1 \/ k > 1 BY <1>2, <1>3
<1>9. CASE c[1].buf = Null
  <2>1. \A k \in DOMAIN c : c[k].buf = Null BY <1>6, <1>8, <1>9
  <2> QED BY <2>1, <1>5, <1>9 DEF Held, r
<1>10. CASE c[1].buf # Null
  <2>1. \A k \in DOMAIN f : f[k].buf = Null
    <3> TAKE k \in DOMAIN f
    <3>1. f # <<>> /\ (k = 1 \/ k > 1) OBVIOUS
    <3> QED BY <3>1, <1>10 DEF OneHolder
  <2>2. Held(r, f) = {} BY <2>1, <1>5 DEF Held
  <2>3. Held(c, f) = {c[1].buf} BY <2>1, <1>6, <1>7, <1>8, <1>10 DEF Held
  <2> QED BY <2>2, <2>3, <1>10 DEF r
<1> QED BY <1>9, <1>10

LEMMA StructEscapeFailsKeeps ==
    ASSUME Innermost, StructEscapeFails
    PROVE  IInv'
<1>1. /\ Top.fn = "struct" /\ mem' = mem /\ used' = used /\ dropped' = dropped
      /\ calls' = Tail(calls) /\ Keep
      /\ phase' = IF Tail(calls) = <<>> THEN "failed" ELSE "unwinding"
  BY DEF StructEscapeFails, In, Inside, KeepMemory
<1>2. /\ Active(mem, used, dropped, calls, frames) /\ calls # <<>> /\ Top = calls[1]
  BY InnermostFacts
<1>3. Broken(mem, used, dropped, calls, frames) BY <1>2, Breaks
<1>4. calls[1].buf = Null /\ dropped \in BOOLEAN BY <1>1, <1>2, StructFacts
<1>5. /\ calls \in Seq(ParserType) /\ frames \in Seq(ParserType)
      /\ OneHolder(calls, frames) /\ Heap(mem, used, Held(calls, frames), dropped)
      /\ Unwound(mem, calls, frames)
  BY <1>3 DEF Broken
<1>6. Heap(mem, used, Held(Tail(calls), frames), dropped)
  BY <1>2, <1>4, <1>5, HeldTail
<1>7. /\ \A k \in 2 .. Len(calls) : Upright(mem, calls[k])
      /\ \A j \in DOMAIN frames : frames[j].fn # "string" => ValidIn(mem, frames[j].at)
  BY <1>5 DEF Unwound
<1>8. Broken(mem, used, dropped, Tail(calls), frames)
  BY <1>2, <1>3, <1>4, <1>6, <1>7, BrokenTail
<1> QED BY <1>1, <1>8 DEF Innermost, IInv, Keep, Phases

\* The extra members of the innermost object, before one is added.
LEMMA ExtrasFacts ==
    ASSUME Innermost, Top.fn = "struct"
    PROVE  LET x == Anchor(Top) IN
           /\ x \in Addresses /\ ValidIn(mem, x) /\ x[1] = Top.at[1] /\ Owns(mem, Top, x)
           /\ x = Extras(Top.type, Top.at) /\ At(x) = Get(mem, x) /\ Get(mem, x) \in Cells
           /\ Block(mem, Top) = Get(mem, x).p /\ Count(mem, Top) = Get(mem, x).len
           /\ Room(mem, Top) = Get(mem, x).cap
           /\ Count(mem, Top) \in Nat /\ Room(mem, Top) \in Nat
           /\ HasBlock(mem, Top) <=> Room(mem, Top) # 0
           /\ ~HasBlock(mem, Top) => Block(mem, Top) <= 0 /\ Count(mem, Top) = 0
           /\ HasBlock(mem, Top) =>
                 /\ Block(mem, Top) \in DOMAIN mem /\ Block(mem, Top) > Top.at[1]
                 /\ Block(mem, Top) \in Nat
                 /\ Count(mem, Top) <= Room(mem, Top)
                 /\ Len(mem[Block(mem, Top)]) = Room(mem, Top) * Unit(Top)
                 /\ \A i \in Count(mem, Top) * Unit(Top) + 1 .. Len(mem[Block(mem, Top)]) :
                       mem[Block(mem, Top)][i] = Cleared
<1> DEFINE x == Anchor(Top)
<1>1. Top \in ParserType /\ Fit(mem, Top) BY StructFacts
<1>2. IsMemory(mem) BY InnermostFacts
<1>3. /\ ValidIn(mem, x) /\ x \in Addresses /\ x[1] = Top.at[1]
      /\ Block(mem, Top) \in Int /\ Count(mem, Top) \in Nat /\ Room(mem, Top) \in Nat
      /\ HasBlock(mem, Top) => Block(mem, Top) \in Nat
  BY <1>1, <1>2, BlockFacts
<1>4. Owns(mem, Top, x) BY <1>1, BaseFacts DEF Fit
<1>5. x = Extras(Top.type, Top.at) BY DEF Anchor
<1>6. At(x) = Get(mem, x) BY DEF At, Get
<1>7. Get(mem, x) \in Cells BY <1>2, <1>3, MemoryFacts DEF ValidIn, Get
<1>8. /\ Block(mem, Top) = Get(mem, x).p /\ Count(mem, Top) = Get(mem, x).len
      /\ Room(mem, Top) = Get(mem, x).cap
      /\ HasBlock(mem, Top) <=> Room(mem, Top) # 0
  BY DEF Block, Count, Room, HasBlock
<1>9. FitBlock(mem, Top) BY <1>1 DEF Fit
<1>10. ~HasBlock(mem, Top) => Block(mem, Top) <= 0 /\ Count(mem, Top) = 0
  BY <1>9 DEF FitBlock
<1>11. HasBlock(mem, Top) =>
          /\ Block(mem, Top) \in DOMAIN mem /\ Block(mem, Top) > Top.at[1]
          /\ Count(mem, Top) <= Room(mem, Top)
          /\ Len(mem[Block(mem, Top)]) = Room(mem, Top) * Unit(Top)
          /\ \A i \in Count(mem, Top) * Unit(Top) + 1 .. Len(mem[Block(mem, Top)]) :
                mem[Block(mem, Top)][i] = Cleared
  BY <1>9 DEF FitBlock
<1> HIDE DEF x
<1> QED BY <1>3, <1>4, <1>5, <1>6, <1>7, <1>8, <1>10, <1>11 DEF x

\* v has the name in hand and a block b with room for a further member, which
\* the object points to or which is in hand too.
IsRoomy(v, u, b, cap) ==
    LET x == Anchor(Top) IN
    /\ IsMemory(v) /\ Only(mem, v, Top) /\ u \in Nat
    /\ b \in Nat /\ b \in DOMAIN v /\ b > Top.at[1] /\ b # Fresh
    /\ cap \in Nat /\ Count(mem, Top) < cap /\ Len(v[b]) = cap * Unit(Top)
    /\ \A i \in Count(mem, Top) * Unit(Top) + 1 .. Len(v[b]) : v[b][i] = Cleared
    /\ \/ b \notin DOMAIN mem
       \/ HasBlock(mem, Top) /\ b = Block(mem, Top) /\ DOMAIN v[b] = DOMAIN mem[b]
    /\ \A a \in Addresses : ValidIn(mem, a) /\ a[1] <= Top.at[1] =>
          ValidIn(v, a) /\ (a = x \/ Get(v, a) = Get(mem, a))
    /\ \/ Heap(v, u, {Fresh}, dropped) /\ Get(v, x).p = b
       \/ Heap(v, u, {Fresh, b}, dropped) /\ Get(v, x).p <= 0

\* The memory once the member is added.
Added(v, b, n, c1, c2) ==
    Put(Put(v, NameAt(Top.type, b, n), c1), Anchor(Top), c2)

LEMMA AddedFacts ==
    ASSUME Innermost, Top.fn = "struct", NEW v, NEW u, NEW b, NEW cap, IsRoomy(v, u, b, cap),
           NEW n, n = Count(mem, Top) + 1,
           NEW c1 \in Cells, c1.p = Fresh, NEW c2 \in Cells, c2.p = b,
           NEW w, w = Added(v, b, n, c1, c2)
    PROVE  /\ IsMemory(w) /\ Heap(w, u, {}, dropped) /\ Only(mem, w, Top)
           /\ b \in DOMAIN w /\ Len(w[b]) = cap * Unit(Top)
           /\ DOMAIN w[b] = DOMAIN v[b]
           /\ \A i \in Count(mem, Top) * Unit(Top) + 2 .. Len(w[b]) : w[b][i] = Cleared
           /\ ValidIn(w, Anchor(Top)) /\ Get(w, Anchor(Top)) = c2
           /\ \A a \in Addresses : ValidIn(mem, a) /\ a[1] <= Top.at[1] =>
                 ValidIn(w, a) /\ (a = Anchor(Top) \/ Get(w, a) = Get(mem, a))
<1> DEFINE x == Anchor(Top)
           k == Count(mem, Top) * Unit(Top)
           y == NameAt(Top.type, b, n)
           q == Put(v, y, c1)
           r == Put(q, x, c2)
<1>1. /\ Top.type \in Types /\ Unit(Top) = EntryWidth(Top.type)
      /\ Top.at[1] \in Nat
  BY StructFacts
<1>2. /\ x \in Addresses /\ ValidIn(mem, x) /\ x[1] = Top.at[1] /\ Owns(mem, Top, x)
      /\ Count(mem, Top) \in Nat /\ Room(mem, Top) \in Nat
      /\ ~HasBlock(mem, Top) => Block(mem, Top) <= 0
      /\ HasBlock(mem, Top) => Block(mem, Top) \in DOMAIN mem
  BY ExtrasFacts
<1>3. Unit(Top) \in Nat \ {0} BY InnermostFacts, ParserFacts
<1> HIDE DEF x
<1>4. /\ IsMemory(v) /\ Only(mem, v, Top) /\ u \in Nat
      /\ b \in Nat /\ b \in DOMAIN v /\ b > Top.at[1] /\ b # Fresh
      /\ cap \in Nat /\ Count(mem, Top) < cap /\ Len(v[b]) = cap * Unit(Top)
      /\ \A i \in k + 1 .. Len(v[b]) : v[b][i] = Cleared
      /\ \/ b \notin DOMAIN mem
         \/ HasBlock(mem, Top) /\ b = Block(mem, Top) /\ DOMAIN v[b] = DOMAIN mem[b]
  BY DEF IsRoomy
<1>5. \A a \in Addresses : ValidIn(mem, a) /\ a[1] <= Top.at[1] =>
          ValidIn(v, a) /\ (a = x \/ Get(v, a) = Get(mem, a))
  BY DEF IsRoomy, x
<1>6. \/ Heap(v, u, {Fresh}, dropped) /\ Get(v, x).p = b
      \/ Heap(v, u, {Fresh, b}, dropped) /\ Get(v, x).p <= 0
  BY DEF IsRoomy, x
<1>7. ValidIn(v, x) BY <1>1, <1>2, <1>5
<1>8. k \in Nat /\ k + 1 <= cap * Unit(Top) /\ k + 1 \in Nat
  <2>1. Count(mem, Top) + 1 <= cap /\ Count(mem, Top) + 1 \in Nat BY <1>2, <1>4
  <2>2. (Count(mem, Top) + 1) * Unit(Top) <= cap * Unit(Top)
    BY <2>1, <1>3, <1>4, Times
  <2>3. k \in Nat /\ (Count(mem, Top) + 1) * Unit(Top) = k + Unit(Top)
    BY <1>2, <1>3, Times
  <2>4. cap * Unit(Top) \in Nat BY <1>3, <1>4, Times
  <2> HIDE DEF k
  <2> QED BY <2>2, <2>3, <2>4, <1>3
<1>9. y = Address(b, k + 1)
  <2>1. n - 1 = Count(mem, Top) BY <1>2
  <2> QED BY <2>1, <1>1 DEF NameAt
<1> HIDE DEF k
<1>10. y \in Addresses /\ y[1] = b /\ y[2] = k + 1 BY <1>4, <1>8, <1>9, AddressFacts
<1> HIDE DEF y
<1>11. DOMAIN v[b] = 1 .. Len(v[b]) BY <1>4, MemoryFacts
<1>12. k + 1 \in DOMAIN v[b] /\ k + 1 \in k + 1 .. Len(v[b]) BY <1>4, <1>8, <1>11
<1>13. ValidIn(v, y) /\ Get(v, y) = Cleared
  BY <1>4, <1>10, <1>12 DEF ValidIn, Get
<1>14. Get(v, y).p <= 0 BY <1>13, CellType
<1>15. x[1] # b /\ x # y BY <1>1, <1>2, <1>4, <1>10
<1>16. /\ IsMemory(q) /\ ValidIn(q, x) /\ Get(q, x) = Get(v, x)
  BY <1>2, <1>4, <1>7, <1>10, <1>13, <1>15, PutGet
<1>17. Owns(mem, Top, y) \/ y[1] \notin DOMAIN mem
  <2>1. CASE b \notin DOMAIN mem BY <2>1, <1>10
  <2>2. CASE HasBlock(mem, Top) /\ b = Block(mem, Top) /\ DOMAIN v[b] = DOMAIN mem[b]
    <3>1. b \in DOMAIN mem BY <2>2, <1>2
    <3>2. y[2] \in DOMAIN mem[b] BY <2>2, <1>10, <1>12
    <3> QED BY <3>1, <3>2, <2>2, <1>10 DEF Owns, ValidIn
  <2> QED BY <2>1, <2>2, <1>4
<1>18. Only(mem, q, Top)
  BY <1>4, <1>10, <1>13, <1>17, InnermostFacts, OnlyPut
<1>19. Only(mem, r, Top)
  BY <1>2, <1>16, <1>18, InnermostFacts, OnlyPut
<1>20. Heap(r, u, {}, dropped)
  <2>1. CASE Heap(v, u, {Fresh}, dropped) /\ Get(v, x).p = b
    <3>1. Heap(q, u, {Fresh} \ {c1.p}, dropped)
      <4>1. c1.p \in {Fresh} OBVIOUS
      <4> QED BY <4>1, <2>1, <1>10, <1>13, <1>14, HeapTake
    <3>2. {Fresh} \ {c1.p} = {} OBVIOUS
    <3>3. Heap(q, u, {}, dropped) BY <3>1, <3>2
    <3>4. c2.p = Get(q, x).p BY <2>1, <1>16
    <3> HIDE DEF q
    <3> QED BY <3>3, <3>4, <1>2, <1>16, HeapPut
  <2>2. CASE Heap(v, u, {Fresh, b}, dropped) /\ Get(v, x).p <= 0
    <3>1. Heap(q, u, {Fresh, b} \ {c1.p}, dropped)
      <4>1. c1.p \in {Fresh, b} OBVIOUS
      <4> QED BY <4>1, <2>2, <1>10, <1>13, <1>14, HeapTake
    <3>2. {Fresh, b} \ {c1.p} = {b} BY <1>4
    <3>3. Heap(q, u, {b}, dropped) BY <3>1, <3>2
    <3>4. Get(q, x).p <= 0 BY <2>2, <1>16
    <3> HIDE DEF q
    <3>5. Heap(r, u, {b} \ {c2.p}, dropped)
      <4>1. c2.p \in {b} OBVIOUS
      <4> QED BY <4>1, <3>3, <3>4, <1>2, <1>16, HeapTake
    <3>6. {b} \ {c2.p} = {} OBVIOUS
    <3> QED BY <3>5, <3>6
  <2> QED BY <2>1, <2>2, <1>6
<1>21. DOMAIN q = DOMAIN v /\ Len(q[b]) = Len(v[b]) /\ DOMAIN q[b] = DOMAIN v[b]
  BY <1>4, <1>10, <1>13, PutFacts
<1>22. \A i \in DOMAIN v[b] : i # k + 1 => q[b][i] = v[b][i]
  BY <1>4, <1>10, <1>13, PutFacts
<1>23. \A a \in Addresses : ValidIn(v, a) /\ a # y =>
          ValidIn(q, a) /\ Get(q, a) = Get(v, a)
  BY <1>4, <1>10, <1>13, PutGet
<1> HIDE DEF q
<1>24. IsMemory(r) /\ ValidIn(r, x) /\ Get(r, x) = c2
  BY <1>2, <1>16, PutGet
<1>25. b \in DOMAIN r /\ r[b] = q[b]
  BY <1>2, <1>4, <1>15, <1>16, <1>21, PutFacts
<1>26. \A a \in Addresses : ValidIn(q, a) =>
          ValidIn(r, a) /\ (a = x \/ Get(r, a) = Get(q, a))
  BY <1>2, <1>16, PutGet
<1> HIDE DEF r
<1>27. \A i \in k + 2 .. Len(r[b]) : r[b][i] = Cleared
  <2> TAKE i \in k + 2 .. Len(r[b])
  <2>1. Len(r[b]) = Len(v[b]) /\ Len(v[b]) \in Nat BY <1>4, <1>21, <1>25, MemoryFacts
  <2>2. i \in k + 1 .. Len(v[b]) /\ i # k + 1 /\ i \in 1 .. Len(v[b]) BY <2>1, <1>8
  <2> QED BY <2>2, <1>4, <1>11, <1>22, <1>25
<1>28. \A a \in Addresses : ValidIn(mem, a) /\ a[1] <= Top.at[1] =>
          ValidIn(r, a) /\ (a = x \/ Get(r, a) = Get(mem, a))
  <2> SUFFICES ASSUME NEW a \in Addresses, ValidIn(mem, a), a[1] <= Top.at[1]
               PROVE  ValidIn(r, a) /\ (a = x \/ Get(r, a) = Get(mem, a))
    OBVIOUS
  <2>1. a # y BY <1>1, <1>4, <1>10, AddressIs
  <2>2. ValidIn(v, a) /\ (a = x \/ Get(v, a) = Get(mem, a)) BY <1>5
  <2>3. ValidIn(q, a) /\ Get(q, a) = Get(v, a) BY <2>1, <2>2, <1>23
  <2>4. ValidIn(r, a) /\ (a = x \/ Get(r, a) = Get(q, a)) BY <2>3, <1>26
  <2> QED BY <2>2, <2>3, <2>4
<1>29. w = r BY DEF Added, r, q, x, y
<1>30. Len(r[b]) = cap * Unit(Top) BY <1>4, <1>21, <1>25
<1> QED
  BY <1>19, <1>20, <1>24, <1>25, <1>27, <1>28, <1>29, <1>30, <1>4, <1>21 DEF x, k

\* The object goes on with the value of the member it has added.
LEMMA AddedKeeps ==
    ASSUME Innermost, Top.fn = "struct", Top.st = "name",
           NEW v, NEW b, NEW cap, IsRoomy(v, used', b, cap),
           NEW n, n = Count(mem, Top) + 1,
           NEW c1 \in Cells, c1.p = Fresh,
           NEW c2 \in Cells, c2.p = b, c2.len = n, c2.cap = cap,
           mem' = Added(v, b, n, c1, c2), dropped' = dropped,
           NEW t, t = [Top EXCEPT !.st = "named", !.child = Element[Top.type],
                                  !.childAt = ValueAt(Top.type, b, n)],
           GoOn(t)
    PROVE  IInv'
<1> DEFINE x == Anchor(Top)
           k == Count(mem, Top) * Unit(Top)
           el == Element[Top.type]
           ca == ValueAt(Top.type, b, n)
<1>1. /\ Top \in ParserType /\ Fit(mem, Top) /\ Top.type \in Types
      /\ Top.at \in Addresses /\ Top.at[1] \in Nat /\ Top.at[2] \in Nat
      /\ Top.buf = Null /\ dropped \in BOOLEAN
      /\ Base(Top) = StructWidth(Top.type) /\ Unit(Top) = EntryWidth(Top.type)
  BY StructFacts
<1>2. /\ x \in Addresses /\ ValidIn(mem, x) /\ x[1] = Top.at[1] /\ Owns(mem, Top, x)
      /\ x = Extras(Top.type, Top.at) /\ Count(mem, Top) \in Nat
  BY ExtrasFacts
<1>3. el \in Types /\ Width(el) \in Nat \ {0} /\ Unit(Top) = 1 + Width(el)
  <2>1. el \in Types BY <1>1, TypeFacts
  <2>2. Width(el) \in Nat \ {0} BY <2>1, TypeFacts
  <2>3. EntryWidth(Top.type) = 1 + Width(el) BY <1>1, TypeFacts
  <2> QED BY <2>1, <2>2, <2>3, <1>1
<1>4. /\ b \in Nat /\ b > Top.at[1] /\ cap \in Nat /\ Count(mem, Top) < cap
      /\ b \notin DOMAIN mem \/ (HasBlock(mem, Top) /\ b = Block(mem, Top)
                                 /\ (b \in DOMAIN mem => DOMAIN v[b] = DOMAIN mem[b]))
      /\ used' \in Nat
  BY DEF IsRoomy
<1>5. /\ IsMemory(mem') /\ Heap(mem', used', {}, dropped) /\ Only(mem, mem', Top)
      /\ b \in DOMAIN mem' /\ Len(mem'[b]) = cap * Unit(Top)
      /\ \A i \in k + 2 .. Len(mem'[b]) : mem'[b][i] = Cleared
      /\ ValidIn(mem', x) /\ Get(mem', x) = c2 /\ DOMAIN mem'[b] = DOMAIN v[b]
  BY AddedFacts
<1>6. \A a \in Addresses : ValidIn(mem, a) /\ a[1] <= Top.at[1] =>
          ValidIn(mem', a) /\ (a = x \/ Get(mem', a) = Get(mem, a))
  BY AddedFacts DEF x
<1>7. /\ k \in Nat /\ n \in Nat \ {0} /\ n * Unit(Top) = k + Unit(Top) /\ n <= cap
      /\ n * Unit(Top) \in Nat
  <2>1. k \in Nat /\ (Count(mem, Top) + 1) * Unit(Top) = k + Unit(Top)
    BY <1>2, <1>3, Times
  <2>2. n \in Nat /\ n # 0 /\ n <= cap BY <1>2, <1>4
  <2>3. n * Unit(Top) = k + Unit(Top) BY <2>1
  <2> HIDE DEF k
  <2> QED BY <2>1, <2>2, <2>3, <1>3
<1>8. ca = Address(b, k + 2)
  <2>1. n - 1 = Count(mem, Top) BY <1>2
  <2> QED BY <2>1, <1>1 DEF ValueAt
<1> HIDE DEF k
<1>9. ca \in Nat \X Nat /\ ca[1] = b /\ ca[2] = k + 2
  <2>1. k + 2 \in Nat BY <1>7
  <2> QED BY <2>1, <1>4, <1>8, AddressFacts DEF Addresses
<1>10. ca = ValueAt(Top.type, b, n) /\ el = Element[Top.type] OBVIOUS
<1> HIDE DEF ca, el, x
<1>11. "named" \in ParserStates BY DEF ParserStates
<1>12. t = [Top EXCEPT !.st = "named", !.child = el, !.childAt = ca] BY <1>10
<1>13. /\ t \in ParserType /\ t.fn = "struct" /\ t.st = "named" /\ t.at = Top.at
       /\ t.type = Top.type /\ t.buf = Null /\ t.ptr = Top.ptr
       /\ t.seen = Top.seen /\ t.child = el /\ t.childAt = ca
  BY <1>1, <1>3, <1>9, <1>11, <1>12, ZenonT(60) DEF ParserType
<1>14. /\ Base(t) = Base(Top) /\ Anchor(t) = x /\ Unit(t) = Unit(Top)
       /\ Home(t) = Home(Top)
  BY <1>13 DEF Base, Anchor, Unit, Home, x
<1>15. /\ Block(mem', t) = b /\ Count(mem', t) = n /\ Room(mem', t) = cap
       /\ HasBlock(mem', t)
  BY <1>4, <1>5, <1>7, <1>13, <1>14 DEF Block, Count, Room, HasBlock
<1>16. \A i \in Top.at[2] .. Top.at[2] + Base(Top) - 1 :
          /\ Address(Top.at[1], i) \in Addresses
          /\ ValidIn(mem, Address(Top.at[1], i))
          /\ ValidIn(mem', Address(Top.at[1], i))
  <2> TAKE i \in Top.at[2] .. Top.at[2] + Base(Top) - 1
  <2>1. ValidIn(mem, Address(Top.at[1], i)) BY <1>1 DEF Fit, FitBase
  <2>2. i \in Nat
    <3>1. Base(Top) \in Nat BY <1>1, ParserFacts
    <3> QED BY <3>1, <1>1
  <2>3. Address(Top.at[1], i) \in Addresses /\ Address(Top.at[1], i)[1] = Top.at[1]
    BY <2>2, <1>1, AddressFacts
  <2> QED BY <2>1, <2>3, <1>1, <1>6
<1>17. FitBase(mem', t)
  <2>1. t.st \in StatesOf(t.fn) BY <1>13 DEF StatesOf
  <2>2. t.fn \notin {"initial", "value"} BY <1>13
  <2> QED BY <2>1, <2>2, <1>13, <1>14, <1>16 DEF FitBase
<1>18. FitString(mem', t) BY <1>13 DEF FitString
<1>19. FitBlock(mem', t)
  <2>1. \A i \in n * Unit(Top) + 1 .. Len(mem'[b]) : mem'[b][i] = Cleared
    <3> TAKE i \in n * Unit(Top) + 1 .. Len(mem'[b])
    <3>1. Len(mem'[b]) \in Nat BY <1>5, MemoryFacts
    <3>2. i \in k + 2 .. Len(mem'[b]) BY <3>1, <1>3, <1>7
    <3> QED BY <3>2, <1>5
  <2>2. cap > 0 BY <1>4, <1>7
  <2> QED BY <2>1, <2>2, <1>4, <1>5, <1>7, <1>13, <1>14, <1>15 DEF FitBlock
<1>20. FitArray(mem', t)
  <2>1. t.fn # "array" BY <1>13
  <2> QED BY <2>1 DEF FitArray
<1>21. FitPtr(mem', t)
  <2> SUFFICES ASSUME t.ptr # None
               PROVE  /\ t.fn = "struct" /\ ValidIn(mem', t.ptr) /\ t.at[2] = 1
                      /\ Get(mem', t.ptr).p = t.at[1] /\ t.ptr[1] < t.at[1]
    BY DEF FitPtr
  <2>1. /\ ValidIn(mem, Top.ptr) /\ Top.at[2] = 1
        /\ Get(mem, Top.ptr).p = Top.at[1] /\ Top.ptr[1] < Top.at[1]
    BY <1>1, <1>13 DEF Fit, FitPtr
  <2>2. Top.ptr \in Addresses BY <1>1, <1>13, ParserFacts
  <2>3. Top.ptr[1] <= Top.at[1] /\ Top.ptr # x
    BY <2>1, <2>2, <1>1, <1>2, AddressIs
  <2>4. ValidIn(mem', Top.ptr) /\ Get(mem', Top.ptr) = Get(mem, Top.ptr)
    BY <2>1, <2>2, <2>3, <1>6
  <2> QED BY <2>1, <2>4, <1>13
<1>22. FitMembers(mem', t)
  <2>1. \A i \in DOMAIN Members[t.type] \ t.seen :
           Get(mem', Address(t.at[1], t.at[2] + i - 1)) = Cleared
    <3> TAKE i \in DOMAIN Members[t.type] \ t.seen
    <3>1. Get(mem, Address(Top.at[1], Top.at[2] + i - 1)) = Cleared
      BY <1>1, <1>13 DEF Fit, FitMembers
    <3>2. Members[Top.type] \in Seq(Types) BY <1>1, TypeFacts
    <3>3. i \in 1 .. Len(Members[Top.type]) /\ Len(Members[Top.type]) \in Nat
      BY <3>2, <1>13
    <3>4. Base(Top) = Len(Members[Top.type]) + 1 BY <1>1 DEF StructWidth
    <3> DEFINE j == Top.at[2] + i - 1
               a == Address(Top.at[1], j)
    <3>5. j \in Top.at[2] .. Top.at[2] + Base(Top) - 1 /\ j \in Nat
      BY <3>3, <3>4, <1>1, SMTT(60)
    <3>6. x = Address(Top.at[1], Top.at[2] + Len(Members[Top.type]))
      BY <1>2 DEF Extras
    <3>7. j # Top.at[2] + Len(Members[Top.type]) BY <3>3, <1>1
    <3> HIDE DEF j
    <3>8. a # x BY <3>6, <3>7 DEF Address
    <3>9. a \in Addresses /\ a[1] = Top.at[1] BY <3>5, <1>1, AddressFacts
    <3>10. a[1] <= Top.at[1] BY <3>9, <1>1
    <3>11. ValidIn(mem, a) BY <3>5, <1>16
    <3>12. Get(mem', a) = Get(mem, a) BY <3>8, <3>9, <3>10, <3>11, <1>6
    <3> QED BY <3>1, <3>12, <1>13 DEF j
  <2>2. IsExtra(mem', t) BY <1>7, <1>10, <1>13, <1>15 DEF IsExtra
  <2>3. \A i \in t.childAt[2] .. t.childAt[2] + Width(t.child) - 1 :
           Get(mem', Address(t.childAt[1], i)) = Cleared
    <3> TAKE i \in t.childAt[2] .. t.childAt[2] + Width(t.child) - 1
    <3>1. i \in k + 2 .. k + 2 + Width(el) - 1 BY <1>9, <1>13
    <3>2. Len(mem'[b]) \in Nat BY <1>5, MemoryFacts
    <3>3. n * Unit(Top) <= Len(mem'[b])
      <4>1. Unit(Top) \in Nat BY <1>3
      <4>2. n * Unit(Top) <= cap * Unit(Top) BY <4>1, <1>4, <1>7, Times
      <4> QED BY <4>2, <1>5
    <3>4. i \in k + 2 .. Len(mem'[b]) BY <3>1, <3>2, <3>3, <1>3, <1>7
    <3>5. i \in Nat BY <3>1, <1>7
    <3>6. Address(b, i)[1] = b /\ Address(b, i)[2] = i BY <3>5, <1>4, AddressFacts
    <3>7. Address(t.childAt[1], i) = Address(b, i) BY <1>9, <1>13
    <3> QED BY <3>4, <3>6, <3>7, <1>5 DEF Get
  <2> QED BY <2>1, <2>2, <2>3 DEF FitMembers
<1>23. Fit(mem', t) BY <1>17, <1>18, <1>19, <1>20, <1>21, <1>22 DEF Fit
<1>24. Heap(mem', used', {t.buf} \ {Null}, dropped')
  <2>1. {t.buf} \ {Null} = {} BY <1>13
  <2> QED BY <2>1, <1>5
<1>25. Home(t) >= Home(Top) BY <1>1, <1>14, HomeFacts
<1>26. \A a \in Addresses : Owns(mem', t, a) => Owns(mem, Top, a) \/ a[1] \notin DOMAIN mem
  <2> SUFFICES ASSUME NEW a \in Addresses, Owns(mem', t, a), a[1] \in DOMAIN mem
               PROVE  Owns(mem, Top, a)
    OBVIOUS
  <2>1. CASE InBase(t, a)
    <3>1. InBase(Top, a) BY <2>1, <1>13, <1>14 DEF InBase
    <3> QED BY <3>1, <1>1, BaseFacts DEF Fit
  <2>2. CASE a = t.ptr
    <3>1. a # None BY AddressIs
    <3>2. ValidIn(mem, a) BY <2>2, <3>1, <1>1, <1>13 DEF Fit, FitPtr
    <3> QED BY <2>2, <3>2, <1>13 DEF Owns
  <2>3. CASE a[1] = b
    <3>1. HasBlock(mem, Top) /\ b = Block(mem, Top) BY <2>3, <1>4
    <3>2. a[2] \in DOMAIN mem'[b] /\ b \in DOMAIN mem BY <2>3 DEF Owns, ValidIn
    <3>3. DOMAIN mem'[b] = DOMAIN mem[b] BY <3>2, <1>4, <1>5
    <3>4. ValidIn(mem, a) BY <2>3, <3>2, <3>3 DEF ValidIn
    <3> QED BY <2>3, <3>1, <3>4 DEF Owns
  <2> QED BY <2>1, <2>2, <2>3, <1>15 DEF Owns
<1> QED
  BY <1>5, <1>1, <1>23, <1>24, <1>25, <1>26, StepGoesOn

\* The name has been copied into a block of its own.
LEMMA NameFacts ==
    ASSUME Innermost, Top.fn = "struct", NEW h, h = With(mem, Fresh, <<>>)
    PROVE  /\ IsMemory(h) /\ Only(mem, h, Top) /\ Heap(h, Fresh, {Fresh}, dropped)
           /\ DOMAIN h = DOMAIN mem \cup {Fresh} /\ Fresh \in Nat
           /\ \A b \in DOMAIN mem : h[b] = mem[b] /\ b # Fresh /\ b \in Nat /\ b < Fresh
           /\ \A a \in Addresses : ValidIn(mem, a) => ValidIn(h, a) /\ Get(h, a) = Get(mem, a)
<1>1. /\ IsMemory(mem) /\ Fresh = used + 1 /\ used \in Nat /\ Fresh \notin DOMAIN mem
      /\ \A b \in DOMAIN mem : b \in Nat /\ b < Fresh
  BY InnermostFacts
<1>2. Heap(mem, used, {}, dropped) BY StructFacts
<1> DEFINE z == Zeroed(0)
<1>3. z \in Seq(Cells) /\ Len(z) = 0 /\ z = Zeroed(0) BY ZeroedFacts
<1> HIDE DEF z
<1>4. z = <<>> BY <1>3
<1>5. h = With(mem, used + 1, Zeroed(0)) BY <1>1, <1>3, <1>4
<1>6. Heap(h, Fresh, {Fresh}, dropped)
  <2>1. {} \cup {used + 1} = {Fresh} BY <1>1
  <2>2. Heap(h, used + 1, {} \cup {used + 1}, dropped) BY <1>2, <1>5, HeapNew
  <2> QED BY <2>1, <2>2, <1>1
<1>7. Only(mem, h, Top) BY <1>1, <1>3, <1>4, OnlySame, OnlyWith
<1>8. IsWith(h, mem, Fresh, z) BY <1>1, <1>3, <1>4, WithFacts
<1>9. /\ IsMemory(h) /\ DOMAIN h = DOMAIN mem \cup {Fresh}
      /\ \A b \in DOMAIN mem : h[b] = mem[b] /\ b # Fresh /\ b \in Nat /\ b < Fresh
  BY <1>1, <1>8 DEF IsWith
<1>10. \A a \in Addresses : ValidIn(mem, a) => ValidIn(h, a) /\ Get(h, a) = Get(mem, a)
  BY <1>9 DEF ValidIn, Get
<1>11. Fresh \in Nat BY <1>1
<1> QED BY <1>6, <1>7, <1>9, <1>10, <1>11

LEMMA RoomyInPlace ==
    ASSUME Innermost, Top.fn = "struct", Count(mem, Top) < Room(mem, Top)
    PROVE  IsRoomy(With(mem, Fresh, <<>>), Fresh, Block(mem, Top), Room(mem, Top))
<1> DEFINE h == With(mem, Fresh, <<>>)
           b == Block(mem, Top)
           x == Anchor(Top)
<1>1. /\ IsMemory(h) /\ Only(mem, h, Top) /\ Heap(h, Fresh, {Fresh}, dropped)
      /\ DOMAIN h = DOMAIN mem \cup {Fresh} /\ Fresh \in Nat
  BY NameFacts
<1>2. \A y \in DOMAIN mem : h[y] = mem[y] /\ y # Fresh BY NameFacts
<1>3. \A a \in Addresses : ValidIn(mem, a) => ValidIn(h, a) /\ Get(h, a) = Get(mem, a)
  BY NameFacts
<1>4. /\ x \in Addresses /\ ValidIn(mem, x) /\ b = Get(mem, x).p
      /\ Count(mem, Top) \in Nat /\ Room(mem, Top) \in Nat
      /\ HasBlock(mem, Top) <=> Room(mem, Top) # 0
  BY ExtrasFacts
<1>5. HasBlock(mem, Top) BY <1>4
<1>6. /\ b \in DOMAIN mem /\ b > Top.at[1] /\ b \in Nat
      /\ Len(mem[b]) = Room(mem, Top) * Unit(Top)
      /\ \A i \in Count(mem, Top) * Unit(Top) + 1 .. Len(mem[b]) : mem[b][i] = Cleared
  BY <1>5, ExtrasFacts
<1> HIDE DEF h, b
<1>7. b \in DOMAIN h /\ b # Fresh /\ h[b] = mem[b] BY <1>1, <1>2, <1>6
<1>8. Get(h, x).p = b BY <1>3, <1>4
<1>9. IsRoomy(h, Fresh, b, Room(mem, Top))
  BY <1>1, <1>3, <1>4, <1>5, <1>6, <1>7, <1>8 DEF IsRoomy, x, b
<1> QED BY <1>9 DEF h, b

\* The name is in hand, and the cell of the extra members e will get its block.
LEMMA RoomyAllocated ==
    ASSUME Innermost, Top.fn = "struct", Room(mem, Top) = 0,
           NEW e \in Cells, e.p = Get(mem, Anchor(Top)).p
    PROVE  IsRoomy(With(Put(With(mem, Fresh, <<>>), Anchor(Top), e), used + 2,
                        Zeroed(InitialCapacity * EntryWidth(Top.type))),
                   used + 2, used + 2, InitialCapacity)
<1> DEFINE h == With(mem, Fresh, <<>>)
           x == Anchor(Top)
           g == Put(h, x, e)
           n == InitialCapacity * EntryWidth(Top.type)
           z == Zeroed(n)
           new == Fresh + 1
           v == With(g, new, z)
<1>1. /\ IsMemory(h) /\ Only(mem, h, Top) /\ Heap(h, Fresh, {Fresh}, dropped)
      /\ DOMAIN h = DOMAIN mem \cup {Fresh} /\ Fresh \in Nat
      /\ h = With(mem, Fresh, <<>>)
  BY NameFacts
<1>2. \A y \in DOMAIN mem : h[y] = mem[y] /\ y # Fresh /\ y \in Nat /\ y < Fresh BY NameFacts
<1>3. \A a \in Addresses : ValidIn(mem, a) => ValidIn(h, a) /\ Get(h, a) = Get(mem, a)
  BY NameFacts
<1>4. /\ x \in Addresses /\ ValidIn(mem, x) /\ x[1] = Top.at[1] /\ Owns(mem, Top, x)
      /\ Count(mem, Top) \in Nat /\ Block(mem, Top) = Get(mem, x).p
      /\ HasBlock(mem, Top) <=> Room(mem, Top) # 0
      /\ ~HasBlock(mem, Top) => Block(mem, Top) <= 0 /\ Count(mem, Top) = 0
  BY ExtrasFacts
<1>5. Count(mem, Top) = 0 /\ Get(mem, x).p <= 0 BY <1>4
<1>6. e.p = Get(mem, x).p OBVIOUS
<1>7. Unit(Top) = EntryWidth(Top.type) /\ Unit(Top) \in Nat
  BY StructFacts, InnermostFacts, ParserFacts
<1>8. InitialCapacity \in Nat \ {0} BY SizeAssumption
<1>9. n \in Nat /\ n = InitialCapacity * Unit(Top) BY <1>7, <1>8, Times
<1>10. used \in Nat /\ new = used + 2 /\ Fresh = used + 1 /\ new \in Nat /\ new # Fresh
       /\ new > Fresh
  <2>1. used \in Nat /\ Fresh = used + 1 BY InnermostFacts
  <2> QED BY <2>1
<1>11. h = With(mem, Fresh, <<>>) /\ v = With(Put(h, Anchor(Top), e), new, Zeroed(n))
  OBVIOUS
<1> HIDE DEF h, x, n, new
<1>12. z \in Seq(Cells) /\ Len(z) = n /\ \A i \in 1 .. n : z[i] = Cleared
  BY <1>9, ZeroedFacts
<1>13. ValidIn(h, x) /\ Get(h, x) = Get(mem, x) BY <1>3, <1>4
<1>14. Heap(g, Fresh, {Fresh}, dropped) BY <1>1, <1>4, <1>6, <1>13, HeapPut
<1>15. Only(mem, g, Top) BY <1>1, <1>4, <1>13, InnermostFacts, OnlyPut
<1>16. /\ IsMemory(g) /\ ValidIn(g, x) /\ Get(g, x) = e
       /\ \A a \in Addresses : ValidIn(h, a) =>
             ValidIn(g, a) /\ (a = x \/ Get(g, a) = Get(h, a))
  BY <1>1, <1>4, <1>13, PutGet
<1>17. DOMAIN g = DOMAIN mem \cup {Fresh} BY <1>1, <1>4, <1>13, PutFacts
<1> HIDE DEF g
<1>18. new \notin DOMAIN g /\ new \notin DOMAIN mem BY <1>2, <1>10, <1>17
<1>19. Heap(v, new, {Fresh, new}, dropped)
  <2>1. {Fresh} \cup {Fresh + 1} = {Fresh, new} BY DEF new
  <2>2. Heap(With(g, Fresh + 1, Zeroed(n)), Fresh + 1, {Fresh} \cup {Fresh + 1}, dropped)
    BY <1>9, <1>14, HeapNew
  <2> QED BY <2>1, <2>2 DEF new
<1>20. Only(mem, v, Top) BY <1>12, <1>15, <1>16, <1>18, OnlyWith
<1>21. IsWith(v, g, new, z) BY <1>12, <1>16, WithFacts
<1> HIDE DEF z, v
<1>22. /\ IsMemory(v) /\ v[new] = z /\ new \in DOMAIN v
       /\ \A y \in DOMAIN g : y # new /\ v[y] = g[y] /\ y \in DOMAIN v
  BY <1>18, <1>21 DEF IsWith
<1>23. \A a \in Addresses : ValidIn(g, a) => ValidIn(v, a) /\ Get(v, a) = Get(g, a)
  BY <1>22 DEF ValidIn, Get
<1>24. \A a \in Addresses : ValidIn(mem, a) =>
          ValidIn(v, a) /\ (a = x \/ Get(v, a) = Get(mem, a))
  BY <1>3, <1>16, <1>23
<1>25. Get(v, x).p <= 0 BY <1>4, <1>5, <1>6, <1>16, <1>23
<1>26. new > Top.at[1]
  <2>1. Top.at[1] \in DOMAIN mem BY <1>4 DEF ValidIn
  <2> QED BY <2>1, <1>2, <1>10, <1>1
<1>27. \A i \in Count(mem, Top) * Unit(Top) + 1 .. Len(v[new]) : v[new][i] = Cleared
  <2>1. Count(mem, Top) * Unit(Top) + 1 = 1 BY <1>5, <1>7
  <2> QED BY <2>1, <1>12, <1>22
<1>28. /\ Count(mem, Top) < InitialCapacity /\ InitialCapacity \in Nat
       /\ Len(v[new]) = InitialCapacity * Unit(Top)
  BY <1>5, <1>8, <1>9, <1>12, <1>22
<1>29. IsRoomy(v, new, new, InitialCapacity)
  BY <1>10, <1>18, <1>19, <1>20, <1>22, <1>24, <1>25, <1>26, <1>27, <1>28 DEF IsRoomy, x
<1>30. v = With(Put(With(mem, Fresh, <<>>), Anchor(Top), e), used + 2,
                Zeroed(InitialCapacity * EntryWidth(Top.type)))
  BY <1>10, <1>11 DEF n
<1> QED BY <1>10, <1>29, <1>30

\* What was in a cell before it is written again does not matter.
LEMMA PutOver ==
    ASSUME NEW m, IsMemory(m), NEW a \in Addresses, ValidIn(m, a),
           NEW y \in Addresses, ValidIn(m, y), y # a,
           NEW e \in Cells, NEW c \in Cells, NEW g \in Cells
    PROVE  Put(Put(Put(m, a, e), y, c), a, g) = Put(Put(m, y, c), a, g)
<1> DEFINE p == Put(m, a, e)
           q == Put(p, y, c)
           v == Put(q, a, g)
           r == Put(m, y, c)
           w == Put(r, a, g)
<1>1. /\ IsMemory(p) /\ ValidIn(p, a) /\ ValidIn(p, y) BY PutGet
<1>2. /\ DOMAIN p = DOMAIN m
      /\ \A b \in DOMAIN m : /\ DOMAIN p[b] = DOMAIN m[b]
                             /\ \A i \in DOMAIN m[b] :
                                   p[b][i] = IF b = a[1] /\ i = a[2] THEN e ELSE m[b][i]
  BY PutFacts
<1> HIDE DEF p
<1>3. IsMemory(q) /\ ValidIn(q, a) BY <1>1, PutGet
<1>4. /\ DOMAIN q = DOMAIN p
      /\ \A b \in DOMAIN p : /\ DOMAIN q[b] = DOMAIN p[b]
                             /\ \A i \in DOMAIN p[b] :
                                   q[b][i] = IF b = y[1] /\ i = y[2] THEN c ELSE p[b][i]
  BY <1>1, PutFacts
<1> HIDE DEF q
<1>5. IsMemory(v) BY <1>3, PutGet
<1>6. /\ DOMAIN v = DOMAIN q
      /\ \A b \in DOMAIN q : /\ DOMAIN v[b] = DOMAIN q[b]
                             /\ \A i \in DOMAIN q[b] :
                                   v[b][i] = IF b = a[1] /\ i = a[2] THEN g ELSE q[b][i]
  BY <1>3, PutFacts
<1> HIDE DEF v
<1>7. /\ IsMemory(r) /\ ValidIn(r, a) BY PutGet
<1>8. /\ DOMAIN r = DOMAIN m
      /\ \A b \in DOMAIN m : /\ DOMAIN r[b] = DOMAIN m[b]
                             /\ \A i \in DOMAIN m[b] :
                                   r[b][i] = IF b = y[1] /\ i = y[2] THEN c ELSE m[b][i]
  BY PutFacts
<1> HIDE DEF r
<1>9. IsMemory(w) BY <1>7, PutGet
<1>10. /\ DOMAIN w = DOMAIN r
       /\ \A b \in DOMAIN r : /\ DOMAIN w[b] = DOMAIN r[b]
                              /\ \A i \in DOMAIN r[b] :
                                    w[b][i] = IF b = a[1] /\ i = a[2] THEN g ELSE r[b][i]
  BY <1>7, PutFacts
<1> HIDE DEF w
<1>11. DOMAIN v = DOMAIN w BY <1>2, <1>4, <1>6, <1>8, <1>10
<1>12. \A b \in DOMAIN w : /\ DOMAIN v[b] = DOMAIN w[b]
                           /\ \A i \in DOMAIN w[b] : v[b][i] = w[b][i]
  <2> SUFFICES ASSUME NEW b \in DOMAIN m
               PROVE  /\ DOMAIN v[b] = DOMAIN w[b]
                      /\ \A i \in DOMAIN w[b] : v[b][i] = w[b][i]
    BY <1>8, <1>10
  <2>1. DOMAIN v[b] = DOMAIN m[b] /\ DOMAIN w[b] = DOMAIN m[b]
    BY <1>2, <1>4, <1>6, <1>8, <1>10
  <2>2. \A i \in DOMAIN m[b] : v[b][i] = w[b][i]
    BY <1>2, <1>4, <1>6, <1>8, <1>10
  <2> QED BY <2>1, <2>2
<1>13. v = w BY <1>5, <1>9, <1>11, <1>12, MemoryEqual
<1> QED BY <1>13 DEF v, w, q, r, p

\* The members are moved into a block of twice the size, which the pointer to
\* the old one, given up in between, will point to.
LEMMA RoomyMoved ==
    ASSUME Innermost, Top.fn = "struct", Room(mem, Top) # 0,
           Count(mem, Top) >= Room(mem, Top), NEW c \in Cells, c.p = Null
    PROVE  IsRoomy(Moved(Put(With(mem, Fresh, <<>>), Anchor(Top), c), Block(mem, Top),
                         used + 2, (2 * Room(mem, Top)) * EntryWidth(Top.type)),
                   used + 2, used + 2, 2 * Room(mem, Top))
<1> DEFINE h == With(mem, Fresh, <<>>)
           x == Anchor(Top)
           b == Block(mem, Top)
           cap == Room(mem, Top)
           U == Unit(Top)
           g == Put(h, x, c)
           n == (2 * cap) * U
           new == Fresh + 1
           v == Moved(g, b, new, n)
<1>1. /\ IsMemory(h) /\ Only(mem, h, Top) /\ Heap(h, Fresh, {Fresh}, dropped)
      /\ DOMAIN h = DOMAIN mem \cup {Fresh} /\ Fresh \in Nat
      /\ h = With(mem, Fresh, <<>>)
  BY NameFacts
<1>2. \A y \in DOMAIN mem : h[y] = mem[y] /\ y # Fresh /\ y \in Nat /\ y < Fresh BY NameFacts
<1>3. \A a \in Addresses : ValidIn(mem, a) => ValidIn(h, a) /\ Get(h, a) = Get(mem, a)
  BY NameFacts
<1>4. /\ x \in Addresses /\ ValidIn(mem, x) /\ x[1] = Top.at[1] /\ Owns(mem, Top, x)
      /\ Count(mem, Top) \in Nat /\ b = Get(mem, x).p /\ cap \in Nat
      /\ HasBlock(mem, Top) <=> cap # 0
  BY ExtrasFacts
<1>5. HasBlock(mem, Top) BY <1>4
<1>6. /\ b \in DOMAIN mem /\ b > Top.at[1] /\ b \in Nat
      /\ Count(mem, Top) <= cap
      /\ Len(mem[b]) = cap * U
  BY <1>5, ExtrasFacts
<1>7. U = EntryWidth(Top.type) /\ U \in Nat
  BY StructFacts, InnermostFacts, ParserFacts
<1>8. Count(mem, Top) = cap /\ cap > 0 BY <1>4, <1>6
<1>9. used \in Nat /\ new = used + 2 /\ Fresh = used + 1 /\ new \in Nat /\ new # Fresh
       /\ new > Fresh
  <2>1. used \in Nat /\ Fresh = used + 1 BY InnermostFacts
  <2> QED BY <2>1
<1>10. v = Moved(Put(With(mem, Fresh, <<>>), Anchor(Top), c), Block(mem, Top), new,
                 (2 * Room(mem, Top)) * EntryWidth(Top.type))
  BY <1>7
<1>11. Count(mem, Top) = cap /\ b = Block(mem, Top) /\ cap = Room(mem, Top)
  BY <1>8
<1> HIDE DEF h, x, n, new, cap, U, b
<1>12. cap * U \in Nat /\ (2 * cap) * U = 2 * (cap * U) /\ 2 * (cap * U) \in Nat
       /\ cap * U <= 2 * (cap * U)
  <2>1. cap * U \in Nat BY <1>4, <1>7, Times
  <2>2. (2 * cap) * U = 2 * (cap * U) BY <1>4, <1>7
  <2> QED BY <2>1, <2>2
<1>13. ValidIn(h, x) /\ Get(h, x) = Get(mem, x) BY <1>3, <1>4
<1>14. Top.at[1] \in Nat BY StructFacts
<1>15. Heap(g, Fresh, {Fresh, b}, dropped)
  <2>1. Get(h, x).p = b /\ b > 0 BY <1>4, <1>6, <1>13, <1>14
  <2>2. Heap(g, Fresh, {Fresh} \cup {Get(h, x).p}, dropped)
    BY <2>1, <1>1, <1>4, <1>13, HeapGive
  <2>3. {Fresh} \cup {Get(h, x).p} = {Fresh, b} BY <2>1
  <2> QED BY <2>2, <2>3
<1>16. Only(mem, g, Top) BY <1>1, <1>4, <1>13, InnermostFacts, OnlyPut
<1>17. /\ IsMemory(g) /\ ValidIn(g, x) /\ Get(g, x) = c
       /\ \A a \in Addresses : ValidIn(h, a) =>
             ValidIn(g, a) /\ (a = x \/ Get(g, a) = Get(h, a))
  BY <1>1, <1>4, <1>13, PutGet
<1>18. DOMAIN g = DOMAIN mem \cup {Fresh} /\ g[b] = h[b] /\ h[b] = mem[b] /\ b # Fresh
  <2>1. b # x[1] BY <1>4, <1>6, <1>14
  <2>2. b \in DOMAIN h /\ h[b] = mem[b] /\ b # Fresh BY <1>1, <1>2, <1>6
  <2> QED BY <2>1, <2>2, <1>1, <1>4, <1>13, PutFacts
<1> HIDE DEF g
<1>19. new \notin DOMAIN g /\ new \notin DOMAIN mem BY <1>2, <1>9, <1>18
<1>20. b \in DOMAIN g /\ Len(g[b]) = cap * U /\ Len(g[b]) <= n /\ n \in Nat
  BY <1>6, <1>12, <1>18 DEF n
<1>21. Heap(v, new, {Fresh, new}, dropped)
  <2>1. ({Fresh, b} \ {b}) \cup {Fresh + 1} = {Fresh, new} BY <1>18 DEF new
  <2>2. b \in {Fresh, b} OBVIOUS
  <2>3. Heap(Moved(g, b, Fresh + 1, n), Fresh + 1, ({Fresh, b} \ {b}) \cup {Fresh + 1},
             dropped)
    BY <2>2, <1>15, <1>20, HeapMoved
  <2> QED BY <2>1, <2>3 DEF new
<1>22. Only(mem, v, Top)
  BY <1>5, <1>11, <1>16, <1>17, <1>19, <1>20, InnermostFacts, OnlyMoved
<1>23. IsMoved(v, g, b, new, n) BY <1>17, <1>19, <1>20, MovedFacts
<1> HIDE DEF v
<1>24. /\ IsMemory(v) /\ new \in DOMAIN v /\ Len(v[new]) = n
       /\ \A y \in DOMAIN g \ {b} : v[y] = g[y] /\ y \in DOMAIN v
       /\ \A i \in cap * U + 1 .. n : v[new][i] = Cleared
  BY <1>20, <1>23 DEF IsMoved
<1>25. \A a \in Addresses : ValidIn(g, a) /\ a[1] # b
                            => ValidIn(v, a) /\ Get(v, a) = Get(g, a)
  BY <1>24 DEF ValidIn, Get
<1>26. \A a \in Addresses : ValidIn(mem, a) /\ a[1] <= Top.at[1] =>
          ValidIn(v, a) /\ (a = x \/ Get(v, a) = Get(mem, a))
  <2> SUFFICES ASSUME NEW a \in Addresses, ValidIn(mem, a), a[1] <= Top.at[1]
               PROVE  ValidIn(v, a) /\ (a = x \/ Get(v, a) = Get(mem, a))
    OBVIOUS
  <2>1. a[1] # b BY <1>6, <1>14, AddressIs
  <2>2. ValidIn(h, a) /\ Get(h, a) = Get(mem, a) BY <1>3
  <2>3. ValidIn(g, a) /\ (a = x \/ Get(g, a) = Get(h, a)) BY <2>2, <1>17
  <2>4. ValidIn(v, a) /\ Get(v, a) = Get(g, a) BY <2>1, <2>3, <1>25
  <2> QED BY <2>2, <2>3, <2>4
<1>27. Get(v, x).p <= 0
  <2>1. x[1] # b BY <1>4, <1>6, <1>14
  <2>2. Get(v, x) = c BY <2>1, <1>4, <1>17, <1>25
  <2> QED BY <2>2 DEF Null
<1>28. new > Top.at[1]
  <2>1. Top.at[1] \in DOMAIN mem BY <1>4 DEF ValidIn
  <2> QED BY <2>1, <1>1, <1>2, <1>9
<1>29. \A i \in Count(mem, Top) * Unit(Top) + 1 .. Len(v[new]) : v[new][i] = Cleared
  BY <1>11, <1>24 DEF U
<1>30. 2 * cap \in Nat /\ Count(mem, Top) < 2 * cap /\ Len(v[new]) = (2 * cap) * Unit(Top)
  BY <1>4, <1>8, <1>24 DEF U, n
<1>31. IsRoomy(v, new, new, 2 * cap)
  BY <1>9, <1>19, <1>21, <1>22, <1>24, <1>26, <1>27, <1>28, <1>29, <1>30 DEF IsRoomy, x
<1> QED BY <1>9, <1>10, <1>11, <1>31

AddedCell(x, b, n) == [x EXCEPT !.p = b, !.len = n]
NameCell == [Cleared EXCEPT !.p = Fresh]

LEMMA AddedCellFacts ==
    ASSUME NEW x \in Cells, NEW b \in Int, NEW n \in Nat
    PROVE  /\ AddedCell(x, b, n) \in Cells
           /\ AddedCell(x, b, n).p = b /\ AddedCell(x, b, n).len = n
           /\ AddedCell(x, b, n).cap = x.cap
BY DEF Cells, AddedCell

LEMMA NameCellFacts ==
    ASSUME Innermost
    PROVE  NameCell \in Cells /\ NameCell.p = Fresh
<1>1. Fresh \in Int
  <2>1. used \in Nat /\ Fresh = used + 1 BY InnermostFacts
  <2> QED BY <2>1
<1>2. Cleared \in Cells BY CellType
<1> QED BY <1>1, <1>2, CellWith DEF NameCell

\* What add_extra writes, in the terms of the lemmas above.
LEMMA EnteredIs ==
    ASSUME Innermost, Top.fn = "struct", NEW m, NEW b
    PROVE  Entered(m, Top.type, Top.at, b, Fresh)
           = Added(m, b, Count(mem, Top) + 1, NameCell,
                   AddedCell(Get(m, Anchor(Top)), b, Count(mem, Top) + 1))
<1>1. /\ Anchor(Top) = Extras(Top.type, Top.at)
      /\ At(Anchor(Top)).len = Count(mem, Top)
  BY ExtrasFacts
<1> QED BY <1>1 DEF Entered, Added, AddedCell, NameCell, Get

Adds(b) == GoOn([Top EXCEPT !.st = "named", !.child = Element[Top.type],
                            !.childAt = ValueAt(Top.type, b, Count(mem, Top) + 1)])

\* The three ways of add_extra.
LEMMA ExtraCases ==
    ASSUME Innermost, StructExtra
    PROVE  LET x    == Anchor(Top)
               cap  == Room(mem, Top)
               here == With(mem, Fresh, <<>>)
               more == IF cap = 0 THEN InitialCapacity ELSE 2 * cap
               room == Put(here, x, [Get(mem, x) EXCEPT !.cap = more])
           IN
           /\ Top.fn = "struct" /\ Top.st = "name" /\ dropped' = dropped
           /\ \/ /\ Count(mem, Top) < cap /\ used' = Fresh /\ Adds(Block(mem, Top))
                 /\ mem' = Entered(here, Top.type, Top.at, Block(mem, Top), Fresh)
              \/ /\ ~(Count(mem, Top) < cap) /\ used' = used + 2 /\ Adds(used + 2)
                 /\ cap = 0
                 /\ mem' = Entered(With(room, used + 2, Zeroed(more * EntryWidth(Top.type))),
                                   Top.type, Top.at, used + 2, Fresh)
              \/ /\ ~(Count(mem, Top) < cap) /\ used' = used + 2 /\ Adds(used + 2)
                 /\ cap # 0
                 /\ mem' = Entered(Moved(room, Block(mem, Top), used + 2,
                                         more * EntryWidth(Top.type)),
                                   Top.type, Top.at, used + 2, Fresh)
<1>1. /\ Top.fn = "struct" /\ Top.st = "name" /\ dropped' = dropped
      /\ mem' = AddExtra(Top.type, Top.at).mem /\ used' = AddExtra(Top.type, Top.at).used
      /\ GoOn([Top EXCEPT !.st = "named", !.child = Element[Top.type],
                          !.childAt = AddExtra(Top.type, Top.at).at])
  BY DEF StructExtra, In, Inside
<1>2. /\ Anchor(Top) = Extras(Top.type, Top.at)
      /\ At(Anchor(Top)) = Get(mem, Anchor(Top))
      /\ Block(mem, Top) = Get(mem, Anchor(Top)).p
      /\ Count(mem, Top) = Get(mem, Anchor(Top)).len
      /\ Room(mem, Top) = Get(mem, Anchor(Top)).cap
  BY <1>1, ExtrasFacts
<1> DEFINE x == Anchor(Top)
           cap == Room(mem, Top)
<1>3. CASE Count(mem, Top) < cap
  <2>1. /\ AddExtra(Top.type, Top.at).used = Fresh
        /\ AddExtra(Top.type, Top.at).at = ValueAt(Top.type, Block(mem, Top), Count(mem, Top) + 1)
        /\ AddExtra(Top.type, Top.at).mem
           = Entered(With(mem, Fresh, <<>>), Top.type, Top.at, Block(mem, Top), Fresh)
    BY <1>2, <1>3 DEF AddExtra
  <2> QED BY <2>1, <1>1, <1>3 DEF Adds
<1>4. CASE ~(Count(mem, Top) < cap)
  <2>1. /\ AddExtra(Top.type, Top.at).used = used + 2
        /\ AddExtra(Top.type, Top.at).at = ValueAt(Top.type, used + 2, Count(mem, Top) + 1)
    BY <1>2, <1>4 DEF AddExtra
  <2>2. CASE cap = 0
    <3>1. AddExtra(Top.type, Top.at).mem
          = Entered(With(Put(With(mem, Fresh, <<>>), x,
                             [Get(mem, x) EXCEPT !.cap = InitialCapacity]), used + 2,
                         Zeroed(InitialCapacity * EntryWidth(Top.type))),
                    Top.type, Top.at, used + 2, Fresh)
      BY <1>2, <1>4, <2>2 DEF AddExtra
    <3> QED BY <2>1, <2>2, <3>1, <1>1, <1>4 DEF Adds
  <2>3. CASE cap # 0
    <3>1. AddExtra(Top.type, Top.at).mem
          = Entered(Moved(Put(With(mem, Fresh, <<>>), x,
                              [Get(mem, x) EXCEPT !.cap = 2 * cap]), Block(mem, Top),
                          used + 2, (2 * cap) * EntryWidth(Top.type)),
                    Top.type, Top.at, used + 2, Fresh)
      BY <1>2, <1>4, <2>3 DEF AddExtra
    <3> QED BY <2>1, <2>3, <3>1, <1>1, <1>4 DEF Adds
  <2> QED BY <2>2, <2>3
<1> QED BY <1>3, <1>4

\* There is room, or has been made, for a member.
LEMMA EnteredKeeps ==
    ASSUME Innermost, Top.fn = "struct", Top.st = "name", dropped' = dropped,
           NEW v, NEW b, NEW cap, IsRoomy(v, used', b, cap),
           NEW x \in Cells, x.cap = cap,
           mem' = Added(v, b, Count(mem, Top) + 1, NameCell,
                        AddedCell(x, b, Count(mem, Top) + 1)),
           Adds(b)
    PROVE  IInv'
<1> DEFINE n == Count(mem, Top) + 1
           c2 == AddedCell(x, b, n)
           t == [Top EXCEPT !.st = "named", !.child = Element[Top.type],
                            !.childAt = ValueAt(Top.type, b, n)]
<1>1. n \in Nat /\ b \in Int
  <2>1. Count(mem, Top) \in Nat BY ExtrasFacts
  <2>2. b \in Nat BY DEF IsRoomy
  <2> QED BY <2>1, <2>2
<1>2. c2 \in Cells /\ c2.p = b /\ c2.len = n /\ c2.cap = cap
  BY <1>1, AddedCellFacts
<1>3. NameCell \in Cells /\ NameCell.p = Fresh BY NameCellFacts
<1>4. GoOn(t) BY DEF Adds
<1>5. mem' = Added(v, b, n, NameCell, c2) OBVIOUS
<1>6. n = Count(mem, Top) + 1 OBVIOUS
<1>7. t = [Top EXCEPT !.st = "named", !.child = Element[Top.type],
                      !.childAt = ValueAt(Top.type, b, n)]
  OBVIOUS
<1> HIDE DEF n, c2, t
<1> QED BY <1>2, <1>3, <1>4, <1>5, <1>6, <1>7, AddedKeeps

LEMMA StructExtraKeeps ==
    ASSUME Innermost, StructExtra
    PROVE  IInv'
<1> DEFINE x == Anchor(Top)
           cap == Room(mem, Top)
           X == Get(mem, x)
           here == With(mem, Fresh, <<>>)
           n == Count(mem, Top) + 1
<1>1. Top.fn = "struct" /\ Top.st = "name" /\ dropped' = dropped BY ExtraCases
<1>2. /\ x \in Addresses /\ ValidIn(mem, x) /\ X \in Cells /\ cap = X.cap /\ cap \in Nat
      /\ Block(mem, Top) = X.p /\ Count(mem, Top) \in Nat
      /\ x[1] = Top.at[1]
      /\ ~HasBlock(mem, Top) => Block(mem, Top) <= 0
      /\ HasBlock(mem, Top) => /\ Block(mem, Top) \in DOMAIN mem
                               /\ Block(mem, Top) > Top.at[1]
                               /\ Len(mem[Block(mem, Top)]) = cap * Unit(Top)
      /\ HasBlock(mem, Top) <=> cap # 0
  BY <1>1, ExtrasFacts
<1>3. /\ IsMemory(here) /\ DOMAIN here = DOMAIN mem \cup {Fresh}
      /\ ValidIn(here, x) /\ Get(here, x) = X
      /\ here = With(mem, Fresh, <<>>)
  <2>1. /\ IsMemory(here) /\ DOMAIN here = DOMAIN mem \cup {Fresh}
        /\ \A a \in Addresses : ValidIn(mem, a) => ValidIn(here, a) /\ Get(here, a) = Get(mem, a)
    BY <1>1, NameFacts
  <2> QED BY <2>1, <1>2
<1>4. used \in Nat /\ Fresh = used + 1 /\ (\A y \in DOMAIN mem : y < Fresh /\ y \in Nat)
  BY InnermostFacts
<1>5. NameCell \in Cells BY NameCellFacts
<1>6. CASE /\ Count(mem, Top) < cap /\ used' = Fresh /\ Adds(Block(mem, Top))
           /\ mem' = Entered(here, Top.type, Top.at, Block(mem, Top), Fresh)
  <2>1. IsRoomy(here, used', Block(mem, Top), cap) BY <1>1, <1>6, RoomyInPlace
  <2>2. mem' = Added(here, Block(mem, Top), n, NameCell, AddedCell(X, Block(mem, Top), n))
    BY <1>1, <1>3, <1>6, EnteredIs
  <2>3. Adds(Block(mem, Top)) BY <1>6
  <2> QED BY <2>1, <2>2, <2>3, <1>1, <1>2, EnteredKeeps
<1>7. CASE /\ ~(Count(mem, Top) < cap) /\ used' = used + 2 /\ Adds(used + 2)
           /\ cap = 0
           /\ mem' = Entered(With(Put(here, x, [X EXCEPT !.cap = InitialCapacity]), used + 2,
                                  Zeroed(InitialCapacity * EntryWidth(Top.type))),
                             Top.type, Top.at, used + 2, Fresh)
  <2> DEFINE e == [X EXCEPT !.cap = InitialCapacity]
             z == Zeroed(InitialCapacity * EntryWidth(Top.type))
             g == Put(here, x, e)
             v == With(g, used + 2, z)
  <2>1. InitialCapacity \in Nat BY SizeAssumption
  <2>2. e \in Cells /\ e.p = X.p /\ e.cap = InitialCapacity BY <2>1, <1>2, CellCapacity
  <2> HIDE DEF e
  <2>3. IsRoomy(v, used + 2, used + 2, InitialCapacity) BY <2>2, <1>1, <1>7, RoomyAllocated
  <2>4. IsMemory(g) /\ ValidIn(g, x) /\ Get(g, x) = e BY <2>2, <1>2, <1>3, PutGet
  <2>5. DOMAIN g = DOMAIN here BY <2>2, <1>2, <1>3, PutFacts
  <2>6. x[1] \in DOMAIN g /\ x[1] # used + 2
    <3>1. x[1] \in DOMAIN mem BY <1>2 DEF ValidIn
    <3> QED BY <3>1, <2>5, <1>3, <1>4
  <2>7. z \in Seq(Cells)
    <3>1. InitialCapacity * EntryWidth(Top.type) \in Nat
      <4>1. EntryWidth(Top.type) \in Nat BY <1>1, StructFacts, TypeFacts
      <4> QED BY <4>1, <2>1, Times
    <3> QED BY <3>1, ZeroedFacts
  <2> HIDE DEF z, g
  <2>8. IsWith(v, g, used + 2, z) BY <2>4, <2>7, WithFacts
  <2>9. Get(v, x) = e BY <2>4, <2>6, <2>8 DEF IsWith, Get
  <2>10. mem' = Added(v, used + 2, n, NameCell, AddedCell(Get(v, x), used + 2, n))
    <3>1. mem' = Entered(v, Top.type, Top.at, used + 2, Fresh) BY <1>7 DEF g, e, z
    <3> HIDE DEF v
    <3> QED BY <3>1, <1>1, EnteredIs
  <2> HIDE DEF v
  <2>11. /\ IsRoomy(v, used', used + 2, InitialCapacity) /\ Adds(used + 2)
         /\ mem' = Added(v, used + 2, n, NameCell, AddedCell(e, used + 2, n))
    BY <2>3, <2>9, <2>10, <1>7
  <2> QED BY <2>2, <2>11, <1>1, EnteredKeeps
<1>8. CASE /\ ~(Count(mem, Top) < cap) /\ used' = used + 2 /\ Adds(used + 2)
           /\ cap # 0
           /\ mem' = Entered(Moved(Put(here, x, [X EXCEPT !.cap = 2 * cap]),
                                   Block(mem, Top), used + 2,
                                   (2 * cap) * EntryWidth(Top.type)),
                             Top.type, Top.at, used + 2, Fresh)
  <2> DEFINE e == [X EXCEPT !.cap = 2 * cap]
             c == [e EXCEPT !.p = Null]
             b == Block(mem, Top)
             new == used + 2
             N == (2 * cap) * EntryWidth(Top.type)
             y == NameAt(Top.type, new, n)
             v == Moved(Put(here, x, c), b, new, N)
             w == Moved(Put(here, x, e), b, new, N)
  <2>1. 2 * cap \in Nat BY <1>2
  <2>2. e \in Cells /\ e.p = X.p /\ e.cap = 2 * cap BY <2>1, <1>2, CellCapacity
  <2> HIDE DEF e
  <2>3. c \in Cells /\ c.p = Null
    <3>1. Null \in Int BY DEF Null
    <3> QED BY <3>1, <2>2, CellWith
  <2> HIDE DEF c
  <2>4. IsRoomy(v, new, new, 2 * cap)
    <3>1. Count(mem, Top) >= cap BY <1>2, <1>8
    <3> QED BY <3>1, <2>3, <1>1, <1>8, RoomyMoved
  <2>5. /\ b \in DOMAIN mem /\ b > Top.at[1] /\ Len(mem[b]) = cap * Unit(Top)
    BY <1>2, <1>8
  <2>6. Unit(Top) = EntryWidth(Top.type) /\ Unit(Top) \in Nat
    BY <1>1, StructFacts, InnermostFacts, ParserFacts
  <2>7. b \in DOMAIN here /\ here[b] = mem[b]
    <3>1. \A z \in DOMAIN mem : here[z] = mem[z] BY <1>1, NameFacts
    <3> QED BY <3>1, <2>5, <1>3
  <2>8. N \in Nat /\ Len(here[b]) <= N
    <3>1. cap * Unit(Top) \in Nat BY <2>6, <1>2, Times
    <3>2. (2 * cap) * Unit(Top) = 2 * (cap * Unit(Top)) BY <2>6, <1>2
    <3> QED BY <3>1, <3>2, <2>5, <2>6, <2>7
  <2>9. new \notin DOMAIN here BY <1>3, <1>4
  <2>10. b # x[1]
    <3>1. Top.at[1] \in Nat BY <1>1, StructFacts
    <3>2. b \in Nat BY <2>5, <1>4
    <3> QED BY <3>1, <3>2, <2>5, <1>2
  <2>11. here = With(mem, Fresh, <<>>) /\ N = (2 * cap) * EntryWidth(Top.type)
         /\ b = Block(mem, Top)
    OBVIOUS
  <2>12. new \in Nat BY <1>4
  <2>13. X = Get(mem, x) /\ cap = Room(mem, Top) /\ x = Anchor(Top) /\ new = used + 2
    OBVIOUS
  <2> HIDE DEF here, N, b, X, new
  <2>14. w = Put(v, x, e) BY <2>2, <2>3, <2>7, <2>8, <2>9, <2>10, <1>2, <1>3, PutMoved
  <2>15. mem' = Added(w, new, n, NameCell, AddedCell(Get(w, x), new, n))
    <3>1. mem' = Entered(w, Top.type, Top.at, new, Fresh)
      BY <1>8, <2>11, <2>13 DEF e
    <3> HIDE DEF w
    <3> QED BY <3>1, <1>1, EnteredIs
  <2>16. IsMemory(v) /\ ValidIn(v, x)
    <3>1. IsMemory(v) BY <2>4 DEF IsRoomy
    <3>2. x[1] <= Top.at[1]
      <4>1. Top.at[1] \in Nat BY <1>1, StructFacts
      <4> QED BY <4>1, <1>2
    <3>3. ValidIn(v, x) BY <3>2, <2>4, <1>2 DEF IsRoomy
    <3> QED BY <3>1, <3>3
  <2>17. /\ new \in DOMAIN v /\ Len(v[new]) = (2 * cap) * Unit(Top)
    BY <2>4 DEF IsRoomy
  <2> HIDE DEF v, w
  <2>18. Get(w, x) = e BY <2>2, <2>14, <2>16, <1>2, PutGet
  <2>19. y \in Addresses /\ ValidIn(v, y) /\ y # x
    <3>1. n - 1 = Count(mem, Top) /\ Count(mem, Top) = cap
      <4>1. HasBlock(mem, Top) BY <1>2, <1>8
      <4>2. Count(mem, Top) <= cap BY <4>1, <1>1, ExtrasFacts
      <4> QED BY <4>2, <1>2, <1>8
    <3>2. cap * Unit(Top) \in Nat /\ (2 * cap) * Unit(Top) = 2 * (cap * Unit(Top))
      <4>1. cap * Unit(Top) \in Nat BY <2>6, <1>2, Times
      <4>2. (2 * cap) * Unit(Top) = 2 * (cap * Unit(Top)) BY <2>6, <1>2
      <4> QED BY <4>1, <4>2
    <3>3. cap * Unit(Top) > 0
      <4>1. Unit(Top) \in Nat \ {0} BY InnermostFacts, ParserFacts
      <4>2. cap \in Nat /\ 1 <= cap /\ 1 \in Nat BY <1>2, <1>8
      <4>3. 1 * Unit(Top) <= cap * Unit(Top) BY <4>1, <4>2, Times
      <4> QED BY <4>1, <4>3, <3>2
    <3>4. y = Address(new, cap * Unit(Top) + 1) BY <3>1, <2>6 DEF NameAt
    <3>5. cap * Unit(Top) + 1 \in Nat BY <3>2
    <3>6. y \in Addresses /\ y[1] = new /\ y[2] = cap * Unit(Top) + 1
      BY <3>4, <3>5, <2>12, AddressFacts
    <3>7. DOMAIN v[new] = 1 .. Len(v[new]) BY <2>16, <2>17, MemoryFacts
    <3>8. y[2] \in DOMAIN v[new] BY <3>2, <3>3, <3>6, <3>7, <2>17
    <3>9. ValidIn(v, y) BY <3>6, <3>8, <2>17 DEF ValidIn
    <3>10. x[1] # new
      <4>1. x[1] \in DOMAIN mem BY <1>2 DEF ValidIn
      <4> QED BY <4>1, <1>4, <2>13
    <3> QED BY <3>6, <3>9, <3>10
  <2> DEFINE c2 == AddedCell(e, new, n)
  <2>20. c2 \in Cells
    <3>1. n \in Nat /\ new \in Int BY <2>12, <1>2
    <3> HIDE DEF n
    <3> QED BY <3>1, <2>2, AddedCellFacts
  <2> HIDE DEF c2, y
  <2>21. Put(Put(Put(v, x, e), y, NameCell), x, c2) = Put(Put(v, y, NameCell), x, c2)
    BY <2>2, <2>16, <2>19, <2>20, <1>2, <1>5, PutOver
  <2>22. mem' = Added(v, new, n, NameCell, c2)
    <3>1. mem' = Added(w, new, n, NameCell, c2) BY <2>15, <2>18 DEF c2
    <3> QED BY <3>1, <2>14, <2>21 DEF Added, y
  <2>23. /\ IsRoomy(v, used', new, 2 * cap) /\ Adds(new)
         /\ mem' = Added(v, new, Count(mem, Top) + 1, NameCell,
                         AddedCell(e, new, Count(mem, Top) + 1))
    BY <2>4, <2>22, <1>8, <2>13 DEF c2
  <2> QED BY <2>2, <2>23, <1>1, EnteredKeeps
<1> QED BY <1>6, <1>7, <1>8, ExtraCases

\* The frames of the parsers c, the innermost as t.
SavedAs(c, t) == [i \in DOMAIN c |-> Saved(IF i = 1 THEN t ELSE c[i])]

LEMMA StepPauses ==
    ASSUME Innermost, NEW t, Save(t),
           Active(mem', used', dropped', <<>>, SavedAs(calls, t) \o frames)
    PROVE  IInv'
<1>1. /\ frames' = SavedAs(calls, t) \o frames /\ calls' = <<>> /\ phase' = "between"
      /\ UNCHANGED <<root, claimed, held, work, fault>>
  BY DEF Save, SavedAs
<1>2. Active(mem', used', dropped', calls', frames') BY <1>1
<1> QED BY <1>1, <1>2 DEF Innermost, IInv, Phases

LEMMA PauseKeeps ==
    ASSUME Innermost, Pause
    PROVE  IInv'
<1>1. Save(Top) /\ mem' = Parked(mem) /\ used' = used /\ dropped' = dropped BY DEF Pause
<1>2. /\ Active(mem, used, dropped, calls, frames) /\ calls # <<>> /\ Top = calls[1]
  BY InnermostFacts
<1>3. Parked(mem) = ParkedIn(mem, calls) BY DEF Parked, ParkedIn
<1>4. SavedAs(calls, Top) = SavedAll(calls) BY <1>2 DEF SavedAs, SavedAll
<1>5. Active(ParkedIn(mem, calls), used, dropped, <<>>, SavedAll(calls) \o frames)
  BY <1>2, Parks
<1> QED BY <1>1, <1>3, <1>4, <1>5, StepPauses

Paused(m, u, d, c, f, t, g) ==
    /\ Active(ParkedIn(m, c), u, d, <<c[1]>>, g)
    /\ SavedAs(c, t) \o f = <<t>> \o g

\* Once the others are parked, the innermost is alone.
LEMMA ParkedHead ==
    ASSUME NEW m, NEW u, NEW d, NEW c, NEW f, Active(m, u, d, c, f), c # <<>>,
           c[1].fn # "array", NEW t \in ParserType, t.fn # "array",
           NEW g, g = Tail(SavedAll(c) \o f)
    PROVE  Paused(m, u, d, c, f, t, g)
<1> DEFINE v == SavedAll(c)
           F == v \o f
           x == SavedAs(c, t)
           w == ParkedIn(m, c)
<1>1. /\ c \in Seq(ParserType) /\ f \in Seq(ParserType) /\ c[1] \in ParserType
      /\ Len(c) \in Nat \ {0} /\ Len(f) \in Nat /\ DOMAIN c = 1 .. Len(c)
      /\ \A k \in DOMAIN c : c[k] \in ParserType
  <2>1. c \in Seq(ParserType) /\ f \in Seq(ParserType) BY DEF Active
  <2> QED BY <2>1, OuterFacts
<1>2. /\ v \in Seq(ParserType) /\ Len(v) = Len(c) /\ \A k \in 1 .. Len(c) : v[k] = Saved(c[k])
  <2>1. \A k \in 1 .. Len(c) : Saved(c[k]) \in ParserType BY <1>1, SavedFacts
  <2>2. v = [k \in 1 .. Len(c) |-> Saved(c[k])] BY <1>1 DEF SavedAll
  <2> QED BY <2>1, <2>2, <1>1
<1>3. /\ x \in Seq(ParserType) /\ Len(x) = Len(c)
      /\ \A k \in 1 .. Len(c) : x[k] = Saved(IF k = 1 THEN t ELSE c[k])
  <2>1. \A k \in 1 .. Len(c) : Saved(IF k = 1 THEN t ELSE c[k]) \in ParserType
    BY <1>1, SavedFacts
  <2>2. x = [k \in 1 .. Len(c) |-> Saved(IF k = 1 THEN t ELSE c[k])] BY <1>1 DEF SavedAs
  <2> QED BY <2>1, <2>2, <1>1
<1>4. Active(w, u, d, <<>>, F) BY Parks
<1> HIDE DEF v, x, w
<1>5. /\ F \in Seq(ParserType) /\ F # <<>> /\ Len(F) = Len(c) + Len(f) /\ F[1] = v[1]
      /\ \A k \in 1 .. Len(c) : F[k] = v[k]
      /\ \A k \in 1 .. Len(f) : F[Len(c) + k] = f[k]
  <2>0. v \in Seq(ParserType) /\ f \in Seq(ParserType) BY <1>1, <1>2
  <2>1. F \in Seq(ParserType) /\ Len(F) = Len(v) + Len(f) BY <2>0
  <2>2. \A k \in 1 .. Len(c) : F[k] = v[k] BY <1>1, <1>2
  <2>3. \A k \in 1 .. Len(f) : F[Len(c) + k] = f[k] BY <1>1, <1>2
  <2> HIDE DEF F
  <2>4. 1 \in 1 .. Len(c) BY <1>1
  <2>5. F[1] = v[1] BY <2>2, <2>4
  <2>6. F # <<>> BY <2>1, <1>1, <1>2
  <2> QED BY <2>1, <2>2, <2>3, <2>5, <2>6, <1>2
<1>6. Saved(c[1]) = c[1] /\ Saved(t) = t BY <1>1, SavedFacts
<1>7. F[1] = c[1] BY <1>1, <1>2, <1>5, <1>6
<1>8. RestoredIn(w, F[1]) = c[1] BY <1>1, <1>7, RestoredFacts
<1> DEFINE y == x \o f
           z == <<t>> \o g
<1>9. /\ y \in Seq(ParserType) /\ Len(y) = Len(c) + Len(f)
      /\ \A k \in 1 .. Len(c) : y[k] = x[k]
      /\ \A k \in 1 .. Len(f) : y[Len(c) + k] = f[k]
  <2>0. x \in Seq(ParserType) /\ f \in Seq(ParserType) BY <1>1, <1>3
  <2>1. y \in Seq(ParserType) /\ Len(y) = Len(x) + Len(f) BY <2>0
  <2>2. \A k \in 1 .. Len(c) : y[k] = x[k] BY <1>1, <1>3
  <2>3. \A k \in 1 .. Len(f) : y[Len(c) + k] = f[k] BY <1>1, <1>3
  <2> QED BY <2>1, <2>2, <2>3, <1>3
<1> HIDE DEF y
<1>10. g = Tail(F) BY DEF v
<1> HIDE DEF F
<1>11. Active(w, u, d, <<c[1]>>, g)
  <2>1. Active(w, u, d, <<RestoredIn(w, F[1])>>, Tail(F)) BY <1>4, <1>5, Resumes
  <2> QED BY <2>1, <1>8, <1>10
<1> DEFINE N == Len(c) + Len(f)
<1>18. Len(F) = N /\ N \in Nat /\ N = Len(c) + Len(f) BY <1>1, <1>5
<1> HIDE DEF N
<1>12. /\ g \in Seq(ParserType) /\ Len(g) = N - 1
       /\ \A k \in 1 .. N - 1 : g[k] = F[k + 1]
  <2>1. Tail(F) \in Seq(ParserType) /\ IsPopped(Tail(F), F) BY <1>1, <1>5, Heads
  <2>2. g \in Seq(ParserType) /\ IsPopped(g, F) BY <2>1, <1>10, Zenon
  <2>3. Len(g) = Len(F) - 1 /\ \A k \in 1 .. Len(F) - 1 : g[k] = F[k + 1]
    BY <2>2 DEF IsPopped
  <2> QED BY <2>2, <2>3, <1>18
<1>13. /\ z \in Seq(ParserType) /\ Len(z) = N /\ z[1] = t
       /\ \A k \in 2 .. N : z[k] = g[k - 1]
  BY <1>1, <1>18, <1>12
<1> HIDE DEF z
<1>14. \A k \in 2 .. N : z[k] = F[k]
  <2> TAKE k \in 2 .. N
  <2> DEFINE j == k - 1
  <2>1. j \in 1 .. N - 1 /\ j + 1 = k BY <1>18
  <2>2. z[k] = g[j] BY <1>13
  <2> HIDE DEF j
  <2> QED BY <2>1, <2>2, <1>12
<1>15. \A k \in 1 .. N : y[k] = z[k]
  <2> TAKE k \in 1 .. N
  <2>1. CASE k = 1
    <3>1. 1 \in 1 .. Len(c) BY <1>1
    <3> QED BY <2>1, <3>1, <1>3, <1>6, <1>9, <1>13
  <2>2. CASE k # 1 /\ k <= Len(c)
    <3>1. k \in 1 .. Len(c) /\ k \in 2 .. N BY <2>2, <1>1, <1>18
    <3> QED BY <2>2, <3>1, <1>2, <1>3, <1>5, <1>9, <1>14
  <2>3. CASE k > Len(c)
    <3> DEFINE j == k - Len(c)
    <3>1. j \in 1 .. Len(f) /\ Len(c) + j = k /\ k \in 2 .. N
      BY <2>3, <1>1, <1>18
    <3> HIDE DEF j
    <3> QED BY <3>1, <1>5, <1>9, <1>14
  <2> QED BY <2>1, <2>2, <2>3, <1>1, <1>18
<1>16. y = z
  <2>1. DOMAIN y = 1 .. N /\ DOMAIN z = 1 .. N
    BY <1>18, <1>9, <1>13
  <2> QED BY <2>1, <1>9, <1>13, <1>15, SameSequence
<1> QED BY <1>11, <1>16 DEF w, y, z, x, Paused

\* The innermost parser becomes t, and then a frame.
LEMMA PausesAs ==
    ASSUME Innermost, Top.fn # "array", NEW p, p = ParkedIn(mem, calls),
           NEW t, Save(t), t.fn # "array", Fit(mem', t), dropped' = dropped,
           Heap(mem', used', {t.buf} \ {Null}, dropped),
           Only(p, mem', Top), Home(t) >= Home(Top),
           \A a \in Addresses : Owns(mem', t, a) => Owns(p, Top, a) \/ a[1] \notin DOMAIN p
    PROVE  IInv'
<1> DEFINE g == Tail(SavedAll(calls) \o frames)
           c == <<Top>>
<1>1. /\ Active(mem, used, dropped, calls, frames) /\ calls # <<>> /\ Top = calls[1]
      /\ dropped \in BOOLEAN
  BY InnermostFacts
<1>2. t \in ParserType BY DEF Fit, FitBase
<1>3. Active(p, used, dropped, c, g) /\ SavedAs(calls, t) \o frames = <<t>> \o g
  <2>1. g = Tail(SavedAll(calls) \o frames) OBVIOUS
  <2> HIDE DEF g
  <2>2. calls[1].fn # "array" BY <1>1
  <2>3. Paused(mem, used, dropped, calls, frames, t, g) BY <2>1, <2>2, <1>1, <1>2, ParkedHead
  <2> QED BY <2>3, <1>1 DEF Paused
<1> HIDE DEF g
<1>4. c # <<>> /\ c[1] = Top /\ <<t>> \o Tail(c) = <<t>> OBVIOUS
<1> HIDE DEF c
<1>5. Active(mem', used', dropped, <<t>> \o Tail(c), g)
  BY <1>1, <1>3, <1>4, GoesOn
<1>6. Active(mem', used', dropped, <<t>>, g) BY <1>4, <1>5
<1>7. Active(mem', used', dropped, <<>>, <<t>> \o g) BY <1>6, Suspends
<1> QED BY <1>3, <1>7, StepPauses

\* The memory with the others parked, and the innermost parser in it.
LEMMA ParkedInnermost ==
    ASSUME Innermost, Top.fn # "array", NEW p, p = ParkedIn(mem, calls)
    PROVE  /\ IsMemory(p) /\ Fit(p, Top) /\ Top \in ParserType /\ dropped \in BOOLEAN
           /\ Heap(p, used, {Top.buf} \ {Null}, dropped)
<1>1. /\ Active(mem, used, dropped, calls, frames) /\ calls # <<>> /\ Top = calls[1]
      /\ dropped \in BOOLEAN /\ Top \in ParserType
  BY InnermostFacts
<1> DEFINE g == Tail(SavedAll(calls) \o frames)
           c == <<Top>>
<1>2. Paused(mem, used, dropped, calls, frames, Top, g)
  <2>1. g = Tail(SavedAll(calls) \o frames) OBVIOUS
  <2> HIDE DEF g
  <2>2. calls[1].fn # "array" BY <1>1
  <2> QED BY <2>1, <2>2, <1>1, ParkedHead
<1> HIDE DEF g
<1>3. Active(p, used, dropped, c, g) BY <1>1, <1>2 DEF Paused
<1>4. c # <<>> /\ c[1] = Top OBVIOUS
<1> HIDE DEF c
<1>5. Fit(p, Top) /\ IsMemory(p) /\ Held(c, g) = {Top.buf} \ {Null}
  BY <1>3, <1>4, OuterFacts
<1>6. Heap(p, used, Held(c, g), dropped) BY <1>3 DEF Active
<1> QED BY <1>1, <1>5, <1>6

LEMMA PauseInEscapeKeeps ==
    ASSUME Innermost, PauseInEscape
    PROVE  IInv'
<1> DEFINE t == [Top EXCEPT !.st = "escape"]
           p == ParkedIn(mem, calls)
<1>1. /\ Top.fn = "struct" /\ Top.st = "name" /\ Save(t) /\ mem' = p /\ used' = used
      /\ dropped' = dropped
  BY Zenon DEF PauseInEscape, In, Inside, Parked, ParkedIn
<1>2. /\ IsMemory(p) /\ Fit(p, Top) /\ Top \in ParserType
      /\ Heap(p, used, {Top.buf} \ {Null}, dropped)
  BY <1>1, ParkedInnermost
<1>3. p = ParkedIn(mem, calls) OBVIOUS
<1> HIDE DEF p
<1>4. "escape" \in ParserStates BY DEF ParserStates
<1>5. /\ t \in ParserType /\ t.fn = "struct" /\ t.st = "escape" /\ t.at = Top.at
      /\ t.type = Top.type /\ t.buf = Top.buf /\ t.ptr = Top.ptr /\ t.seen = Top.seen
  BY <1>1, <1>2, <1>4 DEF ParserType
<1> HIDE DEF t
<1>6. t.st \in StatesOf("struct") BY <1>5 DEF StatesOf
<1>7. FitMembers(p, t) BY <1>1, <1>2, <1>5 DEF Fit, FitMembers
<1>8. Fit(p, t) /\ (HasBlock(p, t) <=> HasBlock(p, Top))
  BY <1>1, <1>2, <1>5, <1>6, <1>7, StructFit
<1>9. Base(t) = Base(Top) /\ Block(p, t) = Block(p, Top) /\ Home(t) = Home(Top)
  BY <1>5, <1>1 DEF Base, Block, Anchor, Home
<1>10. \A a \in Addresses : Owns(p, t, a) => Owns(p, Top, a) \/ a[1] \notin DOMAIN p
  BY <1>5, <1>8, <1>9 DEF Owns, InBase
<1>11. Home(t) >= Home(Top) BY <1>2, <1>9, HomeFacts
<1>12. Only(p, mem', Top) BY <1>1, OnlySame
<1>13. Heap(mem', used', {t.buf} \ {Null}, dropped) BY <1>1, <1>2, <1>5
<1>14. t.fn # "array" /\ Top.fn # "array" BY <1>1, <1>5
<1> QED
  BY <1>1, <1>3, <1>8, <1>10, <1>11, <1>12, <1>13, <1>14, PausesAs

LEMMA PauseInStringKeeps ==
    ASSUME Innermost, PauseInString
    PROVE  IInv'
<1> DEFINE t == [Top EXCEPT !.buf = Fresh]
           p == ParkedIn(mem, calls)
           z == Zeroed(0)
           w == With(p, Fresh, z)
<1>1. /\ Top.fn = "string" /\ Top.st = "text" /\ Top.buf = Null /\ Save(t)
      /\ mem' = w /\ used' = Fresh /\ dropped' = dropped
  BY DEF PauseInString, In, Inside, Parked, ParkedIn, Allocate
<1>2. /\ IsMemory(p) /\ Fit(p, Top) /\ Top \in ParserType
      /\ Heap(p, used, {Top.buf} \ {Null}, dropped)
  BY <1>1, ParkedInnermost
<1>3. Heap(p, used, {}, dropped)
  <2>1. {Top.buf} \ {Null} = {} BY <1>1
  <2> QED BY <2>1, <1>2
<1>4. p = ParkedIn(mem, calls) OBVIOUS
<1> HIDE DEF p
<1>5. Fresh = used + 1 /\ Fresh \notin DOMAIN p /\ Fresh \in Nat /\ Fresh # Null
  <2>1. used \in Nat /\ Fresh = used + 1 BY InnermostFacts
  <2>2. used + 1 \notin DOMAIN p BY <1>3, HeapFacts
  <2> QED BY <2>1, <2>2 DEF Null
<1>6. z \in Seq(Cells) /\ Len(z) = 0 /\ z = Zeroed(0) BY ZeroedFacts
<1>7. Heap(w, Fresh, {Fresh}, dropped)
  <2>1. {} \cup {used + 1} = {Fresh} BY <1>5
  <2>2. Heap(With(p, used + 1, Zeroed(0)), used + 1, {} \cup {used + 1}, dropped)
    BY <1>3, HeapNew
  <2> QED BY <2>1, <2>2, <1>5
<1> HIDE DEF z
<1>8. z = <<>> BY <1>6
<1>9. IsWith(w, p, Fresh, z) BY <1>2, <1>6, WithFacts
<1>10. Only(p, w, Top) BY <1>2, <1>5, <1>6, OnlySame, OnlyWith
<1> HIDE DEF w
<1>11. /\ t \in ParserType /\ t.fn = "string" /\ t.st = "text" /\ t.at = Top.at
       /\ t.type = Top.type /\ t.buf = Fresh /\ t.ptr = Top.ptr
  BY <1>1, <1>2, <1>5 DEF ParserType
<1> HIDE DEF t
<1>12. \A x \in Addresses : ValidIn(p, x) => ValidIn(w, x) /\ Get(w, x) = Get(p, x)
  <2> SUFFICES ASSUME NEW x \in Addresses, ValidIn(p, x)
               PROVE  ValidIn(w, x) /\ Get(w, x) = Get(p, x)
    OBVIOUS
  <2>1. x[1] \in DOMAIN p /\ x[1] # Fresh BY <1>5 DEF ValidIn
  <2> QED BY <2>1, <1>9 DEF IsWith, ValidIn, Get
<1>13. /\ Top.at \in Addresses /\ ValidIn(p, Top.at) /\ Base(Top) = 1 /\ Base(t) = 1
       /\ Top.ptr = None /\ Get(p, Top.at).p <= 0
       /\ Top.at[1] \in Nat /\ Top.at[2] \in Nat
  <2>1. Top.at \in Addresses BY <1>2, ParserFacts
  <2>2. ValidIn(p, Top.at) BY <1>2, BaseFacts DEF Fit
  <2>3. Base(Top) = 1 /\ Base(t) = 1 BY <1>1, <1>11 DEF Base
  <2>4. Top.ptr = None
    <3>1. Top.fn # "struct" BY <1>1
    <3> QED BY <3>1, <1>2 DEF Fit, FitPtr
  <2>5. Get(p, Top.at).p <= 0 BY <1>1, <1>2 DEF Fit, FitString
  <2> QED BY <2>1, <2>2, <2>3, <2>4, <2>5, AddressIs
<1>14. Fit(w, t)
  <2>1. t.st \in StatesOf(t.fn) BY <1>11 DEF StatesOf
  <2>2. FitBase(w, t)
    <3>1. \A i \in t.at[2] .. t.at[2] + Base(t) - 1 : Address(t.at[1], i) = t.at
      BY <1>11, <1>13, AddressIs
    <3>2. t.fn \notin {"initial", "value"} BY <1>11
    <3>3. ValidIn(w, t.at) BY <1>11, <1>12, <1>13
    <3> QED BY <2>1, <3>1, <3>2, <3>3, <1>11 DEF FitBase
  <2>3. FitString(w, t)
    <3>1. Fresh \in DOMAIN w /\ w[Fresh] = <<>> BY <1>8, <1>9 DEF IsWith
    <3>2. Get(w, t.at).p <= 0 BY <1>11, <1>12, <1>13
    <3> QED BY <3>1, <3>2, <1>11 DEF FitString
  <2>4. FitBlock(w, t)
    <3>1. t.fn \notin {"array", "struct"} BY <1>11
    <3> QED BY <3>1 DEF FitBlock
  <2>5. t.fn # "array" /\ t.fn # "struct" /\ t.ptr = None BY <1>11, <1>13
  <2>6. FitArray(w, t) /\ FitPtr(w, t) /\ FitMembers(w, t)
    BY <2>5 DEF FitArray, FitPtr, FitMembers
  <2> QED BY <2>2, <2>3, <2>4, <2>6 DEF Fit
<1>15. \A a \in Addresses : Owns(w, t, a) => Owns(p, Top, a) \/ a[1] \notin DOMAIN p
  <2> SUFFICES ASSUME NEW a \in Addresses, Owns(w, t, a) PROVE Owns(p, Top, a)
    OBVIOUS
  <2>1. a # None BY AddressIs
  <2>2. ~HasBlock(w, t) BY <1>11 DEF HasBlock
  <2>3. InBase(t, a) BY <2>1, <2>2, <1>11, <1>13 DEF Owns
  <2>4. InBase(Top, a) BY <2>3, <1>11, <1>13 DEF InBase
  <2> QED BY <2>4, <1>2, BaseFacts DEF Fit
<1>16. Home(t) = Home(Top) BY <1>11 DEF Home
<1>17. Home(t) >= Home(Top) BY <1>2, <1>16, HomeFacts
<1>18. Heap(mem', used', {t.buf} \ {Null}, dropped)
  <2>1. {t.buf} \ {Null} = {Fresh} BY <1>5, <1>11
  <2> QED BY <2>1, <1>1, <1>7
<1>19. t.fn # "array" /\ Top.fn # "array" BY <1>1, <1>11
<1> QED
  BY <1>1, <1>4, <1>10, <1>14, <1>15, <1>17, <1>18, <1>19, PausesAs

-----------------------------------------------------------------------------
(***************************************************************************)
(* Between the parsers, and while an error unwinds.                        *)
(***************************************************************************)
LEMMA ResumeKeeps ==
    ASSUME IInv, Resume
    PROVE  IInv'
<1>1. /\ phase = "running" /\ UNCHANGED <<mem, used, root, claimed, fault, dropped>>
      /\ calls = <<>> /\ Active(mem, used, dropped, <<>>, frames)
      /\ root \in RootTypes /\ claimed \in BOOLEAN /\ fault \in BOOLEAN
  BY DEF Resume, IInv
<1>2. CASE /\ frames # <<>> /\ phase' = "parsing"
           /\ calls' = <<Restored(Head(frames))>> /\ frames' = Tail(frames)
  <2>1. Restored(Head(frames)) = RestoredIn(mem, frames[1])
    <3>1. frames \in Seq(ParserType) BY <1>1 DEF Active
    <3>2. Head(frames) = frames[1] BY <3>1, <1>2
    <3>3. \A act : Restored(act) = RestoredIn(mem, act)
      BY DEF Restored, RestoredIn, At, Get
    <3> QED BY <3>2, <3>3
  <2>2. Active(mem, used, dropped, <<RestoredIn(mem, frames[1])>>, Tail(frames))
    BY <1>1, <1>2, Resumes
  <2>3. Active(mem', used', dropped', calls', frames') BY <2>1, <2>2, <1>1, <1>2
  <2>4. calls' # <<>> BY <1>2
  <2> QED BY <2>3, <2>4, <1>1, <1>2 DEF IInv, Phases
<1>3. CASE frames = <<>> /\ phase' \in {"between", "failed"} /\ UNCHANGED <<calls, frames>>
  <2>1. Broken(mem, used, dropped, <<>>, frames) BY <1>1, Breaks
  <2>2. /\ Active(mem', used', dropped', calls', frames')
        /\ Broken(mem', used', dropped', calls', frames') /\ calls' = <<>>
    BY <2>1, <1>1, <1>3
  <2> QED BY <2>2, <1>1, <1>3 DEF IInv, Phases
<1> QED BY <1>2, <1>3 DEF Resume

LEMMA FeedKeeps ==
    ASSUME IInv, Feed
    PROVE  IInv'
<1>1. /\ phase = "between" /\ phase' = "running"
      /\ UNCHANGED <<mem, used, calls, frames, root, claimed, fault, dropped>>
  BY DEF Feed
<1> QED BY <1>1 DEF IInv, Phases

LEMMA EuParseFinishKeeps ==
    ASSUME IInv, EuParseFinish
    PROVE  IInv'
<1>1. /\ phase' = phase /\ claimed' = TRUE
      /\ UNCHANGED <<mem, used, calls, frames, root, fault, dropped>>
  BY DEF EuParseFinish
<1> QED BY <1>1 DEF IInv

\* Once the parse is over, nothing is said of the memory.
LEMMA OverKeeps ==
    ASSUME IInv, phase' \in {"releasing", "gone"}, root' = root, claimed' \in BOOLEAN,
           fault' \in BOOLEAN
    PROVE  IInv'
BY DEF IInv, Phases

Releasing == \/ EuParseDestroy \/ ClientFini
             \/ Wild \/ CallFini \/ CallFree \/ Write \/ Released
             \/ EuObjectGet \/ EuVariantArrayPush \/ EuVariantAssign \/ Assign

LEMMA ReleasingKeeps ==
    ASSUME IInv, Releasing
    PROVE  IInv'
<1>1. claimed \in BOOLEAN /\ fault \in BOOLEAN BY DEF IInv
<1>2. CASE EuParseDestroy BY <1>1, <1>2, OverKeeps DEF EuParseDestroy
<1>3. CASE ClientFini BY <1>1, <1>3, OverKeeps DEF ClientFini
<1>4. CASE Released BY <1>1, <1>4, OverKeeps DEF Released
<1>5. ASSUME Working, fault' = fault \/ fault' = TRUE PROVE IInv'
  <2>1. phase' = "releasing" /\ root' = root /\ claimed' = claimed BY <1>5 DEF Working
  <2> QED BY <2>1, <1>1, <1>5, OverKeeps
<1>6. CASE Wild BY <1>5, <1>6 DEF Wild, Break
<1>7. CASE CallFini BY <1>5, <1>7 DEF CallFini
<1>8. CASE CallFree BY <1>5, <1>8 DEF CallFree, FreeBlock, Break, Continue
<1>9. CASE Write BY <1>5, <1>9 DEF Write, Continue
<1>10. CASE Assign BY <1>5, <1>10 DEF Assign, Continue
<1>11. ASSUME Editing, phase' \in {"releasing", "gone"} PROVE IInv'
  <2>1. root' = root /\ claimed' = claimed /\ fault' = fault BY <1>11 DEF Editing
  <2> QED BY <2>1, <1>1, <1>11, OverKeeps
<1>12. CASE EuObjectGet
  <2>1. Editing /\ phase' = "gone" BY <1>12 DEF EuObjectGet, Editing
  <2> QED BY <2>1, <1>11
<1>13. CASE EuVariantArrayPush
  <2>1. Editing /\ phase' = "gone" BY <1>13 DEF EuVariantArrayPush, Editing
  <2> QED BY <2>1, <1>11
<1>14. CASE EuVariantAssign
  <2>1. Editing /\ phase' = "releasing" BY <1>14 DEF EuVariantAssign
  <2> QED BY <2>1, <1>11
<1> QED
  BY <1>2, <1>3, <1>4, <1>6, <1>7, <1>8, <1>9, <1>10, <1>12, <1>13, <1>14 DEF Releasing

\* The parsers that an error unwinds.
LEMMA UnwindingFacts ==
    ASSUME IInv, phase = "unwinding"
    PROVE  /\ Broken(mem, used, dropped, calls, frames) /\ calls # <<>>
           /\ Top = calls[1] /\ Upright(mem, Top) /\ Top \in ParserType
           /\ IsMemory(mem) /\ Unwound(mem, calls, frames) /\ dropped \in BOOLEAN
           /\ calls \in Seq(ParserType) /\ frames \in Seq(ParserType)
           /\ OneHolder(calls, frames) /\ Heap(mem, used, Held(calls, frames), dropped)
           /\ Top.buf = Null =>
                 Held(Tail(calls), frames) = Held(calls, frames)
           /\ Top.buf # Null =>
                 Held(Tail(calls), frames) = {} /\ Held(calls, frames) = {Top.buf}
           /\ \A k \in 2 .. Len(calls) :
                 /\ Upright(mem, calls[k]) /\ calls[k].at[1] <= Home(Top)
                 /\ calls[k].buf = Null /\ calls[k] \in ParserType
           /\ \A j \in DOMAIN frames : frames[j].fn # "string" =>
                 ValidIn(mem, frames[j].at) /\ frames[j].at[1] <= Home(Top)
<1>1. Broken(mem, used, dropped, calls, frames) /\ calls # <<>> BY DEF IInv
<1>2. /\ Unwound(mem, calls, frames) /\ dropped \in BOOLEAN
      /\ calls \in Seq(ParserType) /\ frames \in Seq(ParserType)
      /\ OneHolder(calls, frames) /\ Heap(mem, used, Held(calls, frames), dropped)
  BY <1>1 DEF Broken
<1>3. /\ Top = calls[1] /\ Top \in ParserType /\ Len(calls) \in Nat \ {0}
      /\ DOMAIN calls = 1 .. Len(calls)
  BY <1>1, <1>2 DEF Top
<1>4. 1 \in DOMAIN calls BY <1>3
<1>5. Upright(mem, Top) BY <1>2, <1>3, <1>4 DEF Unwound
<1>6. IsMemory(mem) BY <1>2, HeapFacts
<1>7. /\ calls[1].buf = Null => Held(Tail(calls), frames) = Held(calls, frames)
      /\ calls[1].buf # Null => /\ Held(Tail(calls), frames) = {}
                                /\ Held(calls, frames) = {calls[1].buf}
  BY <1>1, <1>2, HeldTail
<1>8. \A k \in 2 .. Len(calls) :
          /\ Upright(mem, calls[k]) /\ calls[k].at[1] <= Home(Top)
          /\ calls[k].buf = Null /\ calls[k] \in ParserType
  <2> TAKE k \in 2 .. Len(calls)
  <2>1. k \in DOMAIN calls /\ k > 1 /\ 1 \in 1 .. k - 1 BY <1>3
  <2>2. Upright(mem, calls[k]) BY <2>1, <1>2 DEF Unwound
  <2>3. calls[k].at[1] <= Home(calls[1]) BY <2>1, <1>2 DEF Unwound
  <2>4. calls[k].buf = Null BY <2>1, <1>2 DEF OneHolder
  <2>5. calls[k] \in ParserType BY <2>1, <1>2
  <2> QED BY <2>2, <2>3, <2>4, <2>5, <1>3
<1>9. \A j \in DOMAIN frames : frames[j].fn # "string" =>
          ValidIn(mem, frames[j].at) /\ frames[j].at[1] <= Home(Top)
  BY <1>2, <1>3, <1>4 DEF Unwound
<1> QED BY <1>1, <1>2, <1>3, <1>5, <1>6, <1>7, <1>8, <1>9

\* One parser less.
LEMMA Unwinds ==
    ASSUME IInv, phase = "unwinding", calls' = Tail(calls),
           phase' = IF Tail(calls) = <<>> THEN "failed" ELSE phase,
           Keep, used' = used, dropped' \in BOOLEAN,
           Heap(mem', used, Held(Tail(calls), frames), dropped'),
           \A k \in 2 .. Len(calls) : Upright(mem', calls[k]),
           \A j \in DOMAIN frames : frames[j].fn # "string" => ValidIn(mem', frames[j].at)
    PROVE  IInv'
<1>1. Broken(mem, used, dropped, calls, frames) /\ calls # <<>> BY UnwindingFacts
<1>2. Broken(mem', used, dropped', Tail(calls), frames) BY <1>1, BrokenTail
<1> DEFINE r == Tail(calls)
<1>3. calls' = r /\ Broken(mem', used, dropped', r, frames)
      /\ phase' = IF r = <<>> THEN "failed" ELSE "unwinding"
  BY <1>2
<1> HIDE DEF r
<1> QED BY <1>3 DEF IInv, Keep, Phases

LEMMA UnwindOtherKeeps ==
    ASSUME IInv, Unwind, UnwindOther
    PROVE  IInv'
<1>1. /\ phase = "unwinding" /\ calls' = Tail(calls) /\ Keep /\ used' = used
      /\ phase' = IF Tail(calls) = <<>> THEN "failed" ELSE phase
  BY DEF Unwind
<1>2. /\ mem' = mem /\ dropped' = dropped
      /\ \/ Top.fn \in {"initial", "value"}
         \/ Top.fn = "struct" /\ Top.ptr = None
         \/ Top.fn = "string" /\ Top.buf = Null
  BY DEF UnwindOther
<1>3. /\ Upright(mem, Top) /\ dropped \in BOOLEAN
      /\ Heap(mem, used, Held(calls, frames), dropped)
      /\ Top.buf = Null => Held(Tail(calls), frames) = Held(calls, frames)
  BY <1>1, UnwindingFacts
<1>4. \A k \in 2 .. Len(calls) : Upright(mem, calls[k]) BY <1>1, UnwindingFacts
<1>5. \A j \in DOMAIN frames : frames[j].fn # "string" => ValidIn(mem, frames[j].at)
  BY <1>1, UnwindingFacts
<1>6. Top.buf = Null BY <1>2, <1>3 DEF Upright
<1> QED BY <1>1, <1>2, <1>3, <1>4, <1>5, <1>6, Unwinds

LEMMA UnwindArrayKeeps ==
    ASSUME IInv, Unwind, UnwindArray
    PROVE  IInv'
<1>1. /\ phase = "unwinding" /\ calls' = Tail(calls) /\ Keep /\ used' = used
      /\ phase' = IF Tail(calls) = <<>> THEN "failed" ELSE phase
  BY DEF Unwind
<1> DEFINE e == dropped \/ Forgotten(Top.type, At(Top.at))
<1>2. mem' = mem /\ dropped' = e /\ Top.fn = "array" BY DEF UnwindArray
<1>3. /\ Upright(mem, Top) /\ dropped \in BOOLEAN
      /\ Heap(mem, used, Held(calls, frames), dropped)
      /\ Top.buf = Null => Held(Tail(calls), frames) = Held(calls, frames)
  BY <1>1, UnwindingFacts
<1>4. \A k \in 2 .. Len(calls) : Upright(mem, calls[k]) BY <1>1, UnwindingFacts
<1>5. \A j \in DOMAIN frames : frames[j].fn # "string" => ValidIn(mem, frames[j].at)
  BY <1>1, UnwindingFacts
<1>6. Top.buf = Null BY <1>2, <1>3 DEF Upright
<1>7. e \in BOOLEAN /\ (dropped => e) BY <1>3 DEF Forgotten
<1> HIDE DEF e
<1>8. Heap(mem, used, Held(Tail(calls), frames), e) BY <1>3, <1>6, <1>7, HeapDrop
<1> QED BY <1>1, <1>2, <1>4, <1>5, <1>7, <1>8, Unwinds

\* The buffer of a string is nobody else's, and has no cells.
LEMMA UnwindStringKeeps ==
    ASSUME IInv, Unwind, UnwindString
    PROVE  IInv'
<1>1. /\ phase = "unwinding" /\ calls' = Tail(calls) /\ Keep /\ used' = used
      /\ phase' = IF Tail(calls) = <<>> THEN "failed" ELSE phase
  BY DEF Unwind
<1> DEFINE b == Top.buf
           w == Without(mem, b)
<1>2. mem' = w /\ dropped' = dropped /\ b # Null BY DEF UnwindString
<1>3. /\ Upright(mem, Top) /\ dropped \in BOOLEAN /\ IsMemory(mem)
      /\ Heap(mem, used, Held(calls, frames), dropped)
      /\ Held(Tail(calls), frames) = {} /\ Held(calls, frames) = {b}
  BY <1>1, <1>2, UnwindingFacts
<1>4. \A k \in 2 .. Len(calls) : Upright(mem, calls[k]) /\ calls[k].buf = Null
  BY <1>1, UnwindingFacts
<1>5. \A j \in DOMAIN frames : frames[j].fn # "string" => ValidIn(mem, frames[j].at)
  BY <1>1, UnwindingFacts
<1>6. b \in DOMAIN mem /\ mem[b] = <<>> BY <1>2, <1>3 DEF Upright
<1> HIDE DEF b
<1>7. Heap(w, used, {}, dropped)
  <2>1. b \in {b} /\ {b} \ {b} = {} OBVIOUS
  <2>2. DOMAIN mem[b] = {} BY <1>6
  <2>3. (\E i \in DOMAIN mem[b] : mem[b][i].p \in DOMAIN mem) => dropped BY <2>2
  <2>4. Heap(mem, used, {b}, dropped) BY <1>3
  <2>5. Heap(w, used, {b} \ {b}, dropped) BY <2>1, <2>3, <2>4, HeapFree
  <2> QED BY <2>1, <2>5
<1>8. IsWithout(w, mem, b) BY <1>3, WithoutFacts
<1> HIDE DEF w
<1>9. \A a : ValidIn(mem, a) => ValidIn(w, a) /\ Get(w, a) = Get(mem, a)
  <2> SUFFICES ASSUME NEW a, ValidIn(mem, a)
               PROVE  ValidIn(w, a) /\ Get(w, a) = Get(mem, a)
    OBVIOUS
  <2>1. a[1] \in DOMAIN mem /\ a[2] \in DOMAIN mem[a[1]] BY DEF ValidIn
  <2>2. DOMAIN mem[b] = {} BY <1>6
  <2>3. a[1] # b BY <2>1, <2>2
  <2>4. a[1] \in DOMAIN w /\ w[a[1]] = mem[a[1]] BY <2>1, <2>3, <1>8 DEF IsWithout
  <2> QED BY <2>1, <2>4 DEF ValidIn, Get
<1>10. \A k \in 2 .. Len(calls) : Upright(w, calls[k])
  <2> TAKE k \in 2 .. Len(calls)
  <2> DEFINE act == calls[k]
  <2>1. Upright(mem, act) /\ act.buf = Null BY <1>4
  <2> HIDE DEF act
  <2>2. ValidIn(w, act.at) BY <2>1, <1>9 DEF Upright
  <2>3. act.ptr # None => ValidIn(w, act.ptr) /\ Get(w, act.ptr).p = Get(mem, act.ptr).p
    BY <2>1, <1>9 DEF Upright
  <2>4. Upright(w, act) BY <2>1, <2>2, <2>3, StillUpright
  <2> QED BY <2>4 DEF act
<1>11. \A j \in DOMAIN frames : frames[j].fn # "string" => ValidIn(w, frames[j].at)
  BY <1>5, <1>9
<1> QED BY <1>1, <1>2, <1>3, <1>7, <1>10, <1>11, Unwinds

\* The struct that is freed is not one that an outer parser, or a frame, is in.
LEMMA UnwindStructKeeps ==
    ASSUME IInv, Unwind, UnwindStruct
    PROVE  IInv'
<1>1. /\ phase = "unwinding" /\ calls' = Tail(calls) /\ Keep /\ used' = used
      /\ phase' = IF Tail(calls) = <<>> THEN "failed" ELSE phase
  BY DEF Unwind
<1> DEFINE s == Top.at[1]
           a == Top.ptr
           c == [At(a) EXCEPT !.p = Null]
           q == Put(mem, a, c)
           w == Without(q, s)
           e == dropped \/ Owning(mem[s])
           B == Held(calls, frames)
<1>2. /\ Top.fn = "struct" /\ a # None /\ mem' = w /\ dropped' = e
  BY DEF UnwindStruct, Pointer
<1>3. /\ Upright(mem, Top) /\ dropped \in BOOLEAN /\ IsMemory(mem)
      /\ Heap(mem, used, B, dropped) /\ Top \in ParserType
      /\ Top.buf = Null => Held(Tail(calls), frames) = B
  BY <1>1, UnwindingFacts
<1>4. \A k \in 2 .. Len(calls) :
         /\ Upright(mem, calls[k]) /\ calls[k].at[1] <= Home(Top)
         /\ calls[k].buf = Null /\ calls[k] \in ParserType
  BY <1>1, UnwindingFacts
<1>5. \A j \in DOMAIN frames : frames[j].fn # "string" =>
         ValidIn(mem, frames[j].at) /\ frames[j].at[1] <= Home(Top)
  BY <1>1, UnwindingFacts
<1>6. /\ a \in Addresses /\ ValidIn(mem, a) /\ Get(mem, a).p = s /\ a[1] < s
      /\ a[1] \in Nat /\ s \in Nat /\ Home(Top) = a[1]
      /\ Held(Tail(calls), frames) = B
  <2>1. Top.buf = Null BY <1>2, <1>3 DEF Upright
  <2>2. a \in Addresses /\ s \in Nat BY <1>2, <1>3, ParserFacts
  <2>3. a[1] \in Nat BY <2>2, AddressIs
  <2>4. ValidIn(mem, a) /\ Get(mem, a).p = s /\ a[1] < s BY <1>2, <1>3 DEF Upright
  <2>5. Home(Top) = a[1] BY <1>2 DEF Home
  <2> QED BY <2>1, <2>2, <2>3, <2>4, <2>5, <1>3
<1>7. At(a) = Get(mem, a) /\ Get(mem, a) \in Cells
  <2>1. At(a) = Get(mem, a) BY DEF At, Get
  <2>2. a[1] \in DOMAIN mem /\ a[2] \in DOMAIN mem[a[1]] BY <1>6 DEF ValidIn
  <2>3. mem[a[1]][a[2]] \in Cells BY <2>2, <1>3, MemoryFacts
  <2> QED BY <2>1, <2>3 DEF Get
<1>8. e \in BOOLEAN /\ (dropped => e)
      /\ ((\E i \in DOMAIN mem[s] : mem[s][i].p \in DOMAIN mem) => e)
  BY <1>3 DEF Owning, Live
<1>9. (B \cup {s}) \ {s} = B
  <2>1. s \notin B
    <3>1. a[1] \in DOMAIN mem /\ a[2] \in DOMAIN mem[a[1]] BY <1>6 DEF ValidIn
    <3>2. mem[a[1]][a[2]].p \notin B BY <3>1, <1>3, HeapFacts
    <3> QED BY <3>2, <1>6 DEF Get
  <2> QED BY <2>1
<1> HIDE DEF a, s, e, B
<1>10. c \in Cells /\ c.p = Null
  <2>1. Null \in Int BY DEF Null
  <2>2. At(a) \in Cells BY <1>7
  <2> QED BY <2>1, <2>2, CellWith
<1> HIDE DEF c
<1>11. Heap(q, used, B \cup {s}, dropped)
  <2>1. Get(mem, a).p > 0 /\ Get(mem, a).p = s BY <1>6
  <2>2. Heap(q, used, B \cup {Get(mem, a).p}, dropped) BY <2>1, <1>3, <1>6, <1>10, HeapGive
  <2> QED BY <2>1, <2>2
<1>12. IsMemory(q) /\ DOMAIN q = DOMAIN mem
  BY <1>3, <1>6, <1>10, PutFacts
<1>13. \A x \in Addresses : /\ ValidIn(mem, x) => ValidIn(q, x)
                            /\ ValidIn(mem, x) /\ x # a => Get(q, x) = Get(mem, x)
  BY <1>3, <1>6, <1>10, PutGet
<1>14. s \in DOMAIN mem => q[s] = mem[s]
  <2>1. s # a[1] BY <1>6
  <2> QED BY <2>1, <1>3, <1>6, <1>10, PutFacts
<1>15. s \in DOMAIN mem
  <2>1. s \in DOMAIN q BY <1>11 DEF Heap, Points
  <2> QED BY <2>1, <1>12
<1> HIDE DEF q
<1>16. Heap(w, used, B, e)
  <2>1. s \in B \cup {s} OBVIOUS
  <2>2. (\E i \in DOMAIN q[s] : q[s][i].p \in DOMAIN q) => e BY <1>8, <1>12, <1>14, <1>15
  <2>3. Heap(w, used, (B \cup {s}) \ {s}, e) BY <2>1, <2>2, <1>8, <1>11, HeapFree
  <2> QED BY <2>3, <1>9
<1>17. IsWithout(w, q, s) BY <1>12, WithoutFacts
<1> HIDE DEF w
<1>18. \A x \in Addresses : ValidIn(mem, x) /\ x[1] # s =>
          ValidIn(w, x) /\ (x = a \/ Get(w, x) = Get(mem, x))
  <2> SUFFICES ASSUME NEW x \in Addresses, ValidIn(mem, x), x[1] # s
               PROVE  ValidIn(w, x) /\ (x = a \/ Get(w, x) = Get(mem, x))
    OBVIOUS
  <2>1. ValidIn(q, x) /\ (x = a \/ Get(q, x) = Get(mem, x)) BY <1>13
  <2>2. x[1] \in DOMAIN w /\ w[x[1]] = q[x[1]] BY <2>1, <1>17 DEF IsWithout, ValidIn
  <2> QED BY <2>1, <2>2 DEF ValidIn, Get
<1>19. \A k \in 2 .. Len(calls) : Upright(w, calls[k])
  <2> TAKE k \in 2 .. Len(calls)
  <2> DEFINE act == calls[k]
  <2>1. Upright(mem, act) /\ act.buf = Null /\ act \in ParserType /\ act.at[1] <= a[1]
    BY <1>4, <1>6
  <2> HIDE DEF act
  <2>2. act.at \in Addresses /\ act.at[1] \in Nat BY <2>1, ParserFacts
  <2>3. ValidIn(w, act.at)
    <3>1. act.at[1] # s BY <2>1, <2>2, <1>6
    <3> QED BY <3>1, <2>1, <2>2, <1>18 DEF Upright
  <2>4. act.ptr # None => ValidIn(w, act.ptr) /\ Get(w, act.ptr).p = Get(mem, act.ptr).p
    <3> SUFFICES ASSUME act.ptr # None
                 PROVE  ValidIn(w, act.ptr) /\ Get(w, act.ptr).p = Get(mem, act.ptr).p
      OBVIOUS
    <3>1. act.ptr \in Addresses BY <2>1, ParserFacts
    <3>2. ValidIn(mem, act.ptr) /\ act.ptr[1] < act.at[1] /\ act.ptr[1] \in Nat
      BY <2>1, <3>1, AddressIs DEF Upright
    <3>3. act.ptr[1] # s /\ act.ptr # a BY <3>2, <2>1, <2>2, <1>6
    <3> QED BY <3>1, <3>2, <3>3, <1>18
  <2>5. Upright(w, act) BY <2>1, <2>3, <2>4, StillUpright
  <2> QED BY <2>5 DEF act
<1>20. \A j \in DOMAIN frames : frames[j].fn # "string" => ValidIn(w, frames[j].at)
  <2> SUFFICES ASSUME NEW j \in DOMAIN frames, frames[j].fn # "string"
               PROVE  ValidIn(w, frames[j].at)
    OBVIOUS
  <2>1. ValidIn(mem, frames[j].at) /\ frames[j].at[1] <= a[1] BY <1>5, <1>6
  <2>2. frames[j] \in ParserType
    <3>1. frames \in Seq(ParserType) BY <1>1, UnwindingFacts
    <3> QED BY <3>1
  <2>3. frames[j].at \in Addresses /\ frames[j].at[1] \in Nat BY <2>2, ParserFacts
  <2>4. frames[j].at[1] # s BY <2>1, <2>3, <1>6
  <2> QED BY <2>1, <2>3, <2>4, <1>18
<1> QED BY <1>1, <1>2, <1>6, <1>8, <1>16, <1>19, <1>20, Unwinds

LEMMA UnwindKeeps ==
    ASSUME IInv, Unwind
    PROVE  IInv'
<1>1. UnwindStruct \/ UnwindString \/ UnwindArray \/ UnwindOther BY DEF Unwind
<1> QED
  BY <1>1, UnwindStructKeeps, UnwindStringKeeps, UnwindArrayKeeps, UnwindOtherKeeps

-----------------------------------------------------------------------------
(***************************************************************************)
(* The invariant: it holds at first, and every step keeps it.              *)
(***************************************************************************)
\* eu_parse_init: a cleared value, and nothing else.
LEMMA InitHeap ==
    ASSUME InitOwnership
    PROVE  /\ Heap(mem, used, {}, FALSE) /\ IsMemory(mem)
           /\ ValidIn(mem, Variable) /\ DOMAIN mem = {1}
           /\ \A i \in 1 .. Width(root) :
                 ValidIn(mem, Address(1, i)) /\ Get(mem, Address(1, i)) = Cleared
<1> DEFINE w == Width(root)
<1>1. root \in Types BY TypesAssumption DEF InitOwnership
<1>2. w \in Nat \ {0} BY <1>1, TypeFacts
<1>3. mem = [x \in {1} |-> Zeroed(w)] /\ used = 1 BY DEF InitOwnership, Client
<1>4. DOMAIN mem = {1} /\ mem[1] = Zeroed(w) BY <1>3
<1> HIDE DEF w
<1>6. /\ mem[1] \in Seq(Cells) /\ DOMAIN mem[1] = 1 .. w
      /\ \A i \in 1 .. w : mem[1][i] = Cleared
  BY <1>2, <1>4, ZeroedFacts
<1>7. IsMemory(mem)
  <2>1. mem \in [{1} -> Seq(Cells)] BY <1>3, <1>4, <1>6
  <2> QED BY <2>1, <1>4 DEF IsMemory
<1>8. \A b \in DOMAIN mem : \A i \in DOMAIN mem[b] : mem[b][i].p = 0
  BY <1>4, <1>6, CellType
<1>9. Points(mem, used, {}) BY <1>3, <1>4, <1>7, <1>8 DEF Points, Client, Null
<1>10. Unshared(mem) BY <1>8 DEF Unshared
<1>11. Owned(mem, {}, FALSE) BY <1>4 DEF Owned, Client
<1>12. \A i \in 1 .. w : ValidIn(mem, Address(1, i)) /\ Get(mem, Address(1, i)) = Cleared
  BY <1>4, <1>6 DEF ValidIn, Get, Address
<1>13. ValidIn(mem, Variable) BY <1>2, <1>12 DEF Variable, Client
<1> QED BY <1>4, <1>7, <1>9, <1>10, <1>11, <1>12, <1>13 DEF Heap, w

LEMMA InitInvariant ==
    ASSUME InitOwnership
    PROVE  IInv
<1> DEFINE p == Parser("initial", root, Variable, "start")
           s == Chain(mem, <<>>, <<p>>)
<1>1. root \in Types BY TypesAssumption DEF InitOwnership
<1>2. Width(root) \in Nat \ {0} BY <1>1, TypeFacts
<1>3. /\ Heap(mem, used, {}, FALSE) /\ IsMemory(mem)
      /\ \A i \in 1 .. Width(root) :
            ValidIn(mem, Address(1, i)) /\ Get(mem, Address(1, i)) = Cleared
  BY InitHeap
<1>4. /\ Variable \in Addresses /\ Variable[1] = 1 /\ Variable[2] = 1
  BY AddressFacts DEF Variable, Client
<1>5. "initial" \in ParserFns /\ "start" \in ParserStates
  BY DEF ParserFns, ParserStates
<1>6. /\ p \in ParserType /\ p.fn = "initial" /\ p.type = root /\ p.at = Variable
      /\ p.st = "start" /\ p.ptr = None /\ p.buf = Null
  BY <1>1, <1>4, <1>5, NewParser
<1>7. frames = <<p>> /\ calls = <<>> /\ phase = "between" /\ claimed = FALSE
      /\ fault = FALSE /\ dropped = FALSE /\ root \in RootTypes
  BY DEF InitOwnership
<1> HIDE DEF p
<1>8. Fit(mem, p)
  <2>1. Base(p) = Width(root) BY <1>6 DEF Base
  <2>2. p.st \in StatesOf(p.fn) BY <1>6 DEF StatesOf
  <2>3. p.at[1] = 1 /\ p.at[2] = 1 BY <1>4, <1>6
  <2>4. p.at[2] .. p.at[2] + Base(p) - 1 = 1 .. Width(root) BY <2>1, <2>3, <1>2
  <2>5. FitBase(mem, p) BY <2>2, <2>3, <2>4, <1>3, <1>6 DEF FitBase
  <2>6. FitString(mem, p) /\ FitBlock(mem, p) /\ FitArray(mem, p)
        /\ FitPtr(mem, p) /\ FitMembers(mem, p)
    BY <1>6 DEF FitString, FitBlock, FitArray, FitPtr, FitMembers
  <2> QED BY <2>5, <2>6 DEF Fit
<1>9. s = [k \in 1 .. 1 |-> RestoredIn(mem, p)] BY DEF Chain
<1>10. RestoredIn(mem, p) = p BY <1>6, RestoredFacts
<1>11. DOMAIN s = 1 .. 1 /\ \A k \in 1 .. 1 : s[k] = p BY <1>9, <1>10
<1> HIDE DEF s
<1>12. Good(mem, s)
  <2>1. \A k \in DOMAIN s : Fit(mem, s[k]) BY <1>8, <1>11
  <2>2. \A k \in DOMAIN s : ~(k > 1) BY <1>11
  <2>3. \A j \in DOMAIN s : 1 .. j - 1 = {} BY <1>11
  <2> QED BY <2>1, <2>2, <2>3 DEF Good
<1>13. <<>> \in Seq(ParserType) /\ <<p>> \in Seq(ParserType) BY <1>6
<1>14. OneHolder(<<>>, <<p>>) /\ Held(<<>>, <<p>>) = {}
  <2>1. \A k \in 1 .. Len(<<p>>) : <<p>>[k].buf = Null BY <1>6
  <2>2. \A k \in 1 .. Len(<<>>) : <<>>[k].buf = Null OBVIOUS
  <2> QED BY <2>1, <2>2, <1>13, NoneHeld
<1>15. Active(mem, used, FALSE, <<>>, <<p>>) BY <1>3, <1>12, <1>13, <1>14 DEF Active, s
<1> QED BY <1>7, <1>15 DEF IInv, Phases

\* Every step, if no member of an object occurs twice in the text.
LEMMA ParsingSteps ==
    ASSUME IInv, Repeats = FALSE, phase = "parsing",
           \/ Value
           \/ StringEmpty \/ StringDone \/ StringFails \/ StringFailsInPause
           \/ ArrayEmpty \/ ArrayFirst \/ ArrayDone \/ ArrayComma \/ ArrayNext
           \/ ArrayGrow \/ ArrayCannotGrow \/ ArrayFails
           \/ StructName \/ StructDone \/ StructMember \/ StructExtra
           \/ StructValue \/ StructFails \/ StructEscape \/ StructEscapeFails
           \/ Pause \/ PauseInEscape \/ PauseInString
    PROVE  IInv'
<1>1. Innermost BY DEF Innermost
<1>2. CASE Value BY <1>1, <1>2, ValueKeeps
<1>3. CASE StringEmpty BY <1>1, <1>3, StringEmptyKeeps
<1>4. CASE StringDone BY <1>1, <1>4, StringDoneKeeps
<1>5. CASE StringFails BY <1>1, <1>5, StringFailsKeeps
<1>6. CASE StringFailsInPause BY <1>1, <1>6, StringFailsInPauseKeeps
<1>7. CASE ArrayEmpty BY <1>1, <1>7, ArrayEmptyKeeps
<1>8. CASE ArrayFirst BY <1>1, <1>8, ArrayFirstKeeps
<1>9. CASE ArrayDone BY <1>1, <1>9, ArrayDoneKeeps
<1>10. CASE ArrayComma BY <1>1, <1>10, ArrayCommaKeeps
<1>11. CASE ArrayNext BY <1>1, <1>11, ArrayNextKeeps
<1>12. CASE ArrayGrow BY <1>1, <1>12, ArrayGrowKeeps
<1>13. CASE ArrayCannotGrow BY <1>1, <1>13, ArrayCannotGrowKeeps
<1>14. CASE ArrayFails BY <1>1, <1>14, ArrayFailsKeeps
<1>15. CASE StructName BY <1>1, <1>15, StructNameKeeps
<1>16. CASE StructDone BY <1>1, <1>16, StructDoneKeeps
<1>17. CASE StructMember BY <1>1, <1>17, StructMemberKeeps
<1>18. CASE StructExtra BY <1>1, <1>18, StructExtraKeeps
<1>19. CASE StructValue BY <1>1, <1>19, StructValueKeeps
<1>20. CASE StructFails BY <1>1, <1>20, StructFailsKeeps
<1>21. CASE StructEscape BY <1>1, <1>21, StructEscapeKeeps
<1>22. CASE StructEscapeFails BY <1>1, <1>22, StructEscapeFailsKeeps
<1>23. CASE Pause BY <1>1, <1>23, PauseKeeps
<1>24. CASE PauseInEscape BY <1>1, <1>24, PauseInEscapeKeeps
<1>25. CASE PauseInString BY <1>1, <1>25, PauseInStringKeeps
<1> QED BY <1>2, <1>3, <1>4, <1>5, <1>6, <1>7, <1>8, <1>9, <1>10, <1>11, <1>12,
           <1>13, <1>14, <1>15, <1>16, <1>17, <1>18, <1>19, <1>20, <1>21, <1>22,
           <1>23, <1>24, <1>25

LEMMA InParsing ==
    ASSUME \/ Value
           \/ StringEmpty \/ StringDone \/ StringFails \/ StringFailsInPause
           \/ ArrayEmpty \/ ArrayFirst \/ ArrayDone \/ ArrayComma \/ ArrayNext
           \/ ArrayGrow \/ ArrayCannotGrow \/ ArrayFails
           \/ StructName \/ StructDone \/ StructMember \/ StructExtra
           \/ StructValue \/ StructFails \/ StructEscape \/ StructEscapeFails
           \/ Pause \/ PauseInEscape \/ PauseInString
    PROVE  phase = "parsing"
<1>1. Value => phase = "parsing" BY DEF Value
<1>2. StringEmpty \/ StringDone \/ StringFails \/ StringFailsInPause => phase = "parsing"
  BY DEF StringEmpty, StringDone, StringFails, StringFailsInPause, In, Inside
<1>3. ArrayEmpty \/ ArrayFirst \/ ArrayDone \/ ArrayComma \/ ArrayNext => phase = "parsing"
  BY DEF ArrayEmpty, ArrayFirst, ArrayDone, ArrayComma, ArrayNext, In, Inside
<1>4. ArrayGrow \/ ArrayCannotGrow \/ ArrayFails => phase = "parsing"
  BY DEF ArrayGrow, ArrayCannotGrow, ArrayFails, In, Inside
<1>5. StructName \/ StructDone \/ StructMember \/ StructExtra => phase = "parsing"
  BY DEF StructName, StructDone, StructMember, StructExtra, In, Inside
<1>6. StructValue \/ StructFails \/ StructEscape \/ StructEscapeFails => phase = "parsing"
  BY DEF StructValue, StructFails, StructEscape, StructEscapeFails, In, Inside
<1>7. Pause \/ PauseInEscape \/ PauseInString => phase = "parsing"
  BY DEF Pause, PauseInEscape, PauseInString, In, Inside
<1> QED BY <1>1, <1>2, <1>3, <1>4, <1>5, <1>6, <1>7

LEMMA NextInvariant ==
    ASSUME IInv, Repeats = FALSE, [NextOwnership]_ownVars
    PROVE  IInv'
<1>1. CASE UNCHANGED ownVars BY <1>1 DEF ownVars, IInv
<1>2. CASE \/ Value
           \/ StringEmpty \/ StringDone \/ StringFails \/ StringFailsInPause
           \/ ArrayEmpty \/ ArrayFirst \/ ArrayDone \/ ArrayComma \/ ArrayNext
           \/ ArrayGrow \/ ArrayCannotGrow \/ ArrayFails
           \/ StructName \/ StructDone \/ StructMember \/ StructExtra
           \/ StructValue \/ StructFails \/ StructEscape \/ StructEscapeFails
           \/ Pause \/ PauseInEscape \/ PauseInString
  <2>1. phase = "parsing" BY <1>2, InParsing
  <2> QED BY <1>2, <2>1, ParsingSteps
<1>3. CASE Feed BY <1>3, FeedKeeps
<1>4. CASE Resume BY <1>4, ResumeKeeps
<1>5. CASE Unwind BY <1>5, UnwindKeeps
<1>6. CASE EuParseFinish BY <1>6, EuParseFinishKeeps
<1>7. CASE Releasing BY <1>7, ReleasingKeeps
<1>8. NextOwnership => \/ Value
           \/ StringEmpty \/ StringDone \/ StringFails \/ StringFailsInPause
           \/ ArrayEmpty \/ ArrayFirst \/ ArrayDone \/ ArrayComma \/ ArrayNext
           \/ ArrayGrow \/ ArrayCannotGrow \/ ArrayFails
           \/ StructName \/ StructDone \/ StructMember \/ StructExtra
           \/ StructValue \/ StructFails \/ StructEscape \/ StructEscapeFails
           \/ Pause \/ PauseInEscape \/ PauseInString
           \/ Feed \/ Resume \/ Unwind \/ EuParseFinish \/ Releasing
  BY ZenonT(60) DEF NextOwnership, Releasing
<1> QED BY <1>1, <1>2, <1>3, <1>4, <1>5, <1>6, <1>7, <1>8

-----------------------------------------------------------------------------
(***************************************************************************)
(* What the invariant says of the properties.                              *)
(***************************************************************************)
LEMMA ParsingHeap ==
    ASSUME IInv, Parsing
    PROVE  /\ Heap(mem, used, Held(calls, frames), dropped) /\ IsMemory(mem)
           /\ OneHolder(calls, frames) /\ dropped \in BOOLEAN
           /\ calls \in Seq(ParserType) /\ frames \in Seq(ParserType)
<1>1. \/ Active(mem, used, dropped, calls, frames)
      \/ Broken(mem, used, dropped, calls, frames)
  BY DEF IInv, Parsing, Phases
<1>2. Heap(mem, used, Held(calls, frames), dropped) BY <1>1 DEF Active, Broken
<1> QED BY <1>1, <1>2, HeapFacts DEF Active, Broken

LEMMA InvariantTypes ==
    ASSUME IInv, Parsing
    PROVE  TypeOKOwnership
<1>1. /\ Heap(mem, used, Held(calls, frames), dropped) /\ IsMemory(mem)
      /\ dropped \in BOOLEAN
      /\ calls \in Seq(ParserType) /\ frames \in Seq(ParserType)
  BY ParsingHeap
<1>2. used \in Nat /\ Live \subseteq 1 .. used BY <1>1 DEF Heap, Points, Live
<1>3. \A b \in Live : mem[b] \in Seq(Cells) BY <1>1, MemoryFacts DEF Live
<1>4. phase \in Phases /\ root \in RootTypes /\ claimed \in BOOLEAN /\ fault \in BOOLEAN
  BY DEF IInv
<1> QED BY <1>1, <1>2, <1>3, <1>4 DEF TypeOKOwnership

LEMMA InvariantPlaces ==
    ASSUME IInv, Parsing
    PROVE  /\ \A k \in DOMAIN calls : Valid(calls[k].at)
           /\ \A k \in DOMAIN frames :
                 \/ Valid(frames[k].at)
                 \/ frames[k].fn = "string" /\ phase \in {"unwinding", "failed"}
<1>1. \A a : Valid(a) <=> ValidIn(mem, a) BY DEF Valid, ValidIn, Live
<1>2. CASE phase \in {"between", "running", "parsing"}
  <2>1. Active(mem, used, dropped, calls, frames) BY <1>2 DEF IInv
  <2> DEFINE s == Chain(mem, calls, frames)
             n == Len(calls)
             l == Len(frames)
  <2>2. calls \in Seq(ParserType) /\ frames \in Seq(ParserType) /\ Good(mem, s)
    BY <2>1 DEF Active
  <2>3. n \in Nat /\ l \in Nat /\ DOMAIN calls = 1 .. n /\ DOMAIN frames = 1 .. l
    BY <2>2
  <2>4. s = [k \in 1 .. n + l |->
               IF k <= n THEN calls[k] ELSE RestoredIn(mem, frames[k - n])]
    BY DEF Chain
  <2> HIDE DEF s, n, l
  <2>5. \A k \in 1 .. n + l : ValidIn(mem, s[k].at)
    BY <2>2, <2>4, BaseFacts DEF Good, Fit
  <2>6. \A k \in DOMAIN calls : Valid(calls[k].at)
    <3> TAKE k \in DOMAIN calls
    <3>1. k \in 1 .. n + l /\ k <= n BY <2>3
    <3> QED BY <3>1, <2>4, <2>5, <1>1
  <2>7. \A k \in DOMAIN frames : Valid(frames[k].at)
    <3> TAKE k \in DOMAIN frames
    <3>1. k + n \in 1 .. n + l /\ ~(k + n <= n) /\ (k + n) - n = k BY <2>3
    <3>2. s[k + n] = RestoredIn(mem, frames[k]) BY <3>1, <2>4
    <3>3. frames[k] \in ParserType BY <2>2, <2>3
    <3>4. s[k + n].at = frames[k].at BY <3>2, <3>3, RestoredFacts
    <3>5. ValidIn(mem, s[k + n].at) BY <3>1, <2>5
    <3> QED BY <3>4, <3>5, <1>1
  <2> QED BY <2>6, <2>7
<1>3. CASE phase \in {"unwinding", "failed"}
  <2>1. Unwound(mem, calls, frames) BY <1>3 DEF IInv, Broken
  <2>2. \A k \in DOMAIN calls : Valid(calls[k].at) BY <2>1, <1>1 DEF Unwound, Upright
  <2>3. \A k \in DOMAIN frames : frames[k].fn # "string" => Valid(frames[k].at)
    BY <2>1, <1>1 DEF Unwound
  <2> QED BY <2>2, <2>3, <1>3
<1> QED BY <1>2, <1>3 DEF IInv, Parsing, Phases

LEMMA InvariantPointers ==
    ASSUME IInv, Parsing
    PROVE  NoDangling
<1>1. Heap(mem, used, Held(calls, frames), dropped) BY ParsingHeap
<1>2. \A b \in Live : \A i \in DOMAIN mem[b] :
         mem[b][i].p \in Live \cup {Null, ZeroLengthPtr, Junk}
  BY <1>1 DEF Heap, Points, Live
<1> QED BY <1>2, InvariantPlaces DEF NoDangling

\* No cell points to the buffer of a string, nor is it another's.
LEMMA HeldOnce ==
    ASSUME IInv, Parsing, NEW b \in Held(calls, frames)
    PROVE  /\ PointersTo(b) = {}
           /\ \/ Holders(b) = {1} /\ Keepers(b) = {}
              \/ Holders(b) = {} /\ Keepers(b) = {1}
<1> DEFINE B == Held(calls, frames)
<1>1. /\ Heap(mem, used, B, dropped) /\ IsMemory(mem) /\ OneHolder(calls, frames)
      /\ calls \in Seq(ParserType) /\ frames \in Seq(ParserType)
  BY ParsingHeap
<1>2. b # Null BY DEF Held
<1>3. B \subseteq DOMAIN mem /\ DOMAIN mem \subseteq Nat \ {0} BY <1>1, HeapFacts
<1>4. \A x \in DOMAIN mem : \A i \in DOMAIN mem[x] : mem[x][i].p # b
  BY <1>1, <1>3 DEF Heap, Points, Null, ZeroLengthPtr, Junk
<1>5. PointersTo(b) = {}
  <2> SUFFICES ASSUME NEW a \in PointersTo(b) PROVE FALSE OBVIOUS
  <2>1. a \in UNION {{Address(x, i) : i \in DOMAIN mem[x]} : x \in Live} /\ At(a).p = b
    BY DEF PointersTo
  <2>2. PICK x \in Live : a \in {Address(x, i) : i \in DOMAIN mem[x]} BY <2>1
  <2>3. PICK i \in DOMAIN mem[x] : a = Address(x, i) BY <2>2
  <2>4. At(a) = mem[x][i] BY <2>3 DEF At, Address
  <2> QED BY <2>1, <2>2, <2>3, <2>4, <1>4 DEF Live
<1>6. /\ \A k \in DOMAIN calls : k > 1 => calls[k].buf = Null
      /\ \A k \in DOMAIN frames : k > 1 => frames[k].buf = Null
      /\ calls # <<>> /\ frames # <<>> => calls[1].buf = Null \/ frames[1].buf = Null
  BY <1>1 DEF OneHolder
<1>7. /\ \A k \in DOMAIN calls : calls[k].buf = b => k = 1
      /\ \A k \in DOMAIN frames : frames[k].buf = b => k = 1
  BY <1>1, <1>2, <1>6
<1>8. (\E k \in DOMAIN calls : calls[k].buf = b)
      \/ (\E k \in DOMAIN frames : frames[k].buf = b)
  BY DEF Held
<1>9. /\ 1 \in DOMAIN calls => calls # <<>>
      /\ 1 \in DOMAIN frames => frames # <<>>
  OBVIOUS
<1>10. CASE \E k \in DOMAIN calls : calls[k].buf = b
  <2>1. 1 \in DOMAIN calls /\ calls[1].buf = b BY <1>10, <1>7
  <2>2. Holders(b) = {1} BY <2>1, <1>7 DEF Holders
  <2>3. Keepers(b) = {} BY <2>1, <1>2, <1>6, <1>7, <1>9 DEF Keepers
  <2> QED BY <2>2, <2>3, <1>5
<1>11. CASE ~\E k \in DOMAIN calls : calls[k].buf = b
  <2>1. 1 \in DOMAIN frames /\ frames[1].buf = b BY <1>11, <1>7, <1>8
  <2>2. Keepers(b) = {1} BY <2>1, <1>7 DEF Keepers
  <2>3. Holders(b) = {} BY <1>11 DEF Holders
  <2> QED BY <2>2, <2>3, <1>5
<1> QED BY <1>10, <1>11

\* One cell, and no string, has any other block.
LEMMA PointedOnce ==
    ASSUME IInv, Parsing, NEW b \in Live \ ({Client} \cup Held(calls, frames))
    PROVE  /\ Holders(b) = {} /\ Keepers(b) = {}
           /\ \/ PointersTo(b) = {} /\ dropped
              \/ \E a : PointersTo(b) = {a}
<1>1. Heap(mem, used, Held(calls, frames), dropped) BY ParsingHeap
<1>2. b # Null BY <1>1, HeapFacts DEF Live, Null
<1>3. Holders(b) = {} /\ Keepers(b) = {} BY <1>2 DEF Holders, Keepers, Held
<1>4. b > 0 BY <1>1, HeapFacts DEF Live
<1>5. \A x \in Live, y \in Live : \A i \in DOMAIN mem[x], j \in DOMAIN mem[y] :
         mem[x][i].p = b /\ mem[y][j].p = b => x = y /\ i = j
  BY <1>1, <1>4 DEF Heap, Unshared, Live
<1>6. dropped \/ \E x \in Live : \E i \in DOMAIN mem[x] : mem[x][i].p = b
  BY <1>1 DEF Heap, Owned, Live
<1>7. \A a \in PointersTo(b) : \E x \in Live : \E i \in DOMAIN mem[x] :
         a = Address(x, i) /\ mem[x][i].p = b
  <2> TAKE a \in PointersTo(b)
  <2>1. a \in UNION {{Address(x, i) : i \in DOMAIN mem[x]} : x \in Live} /\ At(a).p = b
    BY DEF PointersTo
  <2>2. PICK x \in Live : a \in {Address(x, i) : i \in DOMAIN mem[x]} BY <2>1
  <2>3. PICK i \in DOMAIN mem[x] : a = Address(x, i) BY <2>2
  <2>4. At(a) = mem[x][i] BY <2>3 DEF At, Address
  <2> QED BY <2>1, <2>3, <2>4
<1>8. \A x \in Live : \A i \in DOMAIN mem[x] :
         mem[x][i].p = b => Address(x, i) \in PointersTo(b)
  <2> TAKE x \in Live
  <2> TAKE i \in DOMAIN mem[x]
  <2> HAVE mem[x][i].p = b
  <2>1. At(Address(x, i)) = mem[x][i] BY DEF At, Address
  <2>2. Address(x, i) \in UNION {{Address(y, j) : j \in DOMAIN mem[y]} : y \in Live}
    OBVIOUS
  <2> QED BY <2>1, <2>2 DEF PointersTo
<1>9. CASE \E x \in Live : \E i \in DOMAIN mem[x] : mem[x][i].p = b
  <2>1. PICK x \in Live : \E i \in DOMAIN mem[x] : mem[x][i].p = b BY <1>9
  <2>2. PICK i \in DOMAIN mem[x] : mem[x][i].p = b BY <2>1
  <2>3. \A a \in PointersTo(b) : a = Address(x, i)
    <3> TAKE a \in PointersTo(b)
    <3>1. PICK y \in Live : \E j \in DOMAIN mem[y] :
             a = Address(y, j) /\ mem[y][j].p = b
      BY <1>7
    <3>2. PICK j \in DOMAIN mem[y] : a = Address(y, j) /\ mem[y][j].p = b BY <3>1
    <3>3. x = y /\ i = j BY <1>5, <2>1, <2>2, <3>1, <3>2
    <3> QED BY <3>2, <3>3
  <2>4. Address(x, i) \in PointersTo(b) BY <1>8, <2>1, <2>2
  <2>5. PointersTo(b) = {Address(x, i)} BY <2>3, <2>4
  <2> QED BY <2>5, <1>3
<1>10. CASE ~\E x \in Live : \E i \in DOMAIN mem[x] : mem[x][i].p = b
  <2>1. PointersTo(b) = {} BY <1>7, <1>10
  <2> QED BY <2>1, <1>3, <1>6, <1>10
<1> QED BY <1>9, <1>10

LEMMA InvariantOwners ==
    ASSUME IInv, Parsing
    PROVE  OneOwner
<1> DEFINE n(b) == Cardinality(PointersTo(b)) + Cardinality(Holders(b))
                   + Cardinality(Keepers(b))
<1>1. Cardinality({}) = 0 BY FS_EmptySet
<1>2. \A x : Cardinality({x}) = 1 BY FS_Singleton
<1>3. \A b \in Live \ {Client} : n(b) = 1 \/ (n(b) = 0 /\ dropped)
  <2> TAKE b \in Live \ {Client}
  <2>1. CASE b \in Held(calls, frames)
    <3>1. /\ PointersTo(b) = {}
          /\ \/ Holders(b) = {1} /\ Keepers(b) = {}
             \/ Holders(b) = {} /\ Keepers(b) = {1}
      BY <2>1, HeldOnce
    <3>2. Cardinality(PointersTo(b)) = 0 BY <3>1, <1>1
    <3>3. CASE Holders(b) = {1} /\ Keepers(b) = {}
      <4>1. Cardinality(Holders(b)) = 1 /\ Cardinality(Keepers(b)) = 0
        BY <3>3, <1>1, <1>2
      <4> QED BY <3>2, <4>1
    <3>4. CASE Holders(b) = {} /\ Keepers(b) = {1}
      <4>1. Cardinality(Holders(b)) = 0 /\ Cardinality(Keepers(b)) = 1
        BY <3>4, <1>1, <1>2
      <4> QED BY <3>2, <4>1
    <3> QED BY <3>1, <3>3, <3>4
  <2>2. CASE b \notin Held(calls, frames)
    <3>1. /\ Holders(b) = {} /\ Keepers(b) = {}
          /\ \/ PointersTo(b) = {} /\ dropped
             \/ \E a : PointersTo(b) = {a}
      BY <2>2, PointedOnce
    <3>2. CASE PointersTo(b) = {} /\ dropped BY <3>1, <3>2, <1>1
    <3>3. CASE \E a : PointersTo(b) = {a} BY <3>1, <3>3, <1>1, <1>2, SMTT(60)
    <3> QED BY <3>1, <3>2, <3>3
  <2> QED BY <2>1, <2>2
<1> QED BY <1>3 DEF OneOwner

-----------------------------------------------------------------------------
(***************************************************************************)
(* Theorems.  They are about the phases of a parse, up to eu_parse_destroy *)
(* or until the client has its value, and about texts in which no member   *)
(* of an object occurs twice.                                              *)
(***************************************************************************)
\* The parsers' own conditions hold whenever the parse has not been destroyed.
THEOREM OwnershipInvariant == Repeats = FALSE => (SpecOwnership => []IInv)
<1> SUFFICES ASSUME Repeats = FALSE PROVE SpecOwnership => []IInv OBVIOUS
<1>1. InitOwnership => IInv BY InitInvariant
<1>2. IInv /\ [NextOwnership]_ownVars => IInv' BY NextInvariant
<1> QED BY <1>1, <1>2, PTL DEF SpecOwnership

\* While a document is parsed, memory holds sequences of cells at the addresses
\* that malloc gave, and the variables have their types.
THEOREM ParsingTypes ==
    Repeats = FALSE => (SpecOwnership => [](Parsing => TypeOKOwnership))
<1> SUFFICES ASSUME Repeats = FALSE PROVE SpecOwnership => [](Parsing => TypeOKOwnership)
  OBVIOUS
<1>1. SpecOwnership => []IInv BY OwnershipInvariant
<1>2. IInv => (Parsing => TypeOKOwnership) BY InvariantTypes
<1> QED BY <1>1, <1>2, PTL

\* While a document is parsed, and after a failed parse, every block that
\* struct.c, array.c, string.c and variant.c allocate has one owner: a pointer
\* in the document or a string parser; one has none only if an error path
\* dropped it.
THEOREM ParsingOwners ==
    Repeats = FALSE => (SpecOwnership => [](Parsing => OneOwner))
<1> SUFFICES ASSUME Repeats = FALSE PROVE SpecOwnership => [](Parsing => OneOwner)
  OBVIOUS
<1>1. SpecOwnership => []IInv BY OwnershipInvariant
<1>2. IInv => (Parsing => OneOwner) BY InvariantOwners
<1> QED BY <1>1, <1>2, PTL

\* While a document is parsed, and after a failed parse, the pointers in it, its
\* parsers and its frames refer to blocks that are there, though array_parse
\* and add_extra move blocks and errors free them.
THEOREM ParsingPointers ==
    Repeats = FALSE => (SpecOwnership => [](Parsing => NoDangling))
<1> SUFFICES ASSUME Repeats = FALSE PROVE SpecOwnership => [](Parsing => NoDangling)
  OBVIOUS
<1>1. SpecOwnership => []IInv BY OwnershipInvariant
<1>2. IInv => (Parsing => NoDangling) BY InvariantPointers
<1> QED BY <1>1, <1>2, PTL

=============================================================================
