------------------------ MODULE SchemaCompilerProofs ------------------------
(***************************************************************************)
(* Proofs about SchemaCompiler: its types, that references are resolved,   *)
(* and that the header is declared once and in order, for every set of     *)
(* documents.                                                              *)
(***************************************************************************)
EXTENDS SchemaCompiler, FiniteSetTheorems, WellFoundedInduction, TLAPS

(***************************************************************************)
(* The types of the variables.                                             *)
(***************************************************************************)
Words == STRING \cup {"eu_string", "eu_variant", "array", "main"}
Names == Seq(Words)
AllSchemas == Schemas \cup {Scalar, AnyValue}
Parts == AllSchemas \cup {None}
Slots == [type : Nat, link : Nat]
Calls == [schema : Parts, name : {NoName, Main}]

\* The calls, by the phases of the program.
Opening == {"parse", "process"}
Allocating == {"alloc", "resolved"}
Filling == {"fill_definition", "fill", "link", "resolve", "store", "return", "array"}
Defining == {"define_definition", "define", "members", "emit", "defined", "emit_members"}
Ops == Opening \cup Allocating \cup Filling \cup {"codegen", "exit"} \cup Defining
Tasks == [op : Ops, arg : Nat \cup Slots \cup Calls \cup Parts]

TypeRecords ==
    [schema : AllSchemas, base_name : Names,
     links : Seq(Nat), named : BOOLEAN,
     defined : {"NOT_DEFINED", "DEFINING", "DEFINED"}]
DefRecords == [state : DefStates, type : Nat]
Declarations == [what : {"struct", "member", "members"}, name : Names, type : Nat]

Typed ==
    /\ doc \in Documents \cup {EmptyDocument}
    /\ defs \in Seq(DefRecords)
    /\ infos \in Seq(TypeRecords)
    /\ work \in Seq(Tasks)
    /\ ret \in 0 .. Len(infos) /\ errors \in BOOLEAN
    /\ header \in Seq(Declarations)
    /\ files \subseteq {"c", "h"}
    /\ exit \in {"running", "ok", "error", "crashed", "gone"}

Part(t, i) == Subschemas(infos[t].schema)[i]

\* The types that are there, and to which they can be linked.
TypesWhole ==
    /\ Len(infos) >= 2 /\ infos[1].schema = Scalar /\ infos[2].schema = AnyValue
    /\ infos[2].base_name = <<"eu_variant">>
    /\ \A t \in TypeInfos :
          /\ Len(infos[t].links) = Len(Subschemas(infos[t].schema))
          /\ \A i \in DOMAIN infos[t].links : infos[t].links[i] \in 0 .. Len(infos)
          /\ infos[t].base_name = Tag(infos[t].schema, infos[t].base_name)
    /\ \A k \in DOMAIN header : header[k].type \in 0 .. Len(infos)
    /\ \A name \in macros : \E t \in TypeInfos : name = infos[t].base_name

(***************************************************************************)
(* The order of what has still to be done.                                 *)
(***************************************************************************)
Rank(op) == CASE op \in Opening -> 0 [] op \in Allocating -> 1
              [] op \in Filling -> 2 [] op = "codegen" -> 3
              [] op \in Defining -> 4 [] op = "exit" -> 5

First(x) == work # <<>> /\ work[1] = x
Adjacent(x, y) == \E k \in DOMAIN work : k > 1 /\ work[k - 1] = x /\ work[k] = y
Due(op, arg) == \E k \in DOMAIN work : work[k].op = op /\ work[k].arg = arg

Ordered ==
    /\ \A k \in DOMAIN work : work[k].op \in Ops
    /\ \A j, k \in DOMAIN work : j <= k => Rank(work[j].op) <= Rank(work[k].op)
    /\ \A k \in DOMAIN work : work[k].op \in {"codegen", "exit"} => k = Len(work)

\* What the arguments of the calls are.
TaskWhole(x) ==
    /\ x.op \in Allocating \cup {"fill_definition", "define_definition"}
       => x.arg \in DOMAIN defs
    /\ x.op \in {"fill", "return"} => x.arg \in TypeInfos
    /\ x.op \in {"link", "store"} => /\ x.arg \in Slots /\ x.arg.type \in TypeInfos
                                     /\ x.arg.link \in DOMAIN infos[x.arg.type].links
    /\ x.op = "resolve" => x.arg \in Calls
    /\ x.op = "array" => x.arg \in AllSchemas /\ x.arg.is = "array"
    /\ x.op \in {"define", "members", "emit", "defined", "emit_members"}
       => x.arg \in TypeInfos
    /\ x.op \in {"emit", "defined"} => IsGenerated(x.arg)

Started ==
    \/ DOMAIN defs = DOMAIN doc.defs
    \/ /\ defs = <<>> /\ files = {}
       /\ \A k \in DOMAIN work : work[k].op \in Opening \cup {"exit"}

TasksWhole ==
    /\ \A x \in ToSet(work) : TaskWhole(x)
    /\ work # <<>> /\ work[1].op \in Opening =>
          infos = Builtin /\ Len(work) = 1 /\ ret = NULL /\ ~errors
    /\ Started
    /\ exit # "running" => work = <<>>

(***************************************************************************)
(* What a call returns, and what the next one makes of it.                 *)
(***************************************************************************)
Settled == {d \in DOMAIN defs : defs[d].state \in {"DEF_SCHEMA_TYPE", "DEF_TYPE"}}

\* t is, unless there has been an error, the type of the schema s.
Fits(s, t) ==
    \/ t = NULL /\ errors
    \/ /\ t \in TypeInfos
       /\ s.is = "ref" => s.to \in Settled /\ defs[s.to].type = t
       /\ s.is # "ref" => infos[t].schema = s

\* A call gives the type of s.
Gives(x, s) ==
    \/ x.op = "resolve" /\ x.arg.schema = s
    \/ x.op = "array" /\ x.arg = s
    \/ x.op = "return" /\ Fits(s, x.arg)
    \/ x.op \in {"alloc", "resolved"} /\ s.is = "ref" /\ x.arg = s.to

\* What a call before x gives.
Awaits == {"store", "array", "codegen", "resolved"}
Awaited(x) == CASE x.op = "store" -> Part(x.arg.type, x.arg.link)
                [] x.op = "array" -> x.arg.items
                [] x.op = "codegen" -> doc.main
                [] x.op = "resolved" -> doc.defs[x.arg]

IsMainType(t) == doc.main.is \in {"object", "array"} /\ t # NULL => IsMain(t)

\* What x can rely on when it is made, and on what goes before it.
Ready(x) ==
    /\ x.op \in Awaits => Fits(Awaited(x), ret)
    /\ x.op = "codegen" => IsMainType(ret)
GivesMain(x) == \/ x.op = "resolve" /\ x.arg.name = Main
                \/ x.op = "return" /\ IsMainType(x.arg)
Follows(x, y) ==
    /\ y.op \in Awaits => Gives(x, Awaited(y))
    /\ y.op = "codegen" => GivesMain(x)

Returned == /\ \A x \in Tasks : First(x) => Ready(x)
            /\ \A x, y \in Tasks : Adjacent(x, y) => Follows(x, y)

(***************************************************************************)
(* The definitions and the links.                                          *)
(***************************************************************************)
\* A reference leads to the schema whose type it has, in fewer steps than
\* there are definitions that have been settled.
LeadsTo(d, e) == \E n \in 0 .. Len(doc.defs) :
                    n < Cardinality(Settled) /\ Leads[n][d] = e

DefWhole(d) ==
    LET s == doc.defs[d]
        state == defs[d].state
        t == defs[d].type
    IN  /\ state \in {"DEF_SCHEMA", "DEF_SCHEMA_TYPE"} => s.is \notin {"ref", "badref"}
        /\ state \in {"DEF_REF", "DEF_RESOLVING", "DEF_TYPE"}
           => s.is = "ref" /\ s.to \in DOMAIN defs
        /\ d \notin Settled => t = NULL
        /\ state = "DEF_ERROR" => errors
        /\ d \in Settled => Fits(s, t)
        /\ state = "DEF_TYPE" => t # NULL
        /\ d \in Settled /\ t # NULL => \E e \in DOMAIN defs :
              /\ defs[e].state = "DEF_SCHEMA_TYPE" /\ defs[e].type = t
              /\ LeadsTo(d, e)
        /\ exit = "running" =>
              /\ state \in {"DEF_SCHEMA", "DEF_REF"} => Due("alloc", d)
              /\ state = "DEF_RESOLVING" => Due("resolved", d)

DefsWhole ==
    /\ \A d \in DOMAIN defs : DefWhole(d)
    /\ work # <<>> /\ work[1].op \in Allocating
       => \A d \in DOMAIN defs : Due("fill_definition", d)
    /\ \A k \in DOMAIN work : work[k].op = "resolved"
                              => defs[work[k].arg].state = "DEF_RESOLVING"
    /\ \A j, k \in DOMAIN work : work[j].op = "resolved" /\ work[k].op = "resolved"
                                 /\ work[j].arg = work[k].arg => j = k

\* A call that is going to set a link.
Pending(t, i) ==
    \/ Due("fill", t) \/ Due("link", Slot(t, i)) \/ Due("store", Slot(t, i))
    \/ \E d \in DOMAIN defs : /\ Due("fill_definition", d)
                              /\ defs[d].state = "DEF_SCHEMA_TYPE" /\ defs[d].type = t

LinkWhole(t, i) ==
    LET u == infos[t].links[i]
    IN  /\ u # NULL => Fits(Part(t, i), u)
        /\ u = NULL => \/ Part(t, i) = None
                       \/ /\ files = {}
                          /\ errors \/ exit # "running" \/ Pending(t, i)

LinksWhole == \A t \in TypeInfos : \A i \in DOMAIN infos[t].links : LinkWhole(t, i)

(***************************************************************************)
(* The header.                                                             *)
(***************************************************************************)
\* Code is generated, or has been.
Late == files = {"c", "h"} /\ exit # "gone"

\* Nothing has been generated.
Fresh ==
    /\ header = Included /\ macros \subseteq {<<"eu_variant">>} /\ exit # "ok"
    /\ files # {} => exit = "gone" \/ \A k \in DOMAIN work : work[k].op = "exit"
    /\ \A k \in DOMAIN work : work[k].op = "exit" => errors
    /\ \A t \in TypeInfos : /\ ~infos[t].named
                            /\ infos[t].defined = IF IsGenerated(t) THEN "NOT_DEFINED"
                                                  ELSE "DEFINED"
    /\ \A k \in DOMAIN work : work[k].op \notin Defining

Lately ==
    /\ ~errors /\ exit \in {"running", "ok"}
    /\ \A k \in DOMAIN work : work[k].op \in Defining \cup {"exit"}

\* The next call can rely on what those before it have done.
Readied(x) ==
    /\ x.op = "defined" => Emitted("struct", x.arg)
    /\ x.op = "emit" /\ IsStruct(x.arg) => infos[Extras(x.arg)].named
    /\ x.op = "emit_members" =>
          /\ infos[x.arg].defined # "NOT_DEFINED"
          /\ infos[x.arg].named => infos[x.arg].base_name \in macros

Following(x, y) ==
    /\ y.op = "defined" => x.op = "emit" /\ x.arg = y.arg
    /\ y.op = "emit" => /\ IsStruct(y.arg) /\ x.arg = Extras(y.arg)
                        /\ x.op \in {"members", "emit_members"}
    /\ y.op = "emit_members" => x.arg = y.arg /\ x.op \in {"define", "defined"}

Chained ==
    /\ \A x \in Tasks : First(x) => Readied(x)
    /\ \A x, y \in Tasks : Adjacent(x, y) => Following(x, y)
    /\ \A k \in DOMAIN work :
          k > 1 /\ work[k].op = "emit_members" /\ work[k - 1].op = "define"
          => k = 2 /\ ~infos[work[k].arg].named

\* A struct is declared once, and its definition ended once.
Unique(w) == \A j, k \in DOMAIN w : w[j].op \in {"emit", "defined"} /\ w[j].op = w[k].op
                                    /\ w[j].arg = w[k].arg => j = k

\* A type is declared once its definition is begun, and once only.
Once ==
    /\ \A t \in TypeInfos : /\ Due("emit", t) => ~Emitted("struct", t)
                            /\ Due("emit", t) \/ Due("defined", t)
                               => infos[t].defined = "DEFINING"
    /\ Unique(work)

StateWhole(t) ==
    LET u == infos[t]
    IN  /\ ~IsGenerated(t) => u.defined = "DEFINED"
        /\ u.defined = "NOT_DEFINED" => ~Emitted("struct", t)
        /\ u.defined = "DEFINED" /\ IsGenerated(t) => Emitted("struct", t)
        /\ u.defined = "DEFINING" => Due("defined", t)
        /\ u.defined = "DEFINING" /\ IsArray(t) =>
              \/ Emitted("struct", t)
              \/ First([op |-> "emit", arg |-> t])
        /\ u.named => u.defined # "NOT_DEFINED"
        /\ u.named /\ u.defined = "DEFINED" => u.base_name \in macros
        /\ Emitted("member", t) => u.named /\ u.base_name \in macros
        /\ Emitted("members", t) => u.named
        /\ Emitted("struct", t) /\ IsStruct(t) => infos[Extras(t)].named
        /\ u.named /\ t # variant_type /\ ~NamesClash => Emitted("members", t)

HeaderTyped ==
    /\ Len(header) >= 1 /\ header[1] = Included[1]
    /\ \A k \in DOMAIN header : k > 1 =>
          /\ header[k].type \in TypeInfos
          /\ header[k].name = infos[header[k].type].base_name
          /\ header[k].what = "struct" => IsGenerated(header[k].type)
    /\ \A j, k \in DOMAIN header :
          header[j].what = header[k].what /\ header[j].type = header[k].type => j = k
    /\ \A name \in macros : \/ name = <<"eu_variant">>
                            \/ \E t \in TypeInfos : /\ name = infos[t].base_name
                                                    /\ Emitted("member", t)

HeaderComplete == ~NamesClash => \A k \in DOMAIN header : Complete(k)

\* What a definition or a member of a struct leads to.
IsRoot(t) == (\E d \in DOMAIN defs : t = defs[d].type) \/ IsMain(t)
Wanted(t) == \/ IsRoot(t)
             \/ \E s \in TypeInfos : /\ IsStruct(s) /\ infos[s].defined # "NOT_DEFINED"
                                     /\ t \in ToSet(infos[s].links)

WillDefine(t) ==
    \/ Due("define", t) \/ Due("members", t)
    \/ \E d \in DOMAIN defs : /\ Due("define_definition", d)
                              /\ defs[d].state = "DEF_SCHEMA_TYPE" /\ defs[d].type = t

AllWanted ==
    /\ \A t \in TypeInfos : IsGenerated(t) /\ infos[t].defined # "NOT_DEFINED" => Wanted(t)
    /\ \A t \in TypeInfos : IsGenerated(t) /\ (Due("define", t) \/ Due("members", t))
                            => Wanted(t)
    /\ ~NamesClash => \A t \in TypeInfos :
          IsGenerated(t) /\ Wanted(t) => infos[t].defined # "NOT_DEFINED" \/ WillDefine(t)

\* The definition of m comes before the struct t.
Precedes(m, t) == \E j, k \in DOMAIN work :
                     /\ j < k /\ work[j].op = "define" /\ work[j].arg = m
                     /\ work[k].op = "emit" /\ work[k].arg = t
MembersFirst ==
    \A t \in TypeInfos : IsStruct(t) /\ Due("emit", t) =>
        \A m \in ToSet(MemberTypes(t)) :
            infos[m].defined # "NOT_DEFINED" \/ Precedes(m, t)

LateWhole == /\ Lately /\ Chained /\ Once /\ HeaderTyped
             /\ HeaderComplete /\ AllWanted /\ MembersFirst
             /\ \A t \in TypeInfos : StateWhole(t)

HeaderInv == IF Late THEN LateWhole ELSE Fresh

CompilerInv == /\ Typed /\ TypesWhole /\ Ordered /\ TasksWhole /\ Returned
               /\ DefsWhole /\ LinksWhole /\ HeaderInv

-----------------------------------------------------------------------------
(***************************************************************************)
(* Schemas, and the operators that take them apart.                        *)
(***************************************************************************)

\* What the fields of a schema are, by what it is.
LEMMA SchemaShapes ==
    ASSUME NEW s \in AllSchemas
    PROVE  /\ s.is \in {"scalar", "any", "wrong", "badref", "ref", "array", "object"}
           /\ s.is = "scalar" => s = Scalar
           /\ s.is = "any" => s = AnyValue
           /\ s.is = "array" => s.items \in Parts
           /\ s.is = "object" => /\ s.name \in Names
                                 /\ s.members \in Seq(Schemas)
                                 /\ s.extras \in Parts
           /\ s # None
<1>1. CASE s \in Schemas
  <2>1. CASE s \in {Scalar, AnyValue, Wrong, BadRef}
    BY <2>1 DEF Scalar, AnyValue, Wrong, BadRef, None
  <2>2. CASE s = Ref(s.to)
    BY <2>2 DEF Ref, None
  <2>3. CASE s = Array(s.items) /\ s.items \in Schemas \cup {None}
    <3>1. s.is = "array" BY <2>3 DEF Array
    <3> QED BY <2>3, <3>1 DEF None, Parts, AllSchemas
  <2>4. CASE /\ s = Object(s.name, s.members, s.extras) /\ s.name \in Seq(STRING)
             /\ s.members \in Seq(Schemas) /\ s.extras \in Schemas \cup {None}
    <3>1. s.is = "object" BY <2>4 DEF Object
    <3> QED BY <2>4, <3>1 DEF None, Parts, AllSchemas, Names, Words
  <2> QED BY <1>1, <2>1, <2>2, <2>3, <2>4, SchemaAssumption
<1>2. CASE s \in {Scalar, AnyValue}
  BY <1>2 DEF Scalar, AnyValue, None
<1> QED BY <1>1, <1>2 DEF AllSchemas

\* Subschemas takes a schema apart into schemas, or None.
LEMMA SubschemasTyped ==
    ASSUME NEW s \in AllSchemas
    PROVE  /\ Subschemas(s) \in Seq(Parts)
           /\ s.is = "object" => /\ Len(Subschemas(s)) = Len(s.members) + 1
                                 /\ Subschemas(s)[1] = s.extras
                                 /\ \A i \in 2 .. Len(s.members) + 1 :
                                       Subschemas(s)[i] \in Schemas
           /\ s.is = "array" => Len(Subschemas(s)) = 1 /\ Subschemas(s)[1] = s.items
           /\ s.is \notin {"object", "array"} => Subschemas(s) = <<>>
<1>1. CASE s.is = "object"
  <2>1. Subschemas(s) = <<s.extras>> \o s.members BY <1>1 DEF Subschemas
  <2>2. s.members \in Seq(Schemas) /\ s.extras \in Parts BY <1>1, SchemaShapes
  <2>3. Schemas \subseteq Parts BY DEF Parts, AllSchemas
  <2>4. s.members \in Seq(Parts) BY <2>2, <2>3
  <2> QED BY <1>1, <2>1, <2>2, <2>4
<1>2. CASE s.is = "array"
  <2>1. Subschemas(s) = <<s.items>> BY <1>2 DEF Subschemas
  <2> QED BY <1>2, <2>1, SchemaShapes
<1>3. CASE s.is \notin {"object", "array"}
  <2>1. Subschemas(s) = <<>> BY <1>3 DEF Subschemas
  <2> QED BY <1>3, <2>1
<1> QED BY <1>1, <1>2, <1>3

\* The documents are made of schemas.
LEMMA DocTyped ==
    ASSUME doc \in Documents \cup {EmptyDocument}
    PROVE  /\ doc.main \in AllSchemas /\ doc.defs \in Seq(AllSchemas)
           /\ \A d \in DOMAIN doc.defs : <<DefNames[d]>> \in Names
<1>1. CASE doc \in Documents
  <2>1. doc \in [main : Schemas, defs : Seq(Schemas), present : BOOLEAN]
    BY <1>1, SchemaAssumption
  <2>2. Schemas \subseteq AllSchemas BY DEF AllSchemas
  <2>3. doc.main \in AllSchemas /\ doc.defs \in Seq(AllSchemas) BY <2>1, <2>2
  <2>4. \A d \in DOMAIN doc.defs : DefNames[d] \in STRING BY <1>1, SchemaAssumption
  <2> QED BY <2>3, <2>4 DEF Names, Words
<1>2. CASE doc = EmptyDocument
  <2>1. doc.main = AnyValue /\ doc.defs = <<>> BY <1>2 DEF EmptyDocument
  <2> QED BY <2>1 DEF AllSchemas
<1> QED BY <1>1, <1>2

-----------------------------------------------------------------------------
(***************************************************************************)
(* The calls that are still to be made.                                    *)
(***************************************************************************)

\* Positions in sequences, when m elements take the place of the first of n.
LEMMA Positions ==
    \A m, n, k \in Nat :
       /\ k > 1 /\ k <= n => /\ m + k - 1 \in 1 .. m + n - 1 /\ ~(m + k - 1 <= m)
                             /\ m + k - 1 - m = k - 1 /\ k - 1 + 1 = k
                             /\ k - 1 \in 1 .. n - 1
       /\ k > m /\ k <= m + n - 1 => /\ k - m \in 1 .. n - 1 /\ ~(k <= m)
                                     /\ k - m + 1 \in 1 .. n /\ k - m + 1 > 1
OBVIOUS

\* Calls are put before the others in the place of the first.
LEMMA Pushed ==
    ASSUME NEW S, NEW w \in Seq(S), w # <<>>, NEW ts \in Seq(S), NEW v,
           v = ts \o Tail(w)
    PROVE  /\ v \in Seq(S) /\ Len(v) = Len(ts) + Len(w) - 1
           /\ Len(w) >= 1 /\ Len(ts) \in Nat /\ Len(w) \in Nat
           /\ \A k \in DOMAIN ts : k \in DOMAIN v /\ v[k] = ts[k]
           /\ \A k \in DOMAIN w : k > 1 => /\ Len(ts) + k - 1 \in DOMAIN v
                                           /\ v[Len(ts) + k - 1] = w[k]
           /\ \A k \in DOMAIN v : k > Len(ts) => /\ k - Len(ts) + 1 \in DOMAIN w
                                                 /\ k - Len(ts) + 1 > 1
                                                 /\ v[k] = w[k - Len(ts) + 1]
           /\ \A k \in DOMAIN v : k <= Len(ts) => k \in DOMAIN ts
<1>1. /\ Tail(w) \in Seq(S) /\ Len(Tail(w)) = Len(w) - 1
      /\ Len(w) \in Nat \ {0} /\ Len(ts) \in Nat /\ DOMAIN w = 1 .. Len(w)
      /\ DOMAIN ts = 1 .. Len(ts)
  OBVIOUS
<1>2. \A k \in 1 .. Len(w) - 1 : Tail(w)[k] = w[k + 1]
  OBVIOUS
<1>3. v \in Seq(S) /\ Len(v) = Len(ts) + Len(w) - 1 /\ DOMAIN v = 1 .. Len(v)
  BY <1>1
<1>4. \A k \in 1 .. Len(v) : v[k] = IF k <= Len(ts) THEN ts[k]
                                    ELSE Tail(w)[k - Len(ts)]
  BY <1>1, <1>3
<1> DEFINE m == Len(ts)
           n == Len(w)
<1>5. ASSUME NEW k \in DOMAIN w, k > 1
      PROVE  m + k - 1 \in DOMAIN v /\ v[m + k - 1] = w[k]
  <2>1. k \in Nat /\ k > 1 /\ k <= n /\ m \in Nat /\ n \in Nat BY <1>1, <1>5
  <2> HIDE DEF m, n
  <2>2. m + k - 1 \in 1 .. m + n - 1 /\ ~(m + k - 1 <= m) /\ m + k - 1 - m = k - 1
        /\ k - 1 \in 1 .. n - 1 /\ k - 1 + 1 = k
    BY <2>1, Positions, ZenonT(60)
  <2>3. v[m + k - 1] = Tail(w)[k - 1] BY <1>3, <1>4, <2>2 DEF m, n
  <2> QED BY <1>2, <1>3, <2>2, <2>3 DEF m, n
<1>6. ASSUME NEW k \in DOMAIN v, k > m
      PROVE  /\ k - m + 1 \in DOMAIN w /\ k - m + 1 > 1
             /\ v[k] = w[k - m + 1]
  <2>1. k \in 1 .. m + n - 1 /\ m \in Nat /\ n \in Nat /\ k > m /\ k \in Nat
        /\ k <= m + n - 1
    BY <1>1, <1>3, <1>6
  <2> HIDE DEF m, n
  <2>2. k - m \in 1 .. n - 1 /\ ~(k <= m) /\ k - m + 1 \in 1 .. n /\ k - m + 1 > 1
    BY <2>1, Positions, Zenon
  <2>3. v[k] = Tail(w)[k - m] BY <1>3, <1>4, <2>1, <2>2 DEF m, n
  <2> QED BY <1>1, <1>2, <2>2, <2>3 DEF m, n
<1> QED BY <1>1, <1>3, <1>4, <1>5, <1>6, SMTT(60)

\* The phases of the program, in their order.
LEMMA Ranks ==
    ASSUME NEW op
    PROVE  /\ op \in Opening => Rank(op) = 0
           /\ op \in Allocating => Rank(op) = 1
           /\ op \in Filling => Rank(op) = 2
           /\ op = "codegen" => Rank(op) = 3
           /\ op \in Defining => Rank(op) = 4
           /\ op = "exit" => Rank(op) = 5
BY DEF Rank, Opening, Allocating, Filling, Defining

\* What follows a call is never of an earlier phase.
LEMMA InOrder ==
    ASSUME Typed, Ordered, work # <<>>, NEW k \in DOMAIN work
    PROVE  /\ 1 \in DOMAIN work
           /\ work[1].op \in Allocating => work[k].op \notin Opening
           /\ work[1].op \in Filling => work[k].op \notin Opening \cup Allocating
           /\ work[1].op = "codegen" => Len(work) = 1
           /\ work[1].op \in Defining => work[k].op \in Defining \cup {"exit"}
           /\ work[1].op = "exit" => Len(work) = 1
<1>1. 1 \in DOMAIN work /\ 1 <= k /\ Len(work) \in Nat /\ DOMAIN work = 1 .. Len(work)
  BY DEF Typed
<1>2. Rank(work[1].op) <= Rank(work[k].op) BY <1>1 DEF Ordered
<1>3. /\ work[1].op \in {"codegen", "exit"} => Len(work) = 1
      /\ work[k].op \in Opening \cup Allocating \cup Filling \cup {"codegen", "exit"}
                        \cup Defining
  BY <1>1 DEF Ordered, Ops
<1>4. ASSUME work[1].op \in Allocating PROVE work[k].op \notin Opening
  BY <1>2, <1>4, Ranks
<1>5. ASSUME work[1].op \in Filling PROVE work[k].op \notin Opening \cup Allocating
  BY <1>2, <1>5, Ranks
<1>6. ASSUME work[1].op \in Defining PROVE work[k].op \in Defining \cup {"exit"}
  BY <1>2, <1>3, <1>6, Ranks
<1> QED BY <1>1, <1>3, <1>4, <1>5, <1>6

\* The phase stays the same when a call is replaced by others of its phase.
LEMMA OrderKept ==
    ASSUME Typed, Ordered, work # <<>>, NEW ts \in Seq(Tasks),
           work' = ts \o Tail(work),
           NEW Phase \in {Allocating, Filling, Defining}, work[1].op \in Phase,
           \A k \in DOMAIN ts : ts[k].op \in Phase
    PROVE  Ordered'
<1> DEFINE m == Len(ts)
<1>1. work \in Seq(Tasks) /\ 1 \in DOMAIN work /\ DOMAIN work = 1 .. Len(work)
      /\ Len(work) \in Nat
  BY DEF Typed
<1>2. /\ work' \in Seq(Tasks) /\ Len(work') = m + Len(work) - 1 /\ m \in Nat
      /\ \A k \in DOMAIN ts : k \in DOMAIN work' /\ work'[k] = ts[k]
      /\ \A k \in DOMAIN work' : k > m => /\ k - m + 1 \in DOMAIN work
                                          /\ k - m + 1 > 1
                                          /\ work'[k] = work[k - m + 1]
      /\ \A k \in DOMAIN work' : k <= m => k \in DOMAIN ts
  BY <1>1, Pushed
<1>3. DOMAIN work' = 1 .. Len(work') /\ Len(work') \in Nat BY <1>2
<1>4. \A x, y : x \in Phase /\ y \in Phase => Rank(x) = Rank(y) /\ x \notin {"codegen", "exit"}
  BY Ranks DEF Allocating, Filling, Defining
<1>5. Phase \subseteq Ops BY DEF Ops
<1>6. \A k \in DOMAIN work' : \/ k <= m /\ work'[k].op \in Phase
                              \/ /\ k > m /\ k - m + 1 \in DOMAIN work
                                 /\ work'[k] = work[k - m + 1]
  BY <1>2, <1>3
<1>7. ASSUME NEW j \in DOMAIN work', NEW k \in DOMAIN work', j <= k
      PROVE  Rank(work'[j].op) <= Rank(work'[k].op)
  <2>1. j \in Nat /\ k \in Nat BY <1>3
  <2>2. \A x : Rank(x) <= Rank(x) \/ x \notin Phase BY Ranks
  <2>3. CASE k <= m
    <3>1. j <= m BY <1>2, <2>1, <2>3, <1>7
    <3>2. work'[j].op \in Phase /\ work'[k].op \in Phase BY <1>2, <2>1, <2>3, <3>1
    <3> QED BY <3>2, <1>4, <2>2
  <2>4. CASE j <= m /\ k > m
    <3>1. work'[j].op \in Phase BY <1>2, <2>4
    <3>2. Rank(work'[j].op) = Rank(work[1].op) BY <1>4, <3>1
    <3>3. k - m + 1 \in DOMAIN work /\ work'[k] = work[k - m + 1] /\ 1 <= k - m + 1
      BY <1>2, <2>1, <2>4
    <3>4. Rank(work[1].op) <= Rank(work[k - m + 1].op) BY <1>1, <3>3 DEF Ordered
    <3> QED BY <3>2, <3>3, <3>4
  <2>5. CASE j > m /\ k > m
    <3>1. /\ j - m + 1 \in DOMAIN work /\ work'[j] = work[j - m + 1]
          /\ k - m + 1 \in DOMAIN work /\ work'[k] = work[k - m + 1]
      BY <1>2, <2>5
    <3>2. j - m + 1 <= k - m + 1 BY <1>2, <2>1, <1>7
    <3> QED BY <3>1, <3>2 DEF Ordered
  <2>6. \A x, y \in Nat : x <= y \/ x > y OBVIOUS
  <2>7. (j <= m \/ j > m) /\ (k <= m \/ k > m) BY <1>2, <2>1, <2>6, Zenon
  <2> QED BY <2>3, <2>4, <2>5, <2>7, Zenon
<1>8. ASSUME NEW k \in DOMAIN work', work'[k].op \in {"codegen", "exit"}
      PROVE  k = Len(work')
  <2>1. k > m /\ k - m + 1 \in DOMAIN work /\ work'[k] = work[k - m + 1]
    BY <1>4, <1>6, <1>8
  <2>2. k - m + 1 = Len(work) BY <2>1, <1>8 DEF Ordered
  <2> QED BY <1>1, <1>2, <1>3, <2>2
<1>9. ASSUME NEW k \in DOMAIN work'
      PROVE  work'[k].op \in Ops
  <2>1. CASE work'[k].op \in Phase BY <2>1, <1>5
  <2>2. CASE k - m + 1 \in DOMAIN work /\ work'[k] = work[k - m + 1]
    BY <2>2 DEF Ordered
  <2> QED BY <1>6, <2>1, <2>2
<1> QED BY <1>7, <1>8, <1>9 DEF Ordered

\* A call that is due stays so when another one is made.
LEMMA DueStays ==
    ASSUME work \in Seq(Tasks), work # <<>>, NEW ts \in Seq(Tasks),
           work' = ts \o Tail(work), NEW op, NEW arg, Due(op, arg),
           work[1].op # op \/ work[1].arg # arg
    PROVE  Due(op, arg)'
<1>1. PICK k \in DOMAIN work : work[k].op = op /\ work[k].arg = arg BY DEF Due
<1>2. k > 1 BY <1>1
<1>3. Len(ts) + k - 1 \in DOMAIN work' /\ work'[Len(ts) + k - 1] = work[k]
  BY <1>2, Pushed, SMTT(60)
<1> QED BY <1>1, <1>3 DEF Due

\* A call that is put before the others is due.
LEMMA DueNew ==
    ASSUME work \in Seq(Tasks), work # <<>>, NEW ts \in Seq(Tasks),
           work' = ts \o Tail(work), NEW k \in DOMAIN ts
    PROVE  Due(ts[k].op, ts[k].arg)'
<1>1. k \in DOMAIN work' /\ work'[k] = ts[k] BY Pushed
<1> QED BY <1>1 DEF Due

LEMMA InWork ==
    ASSUME work \in Seq(Tasks)
    PROVE  /\ \A x : First(x) => x \in ToSet(work) /\ x \in Tasks
           /\ \A x, y : Adjacent(x, y) => /\ x \in ToSet(work) /\ y \in ToSet(work)
                                          /\ x \in Tasks /\ y \in Tasks
           /\ work # <<>> => First(work[1])
           /\ \A x \in ToSet(work) : Due(x.op, x.arg)
           /\ \A op, arg : Due(op, arg) <=> \E x \in ToSet(work) : x.op = op /\ x.arg = arg
<1>1. \A k \in DOMAIN work : work[k] \in ToSet(work) /\ work[k] \in Tasks
  BY DEF ToSet
<1>2. \A k \in DOMAIN work : k > 1 => k - 1 \in DOMAIN work
  OBVIOUS
<1>3. work # <<>> => 1 \in DOMAIN work OBVIOUS
<1> QED BY <1>1, <1>2, <1>3 DEF First, Adjacent, ToSet, Due

\* What goes before what, when calls are put in the place of the first.
LEMMA Neighbours ==
    ASSUME work \in Seq(Tasks), NEW h, First(h), NEW ts \in Seq(Tasks),
           work' = ts \o Tail(work)
    PROVE  /\ work' \in Seq(Tasks)
           /\ ToSet(work') \subseteq ToSet(work) \cup ToSet(ts)
           /\ \A x : First(x)' => IF ts # <<>> THEN x = ts[1] ELSE Adjacent(h, x)
           /\ \A x, y : Adjacent(x, y)' =>
                 \/ Adjacent(x, y)
                 \/ \E k \in DOMAIN ts : k > 1 /\ ts[k - 1] = x /\ ts[k] = y
                 \/ ts # <<>> /\ x = ts[Len(ts)] /\ Adjacent(h, y)
<1> DEFINE m == Len(ts)
<1>1. work # <<>> /\ work[1] = h /\ 1 \in DOMAIN work BY DEF First
<1>2. /\ work' \in Seq(Tasks)
      /\ \A k \in DOMAIN work' : k > m => /\ k - m + 1 \in DOMAIN work
                                          /\ k - m + 1 > 1
                                          /\ work'[k] = work[k - m + 1]
      /\ \A k \in DOMAIN work' : k <= m => k \in DOMAIN ts /\ work'[k] = ts[k]
      /\ m \in Nat /\ DOMAIN work = 1 .. Len(work) /\ Len(work) \in Nat
      /\ \A k \in DOMAIN ts : k \in DOMAIN work' /\ work'[k] = ts[k]
  BY <1>1, Pushed
<1>3. DOMAIN work' = 1 .. Len(work') /\ Len(work') \in Nat BY <1>2
<1>4. \A x, y \in Nat : x <= y \/ x > y OBVIOUS
<1>5. ToSet(work') \subseteq ToSet(work) \cup ToSet(ts)
  BY <1>2, <1>3, <1>4 DEF ToSet
<1>6. ASSUME NEW x, First(x)' PROVE IF ts # <<>> THEN x = ts[1] ELSE Adjacent(h, x)
  <2>1. work' # <<>> /\ work'[1] = x /\ 1 \in DOMAIN work' BY <1>2, <1>6 DEF First
  <2>2. CASE ts # <<>>
    <3>1. 1 \in DOMAIN ts BY <2>2
    <3> QED BY <1>2, <2>1, <2>2, <3>1
  <2>3. CASE ts = <<>>
    <3>1. m = 0 /\ 1 > m /\ 1 - m + 1 = 2 /\ 2 > 1 /\ 2 - 1 = 1 BY <2>3
    <3>2. 2 \in DOMAIN work /\ work'[1] = work[2] BY <1>2, <2>1, <3>1
    <3> QED BY <1>1, <2>1, <2>3, <3>1, <3>2 DEF Adjacent
  <2> QED BY <2>2, <2>3
<1>7. ASSUME NEW x, NEW y, Adjacent(x, y)'
      PROVE  \/ Adjacent(x, y)
             \/ \E k \in DOMAIN ts : k > 1 /\ ts[k - 1] = x /\ ts[k] = y
             \/ ts # <<>> /\ x = ts[m] /\ Adjacent(h, y)
  <2>1. PICK k \in DOMAIN work' : k > 1 /\ work'[k - 1] = x /\ work'[k] = y
    BY <1>7 DEF Adjacent
  <2>2. k \in Nat /\ k - 1 \in Nat /\ k - 1 \in DOMAIN work' BY <1>3, <2>1
  <2>3. CASE k <= m
    <3>1. k - 1 <= m BY <1>2, <2>2, <2>3
    <3> QED BY <1>2, <2>1, <2>2, <2>3, <3>1
  <2>4. CASE k > m /\ k - 1 <= m
    <3>1. k - 1 = m /\ k - m + 1 = 2 /\ 2 > 1 /\ 2 - 1 = 1 BY <1>2, <2>2, <2>4
    <3>2. m \in DOMAIN ts /\ x = ts[m] BY <1>2, <2>1, <2>2, <2>4, <3>1
    <3>3. 2 \in DOMAIN work /\ y = work[2] BY <1>2, <2>1, <2>4, <3>1
    <3>4. Adjacent(h, y) BY <1>1, <3>1, <3>3 DEF Adjacent
    <3> QED BY <3>2, <3>4
  <2>5. CASE k > m /\ k - 1 > m
    <3>1. (k - 1) - m + 1 = (k - m + 1) - 1 BY <1>2, <2>2
    <3>2. k - m + 1 \in DOMAIN work /\ k - m + 1 > 1 /\ y = work[k - m + 1]
      BY <1>2, <2>1, <2>5
    <3>3. x = work[(k - 1) - m + 1] BY <1>2, <2>1, <2>2, <2>5
    <3> QED BY <3>1, <3>2, <3>3 DEF Adjacent
  <2> QED BY <1>2, <1>4, <2>2, <2>3, <2>4, <2>5
<1> QED BY <1>2, <1>5, <1>6, <1>7

\* What goes before what, when the first call is done.
LEMMA NeighboursLeft ==
    ASSUME work \in Seq(Tasks), NEW h, First(h), work' = Tail(work)
    PROVE  /\ work' \in Seq(Tasks) /\ ToSet(work') \subseteq ToSet(work)
           /\ \A x : First(x)' => Adjacent(h, x)
           /\ \A x, y : Adjacent(x, y)' => Adjacent(x, y)
<1>1. ASSUME NEW ts \in Seq(Tasks), ts = <<>>
      PROVE  /\ work' \in Seq(Tasks) /\ ToSet(work') \subseteq ToSet(work)
             /\ \A x : First(x)' => Adjacent(h, x)
             /\ \A x, y : Adjacent(x, y)' => Adjacent(x, y)
  <2>1. work' = ts \o Tail(work) BY <1>1 DEF First
  <2>2. DOMAIN ts = {} /\ ToSet(ts) = {} BY <1>1 DEF ToSet
  <2>3. /\ work' \in Seq(Tasks) /\ ToSet(work') \subseteq ToSet(work) \cup ToSet(ts)
        /\ \A x : First(x)' => Adjacent(h, x)
        /\ \A x, y : Adjacent(x, y)' =>
                 \/ Adjacent(x, y)
                 \/ \E k \in DOMAIN ts : k > 1 /\ ts[k - 1] = x /\ ts[k] = y
    BY <1>1, <2>1, Neighbours
  <2> QED BY <2>2, <2>3
<1>2. <<>> \in Seq(Tasks) OBVIOUS
<1> QED BY <1>1, <1>2

-----------------------------------------------------------------------------
(***************************************************************************)
(* What no step before the output takes back.                              *)
(***************************************************************************)
Keeps ==
    /\ doc' = doc /\ DOMAIN defs' = DOMAIN defs
    /\ TypeInfos \subseteq TypeInfos'
    /\ \A t \in TypeInfos : /\ infos'[t].schema = infos[t].schema
                            /\ infos'[t].base_name = infos[t].base_name
                            /\ DOMAIN infos'[t].links = DOMAIN infos[t].links
    /\ \A d \in Settled : d \in Settled' /\ defs'[d] = defs[d]
    /\ errors => errors'

\* A type that fits a schema does so from then on.
LEMMA FitsStays ==
    ASSUME Keeps, NEW s, NEW t, Fits(s, t)
    PROVE  Fits(s, t)'
BY DEF Keeps, Fits

\* What a call gives, it gives until it is made.
LEMMA GivesStays ==
    ASSUME Keeps, NEW x, NEW s, Gives(x, s)
    PROVE  Gives(x, s)'
BY FitsStays DEF Gives

LEMMA MainTypeStays ==
    ASSUME Keeps, NEW t \in {NULL} \cup TypeInfos, IsMainType(t)
    PROVE  IsMainType(t)'
BY DEF Keeps, IsMainType, IsMain

LEMMA TaskStays ==
    ASSUME Keeps, NEW x, TaskWhole(x)
    PROVE  /\ TaskWhole(x)'
           /\ x.op \in Awaits => Awaited(x)' = Awaited(x)
<1>1. TaskWhole(x)'
  BY DEF Keeps, TaskWhole, IsGenerated, IsStruct, IsArray, Allocating
<1>2. ASSUME x.op \in Awaits PROVE Awaited(x)' = Awaited(x)
  <2>1. CASE x.op = "store"
    <3>1. x.arg.type \in TypeInfos BY <2>1 DEF TaskWhole
    <3> QED BY <2>1, <3>1 DEF Keeps, Awaited, Part
  <2>2. CASE x.op \in {"array", "codegen", "resolved"}
    BY <2>2 DEF Keeps, Awaited
  <2> QED BY <1>2, <2>1, <2>2 DEF Awaits
<1> QED BY <1>1, <1>2

LEMMA FollowsStays ==
    ASSUME Keeps, NEW x, NEW y, TaskWhole(x), TaskWhole(y), Follows(x, y)
    PROVE  Follows(x, y)'
<1>1. ASSUME y.op \in Awaits PROVE Gives(x, Awaited(y))'
  <2>1. PICK s : s = Awaited(y) OBVIOUS
  <2>2. Awaited(y)' = s BY <1>1, <2>1, TaskStays
  <2>3. Gives(x, s)' BY <1>1, <2>1, GivesStays DEF Follows
  <2> QED BY <2>2, <2>3 DEF Gives, Fits
<1>2. ASSUME y.op = "codegen" PROVE GivesMain(x)'
  <2>1. x.op = "return" => x.arg \in {NULL} \cup TypeInfos BY DEF TaskWhole
  <2> QED BY <1>2, <2>1, MainTypeStays DEF Follows, GivesMain
<1> QED BY <1>1, <1>2 DEF Follows

\* The calls that are left have arguments of their kinds.
LEMMA TasksKept ==
    ASSUME Typed, Ordered, TasksWhole, Keeps, NEW h, First(h), exit' = exit,
           NEW ts \in Seq(Tasks), work' = ts \o Tail(work), files' = files,
           h.op \in Allocating \cup Filling \cup Defining,
           \A x \in ToSet(ts) : TaskWhole(x)' /\ x.op \notin Opening
    PROVE  TasksWhole'
<1>1. work \in Seq(Tasks) /\ 1 \in DOMAIN work /\ work # <<>> /\ work[1] = h
  BY DEF Typed, First
<1>2. work' \in Seq(Tasks) /\ ToSet(work') \subseteq ToSet(work) \cup ToSet(ts)
  BY <1>1, Neighbours
<1>3. \A x \in ToSet(work) : x.op \notin Opening
  <2> SUFFICES ASSUME NEW k \in DOMAIN work PROVE work[k].op \notin Opening
    BY DEF ToSet
  <2>1. /\ h.op \in Allocating => work[k].op \notin Opening
        /\ h.op \in Filling => work[k].op \notin Opening \cup Allocating
        /\ h.op \in Defining => work[k].op \in Defining \cup {"exit"}
    BY <1>1, InOrder
  <2>2. Opening \cap (Defining \cup {"exit"}) = {} BY DEF Opening, Defining
  <2> QED BY <2>1, <2>2
<1>4. \A x \in ToSet(work') : TaskWhole(x)' /\ x.op \notin Opening
  BY <1>2, <1>3, TaskStays DEF TasksWhole
<1>5. DOMAIN defs = DOMAIN doc.defs
  BY <1>1 DEF TasksWhole, Started, Opening, Allocating, Filling, Defining
<1>6. Started' BY <1>5 DEF Started, Keeps
<1>7. exit' = "running" BY <1>1 DEF TasksWhole
<1>8. ASSUME work' # <<>> PROVE work'[1].op \notin Opening
  <2>1. 1 \in DOMAIN work' BY <1>2, <1>8
  <2>2. work'[1] \in ToSet(work') BY <2>1 DEF ToSet
  <2> QED BY <2>2, <1>4
<1> QED BY <1>4, <1>6, <1>7, <1>8 DEF TasksWhole

\* Calls are put in the place of one, the last of which gives what that one
\* would have given.
LEMMA ReturnedLater ==
    ASSUME Typed, TasksWhole, Returned, Keeps, NEW h, First(h),
           NEW ts \in Seq(Tasks), work' = ts \o Tail(work), ts # <<>>,
           ts[1].op \notin Awaits,
           \A k \in DOMAIN ts : k > 1 => Follows(ts[k - 1], ts[k])',
           \A s : Gives(h, s) => Gives(ts[Len(ts)], s)',
           Gives(h, doc.main) /\ GivesMain(h) => GivesMain(ts[Len(ts)])'
    PROVE  Returned'
<1>1. work \in Seq(Tasks) BY DEF Typed
<1>2. ASSUME NEW x, First(x)' PROVE Ready(x)'
  <2>1. x = ts[1] BY <1>1, <1>2, Neighbours
  <2> QED BY <2>1 DEF Ready, Awaits
<1>3. ASSUME NEW x, NEW y, Adjacent(x, y)' PROVE Follows(x, y)'
  <2>1. CASE Adjacent(x, y)
    BY <2>1, <1>1, InWork, FollowsStays DEF Returned, TasksWhole
  <2>2. CASE \E k \in DOMAIN ts : k > 1 /\ ts[k - 1] = x /\ ts[k] = y
    BY <2>2
  <2>3. CASE x = ts[Len(ts)] /\ Adjacent(h, y)
    <3>1. Follows(h, y) /\ TaskWhole(y) BY <2>3, <1>1, InWork DEF Returned, TasksWhole
    <3>2. ASSUME y.op \in Awaits PROVE Gives(x, Awaited(y))'
      <4>1. PICK s : s = Awaited(y) OBVIOUS
      <4>2. Awaited(y)' = s BY <3>1, <3>2, <4>1, TaskStays
      <4>3. Gives(x, s)' BY <2>3, <3>1, <3>2, <4>1 DEF Follows
      <4> QED BY <4>2, <4>3 DEF Gives, Fits
    <3>3. ASSUME y.op = "codegen" PROVE GivesMain(x)'
      <4>1. y.op \in Awaits /\ Awaited(y) = doc.main BY <3>3 DEF Awaits, Awaited
      <4> QED BY <2>3, <3>1, <3>3, <4>1 DEF Follows
    <3> QED BY <3>2, <3>3 DEF Follows
  <2> QED BY <1>1, <1>3, <2>1, <2>2, <2>3, Neighbours
<1> QED BY <1>2, <1>3 DEF Returned

\* The first call is made and returns.
LEMMA ReturnedNow ==
    ASSUME Typed, TasksWhole, Returned, Keeps, NEW h, First(h),
           work' = Tail(work),
           \A s : Gives(h, s) => Fits(s, ret)',
           Gives(h, doc.main) /\ GivesMain(h) => IsMainType(ret)'
    PROVE  Returned'
<1>1. work \in Seq(Tasks) BY DEF Typed
<1>2. ASSUME NEW x, First(x)' PROVE Ready(x)'
  <2>1. Adjacent(h, x) BY <1>1, <1>2, NeighboursLeft
  <2>2. Follows(h, x) /\ TaskWhole(x) BY <2>1, <1>1, InWork DEF Returned, TasksWhole
  <2>3. ASSUME x.op \in Awaits PROVE Fits(Awaited(x), ret)'
    <3>1. PICK s : s = Awaited(x) OBVIOUS
    <3>2. Awaited(x)' = s BY <2>2, <2>3, <3>1, TaskStays
    <3>3. Fits(s, ret)' BY <2>2, <2>3, <3>1 DEF Follows
    <3> QED BY <3>2, <3>3 DEF Fits
  <2>4. ASSUME x.op = "codegen" PROVE IsMainType(ret)'
    <3>1. x.op \in Awaits /\ Awaited(x) = doc.main BY <2>4 DEF Awaits, Awaited
    <3> QED BY <2>2, <2>4, <3>1 DEF Follows
  <2> QED BY <2>3, <2>4 DEF Ready
<1>3. ASSUME NEW x, NEW y, Adjacent(x, y)' PROVE Follows(x, y)'
  <2>1. Adjacent(x, y) BY <1>1, <1>3, NeighboursLeft
  <2> QED BY <2>1, <1>1, InWork, FollowsStays DEF Returned, TasksWhole
<1> QED BY <1>2, <1>3 DEF Returned

\* References lead to the same definitions, and more of them are settled.
LEMMA LeadsStays ==
    ASSUME Typed, Keeps, NEW d, NEW e, LeadsTo(d, e), DOMAIN defs' = 1 .. Len(defs)
    PROVE  LeadsTo(d, e)'
<1>1. Leads' = Leads BY DEF Keeps, Leads, Target
<1>2. PICK n \in 0 .. Len(doc.defs) : n < Cardinality(Settled) /\ Leads[n][d] = e
  BY DEF LeadsTo
<1>3. Settled \subseteq Settled' BY DEF Keeps
<1>4. IsFiniteSet(Settled')
  <2>1. Len(defs) \in Nat BY DEF Typed
  <2>2. IsFiniteSet(1 .. Len(defs)) BY <2>1, FS_Interval
  <2>3. Settled' \subseteq 1 .. Len(defs) BY DEF Settled
  <2> QED BY <2>2, <2>3, FS_Subset
<1>5. /\ Cardinality(Settled) <= Cardinality(Settled')
      /\ Cardinality(Settled) \in Nat /\ Cardinality(Settled') \in Nat
  BY <1>3, <1>4, FS_Subset, FS_CardinalityType
<1>6. n \in Nat BY <1>2
<1>7. \A x, y, z \in Nat : x < y /\ y <= z => x < z OBVIOUS
<1>8. n < Cardinality(Settled') BY <1>2, <1>5, <1>6, <1>7
<1> QED BY <1>1, <1>2, <1>8 DEF LeadsTo, Keeps

\* A definition stays what it is as long as the calls for it are not made.
LEMMA DefStays ==
    ASSUME Typed, Keeps, DOMAIN defs' = 1 .. Len(defs),
           NEW d \in DOMAIN defs, DefWhole(d), defs'[d] = defs[d],
           exit' = "running" =>
              /\ exit = "running"
              /\ defs[d].state \in {"DEF_SCHEMA", "DEF_REF"}
                 => (Due("alloc", d) => Due("alloc", d)')
              /\ defs[d].state = "DEF_RESOLVING"
                 => (Due("resolved", d) => Due("resolved", d)')
    PROVE  DefWhole(d)'
<1>1. d \in Settled <=> d \in Settled'
  BY DEF Keeps, Settled
<1>2. ASSUME d \in Settled PROVE Fits(doc.defs[d], defs[d].type)'
  <2>1. PICK s : s = doc.defs[d] OBVIOUS
  <2>2. PICK t : t = defs[d].type OBVIOUS
  <2>3. Fits(s, t)' BY <1>2, <2>1, <2>2, FitsStays DEF DefWhole
  <2> QED BY <2>1, <2>2, <2>3 DEF Fits, Keeps
<1>3. ASSUME d \in Settled, defs[d].type # NULL
      PROVE  \E e \in DOMAIN defs' : /\ defs'[e].state = "DEF_SCHEMA_TYPE"
                                     /\ defs'[e].type = defs[d].type /\ LeadsTo(d, e)'
  <2>1. PICK e \in DOMAIN defs : /\ defs[e].state = "DEF_SCHEMA_TYPE"
                                 /\ defs[e].type = defs[d].type /\ LeadsTo(d, e)
    BY <1>3 DEF DefWhole
  <2>2. defs'[e] = defs[e] BY <2>1 DEF Keeps, Settled
  <2>3. LeadsTo(d, e)' BY <2>1, LeadsStays
  <2> QED BY <2>1, <2>2, <2>3 DEF Keeps
<1>4. doc' = doc /\ (errors => errors') BY DEF Keeps
<1> QED BY <1>1, <1>2, <1>3, <1>4 DEF DefWhole, Keeps

\* Calls that have still to set a link.
LEMMA PendingStays ==
    ASSUME Typed, Keeps, NEW h, First(h), NEW ts \in Seq(Tasks),
           work' = ts \o Tail(work), NEW t, NEW i, Pending(t, i),
           ~(h.op = "fill" /\ h.arg = t),
           ~(h.op \in {"link", "store"} /\ h.arg = Slot(t, i)),
           ~(h.op = "fill_definition" /\ h.arg \in DOMAIN defs
             /\ defs[h.arg].type = t /\ defs[h.arg].state = "DEF_SCHEMA_TYPE")
    PROVE  Pending(t, i)'
<1>1. work \in Seq(Tasks) /\ work # <<>> /\ work[1] = h BY DEF Typed, First
<1>2. CASE Due("fill", t)
  <2>1. Due("fill", t)' BY <1>1, <1>2, DueStays
  <2> QED BY <2>1 DEF Pending
<1>3. CASE Due("link", Slot(t, i))
  <2>1. PICK x : x = Slot(t, i) OBVIOUS
  <2>2. Due("link", x)' BY <1>1, <1>3, <2>1, DueStays
  <2> QED BY <2>1, <2>2 DEF Pending, Slot
<1>4. CASE Due("store", Slot(t, i))
  <2>1. PICK x : x = Slot(t, i) OBVIOUS
  <2>2. Due("store", x)' BY <1>1, <1>4, <2>1, DueStays
  <2> QED BY <2>1, <2>2 DEF Pending, Slot
<1>5. ASSUME NEW d \in DOMAIN defs, Due("fill_definition", d),
             defs[d].state = "DEF_SCHEMA_TYPE", defs[d].type = t
      PROVE  Pending(t, i)'
  <2>1. Due("fill_definition", d)' BY <1>1, <1>5, DueStays
  <2>2. defs'[d] = defs[d] /\ d \in DOMAIN defs' BY <1>5 DEF Keeps, Settled
  <2> QED BY <1>5, <2>1, <2>2 DEF Pending
<1> QED BY <1>2, <1>3, <1>4, <1>5 DEF Pending

\* A link stays what it is.
LEMMA LinkStays ==
    ASSUME Keeps, NEW t \in TypeInfos, NEW i \in DOMAIN infos[t].links, LinkWhole(t, i),
           infos'[t].links[i] = infos[t].links[i],
           infos[t].links[i] = NULL /\ files = {} =>
              /\ files' = {}
              /\ \/ errors' \/ exit' # "running"
                 \/ exit = "running" /\ (Pending(t, i) => Pending(t, i)')
    PROVE  LinkWhole(t, i)'
<1>1. Part(t, i)' = Part(t, i) BY DEF Keeps, Part
<1>2. ASSUME infos[t].links[i] # NULL PROVE Fits(Part(t, i), infos[t].links[i])'
  <2>1. PICK s, u : s = Part(t, i) /\ u = infos[t].links[i] OBVIOUS
  <2>2. Fits(s, u)' BY <1>2, <2>1, FitsStays DEF LinkWhole
  <2> QED BY <1>1, <2>1, <2>2 DEF Fits
<1>3. errors => errors' BY DEF Keeps
<1>4. ASSUME infos[t].links[i] = NULL, Part(t, i) # None
      PROVE  files' = {} /\ (errors' \/ exit' # "running" \/ Pending(t, i)')
  BY <1>3, <1>4 DEF LinkWhole
<1> QED BY <1>1, <1>2, <1>4 DEF LinkWhole

-----------------------------------------------------------------------------
(***************************************************************************)
(* Before the output.                                                      *)
(***************************************************************************)

\* Nothing has been written while there are calls of the first phases.
LEMMA Early ==
    ASSUME CompilerInv, NEW h, First(h), h.op \notin Defining \cup {"exit"}
    PROVE  /\ ~Late /\ Fresh /\ files = {} /\ exit = "running"
           /\ \A x \in ToSet(work) : x.op \notin Defining
           /\ \A x \in ToSet(work) : x.op = "exit" => errors
<1>1. work \in Seq(Tasks) /\ work # <<>> /\ work[1] = h /\ 1 \in DOMAIN work
  BY DEF CompilerInv, Typed, First
<1>2. ~Late BY <1>1 DEF CompilerInv, HeaderInv, LateWhole, Lately
<1>3. Fresh BY <1>2 DEF CompilerInv, HeaderInv
<1>4. exit = "running" BY <1>1 DEF CompilerInv, TasksWhole
<1>5. files = {} BY <1>1, <1>3, <1>4 DEF Fresh
<1> QED BY <1>2, <1>3, <1>4, <1>5 DEF Fresh, ToSet

\* It stays so.
LEMMA FreshStays ==
    ASSUME CompilerInv, NEW h, First(h), h.op \notin Defining \cup {"exit"},
           NEW ts \in Seq(Tasks), work' = ts \o Tail(work),
           \A x \in ToSet(ts) : x.op \notin Defining \cup {"exit"},
           UNCHANGED <<header, macros, files, exit>>, errors => errors',
           \A t \in TypeInfos' :
              /\ ~infos'[t].named
              /\ infos'[t].defined = IF infos'[t].schema.is \in {"object", "array"}
                                     THEN "NOT_DEFINED" ELSE "DEFINED"
    PROVE  HeaderInv'
<1>1. work \in Seq(Tasks) BY DEF CompilerInv, Typed
<1>2. ToSet(work') \subseteq ToSet(work) \cup ToSet(ts) BY <1>1, Neighbours
<1>3. /\ ~Late /\ Fresh /\ files = {} /\ exit = "running"
      /\ \A x \in ToSet(work) : x.op \notin Defining
      /\ \A x \in ToSet(work) : x.op = "exit" => errors
  BY Early
<1>4. \A k \in DOMAIN work' : work'[k] \in ToSet(work') BY DEF ToSet
<1>5. \A k \in DOMAIN work' : /\ work'[k].op \notin Defining
                              /\ work'[k].op = "exit" => errors'
  BY <1>2, <1>3, <1>4
<1>6. \A t \in TypeInfos' : infos'[t].defined = IF IsGenerated(t)' THEN "NOT_DEFINED" ELSE "DEFINED"
  BY DEF IsGenerated, IsStruct, IsArray
<1>7. ~Late' BY <1>3 DEF Late
<1> QED BY <1>3, <1>5, <1>6, <1>7 DEF HeaderInv, Fresh

LEMMA FreshTypes ==
    ASSUME Fresh
    PROVE  \A t \in TypeInfos :
              /\ ~infos[t].named
              /\ infos[t].defined = IF infos[t].schema.is \in {"object", "array"}
                                    THEN "NOT_DEFINED" ELSE "DEFINED"
BY DEF Fresh, IsGenerated, IsStruct, IsArray

\* The call that is made is the first.
LEMMA HeadWhole ==
    ASSUME CompilerInv, NEW op, Do(op)
    PROVE  \E h \in Tasks : /\ First(h) /\ h.op = op /\ TaskWhole(h)
                            /\ h = Head(work) /\ h \in ToSet(work)
<1>1. work \in Seq(Tasks) /\ work # <<>> /\ Head(work) = work[1] /\ Head(work).op = op
  BY DEF CompilerInv, Typed, Do
<1>2. 1 \in DOMAIN work BY <1>1
<1>3. work[1] \in ToSet(work) /\ work[1] \in Tasks BY <1>1, <1>2 DEF ToSet
<1>4. TaskWhole(work[1]) BY <1>3 DEF CompilerInv, TasksWhole
<1> QED BY <1>1, <1>3, <1>4 DEF First

LEMMA OneTask ==
    ASSUME NEW op \in Ops, NEW arg \in Nat \cup Slots \cup Calls \cup Parts
    PROVE  /\ Task(op, arg) \in Seq(Tasks) /\ Task(op, arg) # <<>>
           /\ Len(Task(op, arg)) = 1 /\ DOMAIN Task(op, arg) = {1}
           /\ Task(op, arg)[1] = [op |-> op, arg |-> arg]
           /\ \A x \in ToSet(Task(op, arg)) : x = [op |-> op, arg |-> arg]
<1>1. [op |-> op, arg |-> arg] \in Tasks BY DEF Tasks
<1> QED BY <1>1 DEF Task, ToSet

Both(x, y) == <<x>> \o <<y>>

LEMMA TwoTasks ==
    ASSUME NEW x \in Tasks, NEW y \in Tasks
    PROVE  /\ Both(x, y) \in Seq(Tasks) /\ Both(x, y) # <<>> /\ Len(Both(x, y)) = 2
           /\ DOMAIN Both(x, y) = {1, 2}
           /\ Both(x, y)[1] = x /\ Both(x, y)[2] = y
           /\ Both(x, y)[Len(Both(x, y))] = y
           /\ ToSet(Both(x, y)) = {x, y}
<1> DEFINE ts == Both(x, y)
<1>1. /\ <<x>> \in Seq(Tasks) /\ <<y>> \in Seq(Tasks)
      /\ Len(<<x>>) = 1 /\ Len(<<y>>) = 1 /\ <<x>>[1] = x /\ <<y>>[1] = y
  OBVIOUS
<1>2. ts \in Seq(Tasks) /\ Len(ts) = 2 /\ ts[1] = x /\ ts[2] = y BY <1>1 DEF Both
<1>a. Len(<<>>) = 0 OBVIOUS
<1> HIDE DEF ts
<1>3. DOMAIN ts = {1, 2} BY <1>2
<1>4. ToSet(ts) = {x, y} BY <1>2, <1>3 DEF ToSet
<1>5. ts # <<>>
  <2>1. ts = <<>> => Len(ts) = Len(<<>>) BY Zenon
  <2> QED BY <2>1, <1>2, <1>a, 2 # 0, Zenon
<1> QED BY <1>2, <1>3, <1>4, <1>5 DEF ts

LEMMA NoNameOther == NoName # Main
<1>1. Len(<<"main">>) = 1 OBVIOUS
<1>2. Len(NoName) = 0 BY DEF NoName
<1> QED BY <1>1, <1>2 DEF Main

LEMMA NoTask == <<>> \in Seq(Tasks) /\ ToSet(<<>>) = {} /\ DOMAIN <<>> = {}
BY DEF ToSet

LEMMA InfoTyped ==
    ASSUME Typed, TypesWhole, NEW t \in TypeInfos
    PROVE  /\ t \in Nat /\ t >= 1 /\ t \in DOMAIN infos /\ infos[t] \in TypeRecords
           /\ infos[t].schema \in AllSchemas /\ infos[t].base_name \in Names
           /\ infos[t].links \in Seq(Nat) /\ Len(infos[t].links) \in Nat
           /\ DOMAIN infos[t].links = 1 .. Len(infos[t].links)
           /\ Len(infos[t].links) = Len(Subschemas(infos[t].schema))
           /\ \A i \in DOMAIN infos[t].links : /\ infos[t].links[i] \in 0 .. Len(infos)
                                              /\ Part(t, i) \in Parts
           /\ IsStruct(t) => Len(infos[t].links) >= 1
           /\ IsArray(t) => Len(infos[t].links) = 1
<1>1. infos \in Seq(TypeRecords) /\ t \in 1 .. Len(infos) /\ Len(infos) \in Nat
  BY DEF Typed, TypeInfos
<1>2. infos[t] \in TypeRecords /\ t \in DOMAIN infos BY <1>1
<1>3. /\ infos[t].schema \in AllSchemas /\ infos[t].base_name \in Names
      /\ infos[t].links \in Seq(Nat)
  BY <1>2 DEF TypeRecords
<1>4. Len(infos[t].links) = Len(Subschemas(infos[t].schema)) BY DEF TypesWhole
<1>5. Subschemas(infos[t].schema) \in Seq(Parts) BY <1>3, SubschemasTyped
<1>6. \A i \in DOMAIN infos[t].links : Part(t, i) \in Parts BY <1>3, <1>4, <1>5 DEF Part
<1>7. ASSUME IsStruct(t) PROVE Len(infos[t].links) >= 1
  <2>1. infos[t].schema.is = "object" BY <1>7 DEF IsStruct
  <2>2. infos[t].schema.members \in Seq(Schemas) BY <1>3, <2>1, SchemaShapes
  <2>3. Len(infos[t].links) = Len(infos[t].schema.members) + 1
    BY <1>3, <1>4, <2>1, SubschemasTyped
  <2>4. Len(infos[t].schema.members) \in Nat BY <2>2
  <2> QED BY <2>3, <2>4
<1>8. IsArray(t) => Len(infos[t].links) = 1
  BY <1>3, <1>4, SubschemasTyped DEF IsArray
<1>9. \A i \in DOMAIN infos[t].links : infos[t].links[i] \in 0 .. Len(infos)
  BY DEF TypesWhole
<1>10. DOMAIN infos[t].links = 1 .. Len(infos[t].links) /\ Len(infos[t].links) \in Nat
  BY <1>3
<1> QED BY <1>1, <1>2, <1>3, <1>4, <1>6, <1>7, <1>8, <1>9, <1>10

\* Nothing is said of definitions once the calls for them are made.
LEMMA DefsKept ==
    ASSUME CompilerInv, Keeps, NEW h, First(h), h.op \in Filling,
           NEW ts \in Seq(Tasks), work' = ts \o Tail(work),
           \A x \in ToSet(ts) : x.op \in Filling,
           defs' = defs, exit' = exit
    PROVE  DefsWhole'
<1>1. work \in Seq(Tasks) /\ work # <<>> /\ work[1] = h /\ Typed /\ Ordered /\ DefsWhole
  BY DEF CompilerInv, Typed, First
<1>2. work' \in Seq(Tasks) /\ ToSet(work') \subseteq ToSet(work) \cup ToSet(ts)
  BY <1>1, Neighbours
<1>3. \A k \in DOMAIN work : work[k].op \notin Allocating
  BY <1>1, InOrder
<1>4. \A x \in ToSet(work') : x.op \notin Allocating
  <2>1. \A x \in ToSet(work) : x.op \notin Allocating BY <1>3 DEF ToSet
  <2>2. Allocating \cap Filling = {} BY DEF Allocating, Filling
  <2> QED BY <1>2, <2>1, <2>2
<1>5. \A k \in DOMAIN work' : work'[k].op \notin Allocating BY <1>4 DEF ToSet
<1>6. work' # <<>> => 1 \in DOMAIN work' BY <1>2
<1>7. ASSUME NEW d \in DOMAIN defs PROVE DefWhole(d)'
  <2>1. DOMAIN defs' = 1 .. Len(defs) BY <1>1 DEF Typed
  <2>2. h.op \notin {"alloc", "resolved"} BY DEF Filling
  <2>3. \A op, arg : op \in {"alloc", "resolved"} /\ Due(op, arg) => Due(op, arg)'
    BY <1>1, <2>2, DueStays
  <2>4. DefWhole(d) BY <1>1 DEF DefsWhole
  <2> QED BY <1>1, <2>1, <2>3, <2>4, DefStays
<1> QED BY <1>5, <1>6, <1>7 DEF DefsWhole, Allocating

\* Calls that fill in types, and change neither types nor definitions.
LEMMA QuietStep ==
    ASSUME CompilerInv, NEW h, First(h), NEW ts \in Seq(Tasks),
           work' = ts \o Tail(work),
           NEW Phase \in {Allocating, Filling}, h.op \in Phase,
           \A x \in ToSet(ts) : x.op \in Phase /\ TaskWhole(x),
           UNCHANGED <<doc, exit, defs, infos, header, macros, files>>,
           ret' \in 0 .. Len(infos), errors' \in BOOLEAN, errors => errors',
           Returned', DefsWhole' \/ Phase = Filling,
           \A t \in TypeInfos : \A i \in DOMAIN infos[t].links :
              Part(t, i) # None /\ Pending(t, i) => errors' \/ Pending(t, i)'
    PROVE  CompilerInv'
<1>1. /\ Typed /\ TypesWhole /\ Ordered /\ TasksWhole /\ DefsWhole /\ LinksWhole
      /\ work \in Seq(Tasks) /\ work # <<>> /\ work[1] = h
  BY DEF CompilerInv, Typed, First
<1>2. Keeps BY DEF Keeps, TypeInfos, Settled
<1>3. work' \in Seq(Tasks) BY <1>1, Neighbours
<1>4. Typed' BY <1>1, <1>3 DEF Typed
<1>5. TypesWhole' BY <1>1 DEF TypesWhole, TypeInfos
<1>6. Ordered' BY <1>1, OrderKept DEF ToSet
<1>7. \A x \in ToSet(ts) : TaskWhole(x)' /\ x.op \notin Opening
  BY <1>2, TaskStays DEF Opening, Allocating, Filling
<1>8. TasksWhole'
  <2>1. h.op \in Allocating \cup Filling \cup Defining OBVIOUS
  <2> QED BY <1>1, <1>2, <1>7, <2>1, TasksKept
<1>9. DefsWhole' BY <1>2, DefsKept
<1>10. h.op \notin Defining \cup {"exit"} BY DEF Allocating, Filling, Defining
<1>11. files = {} /\ exit = "running" /\ Fresh BY <1>10, Early
<1>12. LinksWhole'
  <2> SUFFICES ASSUME NEW t \in TypeInfos, NEW i \in DOMAIN infos[t].links
               PROVE  LinkWhole(t, i)'
    BY DEF LinksWhole, TypeInfos
  <2>1. LinkWhole(t, i) BY <1>1 DEF LinksWhole
  <2>2. CASE Part(t, i) = None
    <3>1. Part(t, i)' = None BY <2>2 DEF Part
    <3>2. ASSUME infos[t].links[i] # NULL PROVE Fits(Part(t, i), infos[t].links[i])'
      <4>1. PICK s, u : s = Part(t, i) /\ u = infos[t].links[i] OBVIOUS
      <4>2. Fits(s, u)' BY <1>2, <2>1, <3>2, <4>1, FitsStays DEF LinkWhole
      <4> QED BY <3>1, <2>2, <4>1, <4>2 DEF Fits
    <3> QED BY <3>1, <3>2 DEF LinkWhole
  <2>3. CASE Part(t, i) # None
    BY <1>2, <1>11, <2>1, <2>3, LinkStays
  <2> QED BY <2>2, <2>3
<1>13. HeaderInv'
  <2>1. \A x \in ToSet(ts) : x.op \notin Defining \cup {"exit"}
    BY DEF Allocating, Filling, Defining
  <2>2. \A t \in TypeInfos' :
              /\ ~infos'[t].named
              /\ infos'[t].defined = IF infos'[t].schema.is \in {"object", "array"}
                                     THEN "NOT_DEFINED" ELSE "DEFINED"
    BY <1>11, FreshTypes DEF TypeInfos
  <2> QED BY <1>10, <2>1, <2>2, FreshStays
<1> QED BY <1>4, <1>5, <1>6, <1>8, <1>9, <1>12, <1>13 DEF CompilerInv

\* struct_fill has a call for each link, but that of extras where it is not
\* given.
LEMMA StructFillWhole ==
    ASSUME Typed, TypesWhole, NEW t \in TypeInfos, IsStruct(t)
    PROVE  /\ StructFill(t) \in Seq(Tasks)
           /\ \A x \in ToSet(StructFill(t)) :
                 \E i \in DOMAIN infos[t].links : x = [op |-> "link", arg |-> Slot(t, i)]
           /\ \A i \in DOMAIN infos[t].links : Part(t, i) # None =>
                 [op |-> "link", arg |-> Slot(t, i)] \in ToSet(StructFill(t))
<1> DEFINE n == Len(infos[t].links)
           Link(i) == [op |-> "link", arg |-> Slot(t, i)]
           members == TaskFor("link", [i \in DOMAIN MemberTypes(t) |-> Slot(t, i + 1)])
           extras == IF infos[t].schema.extras = None THEN <<>>
                     ELSE Task("link", Slot(t, 1))
<1>1. /\ infos[t].schema \in AllSchemas /\ infos[t].schema.is = "object"
      /\ infos[t].links \in Seq(Nat) /\ t \in Nat
  BY InfoTyped DEF IsStruct
<1>2. n = Len(Subschemas(infos[t].schema)) /\ n \in Nat BY InfoTyped
<1>3. n >= 1 /\ Part(t, 1) = infos[t].schema.extras
  BY <1>1, InfoTyped, SubschemasTyped DEF Part
<1>4. DOMAIN infos[t].links = 1 .. n BY <1>1
<1>5. \A i \in 1 .. n : Link(i) \in Tasks BY <1>1 DEF Tasks, Slots, Slot, Ops, Filling
<1>6. MemberTypes(t) \in Seq(Nat) /\ DOMAIN MemberTypes(t) = 1 .. n - 1
  <2>1. infos[t].links # <<>> BY <1>3, <1>1
  <2> QED BY <1>1, <2>1 DEF MemberTypes
<1>7. members = [i \in 1 .. n - 1 |-> Link(i + 1)] BY <1>6 DEF TaskFor
<1>8. \A i \in 1 .. n - 1 : i + 1 \in 1 .. n BY <1>2
<1>9. members \in Seq(Tasks) /\ DOMAIN members = 1 .. n - 1 /\ Len(members) = n - 1
  BY <1>2, <1>3, <1>5, <1>7, <1>8
<1>10. extras \in Seq(Tasks) /\ \A x \in ToSet(extras) : x = Link(1)
  <2>1. CASE infos[t].schema.extras = None
    <3>1. extras = <<>> BY <2>1
    <3> HIDE DEF extras
    <3> QED BY <3>1, NoTask
  <2>2. CASE infos[t].schema.extras # None
    <3>1. Slot(t, 1) \in Slots BY <1>1 DEF Slots, Slot
    <3>2. extras = Task("link", Slot(t, 1)) BY <2>2
    <3>3. "link" \in Ops /\ Slot(t, 1) \in Nat \cup Slots \cup Calls \cup Parts
      BY <3>1 DEF Ops, Filling
    <3> HIDE DEF extras
    <3> QED BY <3>2, <3>3, OneTask
  <2> QED BY <2>1, <2>2
<1>11. infos[t].schema.extras # None => Link(1) \in ToSet(extras)
  <2>1. Slot(t, 1) \in Slots BY <1>1 DEF Slots, Slot
  <2>2. "link" \in Ops /\ Slot(t, 1) \in Nat \cup Slots \cup Calls \cup Parts
    BY <2>1 DEF Ops, Filling
  <2>3. Task("link", Slot(t, 1))[1] = Link(1) /\ 1 \in DOMAIN Task("link", Slot(t, 1))
    BY <2>2, OneTask, Zenon
  <2> QED BY <2>3 DEF ToSet
<1>12. StructFill(t) = members \o extras BY DEF StructFill
<1> HIDE DEF members, extras, n
<1>13. ToSet(members \o extras) = ToSet(members) \cup ToSet(extras)
  <2>1. /\ members \o extras \in Seq(Tasks)
        /\ Len(members \o extras) = Len(members) + Len(extras)
        /\ Len(members) \in Nat /\ Len(extras) \in Nat
        /\ DOMAIN members = 1 .. Len(members) /\ DOMAIN extras = 1 .. Len(extras)
        /\ DOMAIN (members \o extras) = 1 .. Len(members) + Len(extras)
        /\ \A k \in 1 .. Len(members) + Len(extras) : (members \o extras)[k] =
              IF k <= Len(members) THEN members[k] ELSE extras[k - Len(members)]
    BY <1>9, <1>10
  <2>2. ASSUME NEW k \in DOMAIN (members \o extras)
        PROVE  (members \o extras)[k] \in ToSet(members) \cup ToSet(extras)
    <3>1. k <= Len(members) => k \in DOMAIN members BY <2>1
    <3>2. ~(k <= Len(members)) => k - Len(members) \in DOMAIN extras BY <2>1
    <3> QED BY <2>1, <3>1, <3>2 DEF ToSet
  <2>3. ASSUME NEW k \in DOMAIN members
        PROVE  k \in DOMAIN (members \o extras) /\ (members \o extras)[k] = members[k]
    BY <2>1
  <2>4. ASSUME NEW k \in DOMAIN extras
        PROVE  /\ k + Len(members) \in DOMAIN (members \o extras)
               /\ (members \o extras)[k + Len(members)] = extras[k]
    <3>1. k \in Nat /\ k >= 1 /\ k <= Len(extras) BY <2>1
    <3>2. /\ k + Len(members) \in 1 .. Len(members) + Len(extras)
          /\ ~(k + Len(members) <= Len(members)) /\ k + Len(members) - Len(members) = k
      BY <2>1, <3>1
    <3> QED BY <2>1, <3>2
  <2> QED BY <2>2, <2>3, <2>4, SMTT(60) DEF ToSet
<1>14. ASSUME NEW x \in ToSet(members) PROVE \E i \in 1 .. n : x = Link(i)
  <2>1. PICK k \in 1 .. n - 1 : x = members[k] BY <1>9 DEF ToSet
  <2>2. x = Link(k + 1) BY <1>7, <2>1
  <2> QED BY <1>8, <2>2
<1>15. ASSUME NEW i \in 1 .. n, i > 1 PROVE Link(i) \in ToSet(members)
  <2>1. i - 1 \in 1 .. n - 1 /\ i - 1 + 1 = i BY <1>2, <1>15
  <2>2. members[i - 1] = Link(i) BY <1>7, <2>1
  <2> QED BY <1>9, <2>1, <2>2 DEF ToSet
<1>16. members \o extras \in Seq(Tasks) BY <1>9, <1>10
<1>17. \A i \in 1 .. n : i > 1 \/ i = 1 BY <1>2
<1>18. 1 \in 1 .. n BY <1>2, <1>3
<1>19. \A x \in ToSet(StructFill(t)) : \E i \in 1 .. n : x = Link(i)
  BY <1>10, <1>12, <1>13, <1>14, <1>18
<1>20. \A i \in 1 .. n : Part(t, i) # None => Link(i) \in ToSet(StructFill(t))
  BY <1>3, <1>11, <1>12, <1>13, <1>15, <1>17
<1> QED BY <1>4, <1>12, <1>16, <1>19, <1>20 DEF n

LEMMA NothingPut ==
    ASSUME work \in Seq(Tasks), work # <<>>, work' = <<>> \o Tail(work)
    PROVE  work' = Tail(work)
<1>1. Tail(work) \in Seq(Tasks) OBVIOUS
<1> QED BY <1>1

\* The same, of a call that makes no others.
LEMMA QuietReturn ==
    ASSUME CompilerInv, NEW h, First(h), work' = <<>> \o Tail(work),
           NEW Phase \in {Allocating, Filling}, h.op \in Phase,
           UNCHANGED <<doc, exit, defs, infos, header, macros, files>>,
           ret' \in 0 .. Len(infos), errors' \in BOOLEAN, errors => errors',
           \A s : Gives(h, s) => Fits(s, ret)',
           Gives(h, doc.main) /\ GivesMain(h) => IsMainType(ret)',
           DefsWhole' \/ Phase = Filling,
           \A t \in TypeInfos : \A i \in DOMAIN infos[t].links :
              Part(t, i) # None /\ Pending(t, i) => errors' \/ Pending(t, i)'
    PROVE  CompilerInv'
<1>1. PICK ts : ts = <<>> OBVIOUS
<1>2. ts \in Seq(Tasks) /\ ToSet(ts) = {} BY <1>1, NoTask
<1>3. work' = ts \o Tail(work) BY <1>1
<1>4. work \in Seq(Tasks) /\ work # <<>> /\ Typed /\ TasksWhole /\ Returned
  BY DEF CompilerInv, Typed, First
<1>5. Keeps BY DEF Keeps, TypeInfos, Settled
<1>6. Returned' BY <1>4, <1>5, NothingPut, ReturnedNow
<1> QED BY <1>2, <1>3, <1>6, QuietStep

-----------------------------------------------------------------------------
(***************************************************************************)
(* The calls that fill in the types.                                       *)
(***************************************************************************)

LEMMA ReturnStep == ASSUME CompilerInv, Return PROVE CompilerInv'
<1>1. PICK h \in Tasks : First(h) /\ h.op = "return" /\ TaskWhole(h) /\ h = Head(work)
  BY HeadWhole DEF Return
<1>2. /\ work' = <<>> \o Tail(work) /\ ret' = h.arg
      /\ UNCHANGED <<doc, exit, defs, infos, header, macros, files, errors>>
  BY <1>1 DEF Return, Returns, Then, KeepsTypes, KeepsOutput, NoError, Arg
<1>3. h.arg \in TypeInfos BY <1>1 DEF TaskWhole
<1>4. Typed /\ Len(infos) \in Nat BY DEF CompilerInv, Typed
<1>5. ret' \in 0 .. Len(infos) /\ errors' \in BOOLEAN
  BY <1>2, <1>3, <1>4 DEF TypeInfos, Typed
<1>6. ASSUME NEW s, Gives(h, s) PROVE Fits(s, ret)'
  BY <1>1, <1>2, <1>6 DEF Gives, Fits, Settled, TypeInfos
<1>7. ASSUME GivesMain(h) PROVE IsMainType(ret)'
  BY <1>1, <1>2, <1>7 DEF GivesMain, IsMainType, IsMain
<1>8. ASSUME NEW t \in TypeInfos, NEW i \in DOMAIN infos[t].links, Pending(t, i)
      PROVE  Pending(t, i)'
  <2>1. Keeps BY <1>2 DEF Keeps, TypeInfos, Settled
  <2>2. PICK ts : ts = <<>> OBVIOUS
  <2>3. ts \in Seq(Tasks) /\ work' = ts \o Tail(work) BY <1>2, <2>2, NoTask
  <2>4. h.op \notin {"fill", "link", "store", "fill_definition"} BY <1>1
  <2> QED BY <1>1, <1>4, <1>8, <2>1, <2>3, <2>4, PendingStays
<1>9. h.op \in Filling BY <1>1 DEF Filling
<1> QED BY <1>1, <1>2, <1>5, <1>6, <1>7, <1>8, <1>9, QuietReturn

LEMMA PendingPast ==
    ASSUME Typed, Keeps, NEW h, First(h), work' = <<>> \o Tail(work),
           h.op \notin {"fill", "link", "store", "fill_definition"},
           NEW t, NEW i, Pending(t, i)
    PROVE  Pending(t, i)'
<1>1. PICK ts : ts = <<>> OBVIOUS
<1>2. ts \in Seq(Tasks) /\ work' = ts \o Tail(work) BY <1>1, NoTask
<1> QED BY <1>2, PendingStays

\* The type of a definition that is not to be allocated any more fits the
\* references to it.
LEMMA TypeOfDef ==
    ASSUME Typed, DefsWhole, NEW d \in DOMAIN defs,
           defs[d].state \notin {"DEF_SCHEMA", "DEF_REF", "DEF_RESOLVING"}
    PROVE  /\ defs[d].type \in 0 .. Len(infos)
           /\ \A s : s.is = "ref" /\ s.to = d => Fits(s, defs[d].type)
           /\ d \in Settled /\ defs[d].type # NULL => defs[d].type \in TypeInfos
           /\ d \notin Settled => defs[d].type = NULL /\ errors
<1>1. defs[d] \in DefRecords /\ Len(infos) \in Nat BY DEF Typed
<1>2. defs[d].state \in {"DEF_SCHEMA_TYPE", "DEF_TYPE", "DEF_ERROR"}
  BY <1>1 DEF DefRecords, DefStates
<1>3. DefWhole(d) BY DEF DefsWhole
<1>4. CASE d \in Settled
  <2>1. Fits(doc.defs[d], defs[d].type) BY <1>3, <1>4 DEF DefWhole
  <2>2. \/ defs[d].type = NULL /\ errors
        \/ defs[d].type \in TypeInfos
    BY <2>1 DEF Fits
  <2> QED BY <1>1, <1>4, <2>2 DEF Fits, TypeInfos, NULL
<1>5. CASE d \notin Settled
  <2>1. defs[d].type = NULL BY <1>3, <1>5 DEF DefWhole
  <2>2. errors BY <1>2, <1>3, <1>5 DEF DefWhole, Settled
  <2> QED BY <1>1, <1>5, <2>1, <2>2 DEF Fits, NULL
<1> QED BY <1>4, <1>5

\* No definition has still to be allocated when types are filled in.
LEMMA AllAllocated ==
    ASSUME CompilerInv, NEW h, First(h), h.op \notin Opening \cup Allocating \cup {"exit"},
           NEW d \in DOMAIN defs
    PROVE  defs[d].state \notin {"DEF_SCHEMA", "DEF_REF", "DEF_RESOLVING"}
<1>1. work \in Seq(Tasks) /\ work # <<>> /\ work[1] = h /\ 1 \in DOMAIN work
      /\ Typed /\ Ordered
  BY DEF CompilerInv, Typed, First
<1>2. h.op \in Ops BY <1>1 DEF Ordered
<1>3. \A k \in DOMAIN work : work[k].op \notin Allocating
  <2> SUFFICES ASSUME NEW k \in DOMAIN work PROVE work[k].op \notin Allocating
    OBVIOUS
  <2>1. CASE h.op \in Filling BY <1>1, <2>1, InOrder
  <2>2. CASE h.op = "codegen"
    <3>1. Len(work) = 1 BY <1>1, <2>2, InOrder
    <3>2. k = 1 BY <1>1, <3>1
    <3> QED BY <1>1, <2>2, <3>2 DEF Allocating
  <2>3. CASE h.op \in Defining
    <3>1. work[k].op \in Defining \cup {"exit"} BY <1>1, <2>3, InOrder
    <3> QED BY <3>1 DEF Defining, Allocating
  <2> QED BY <1>2, <2>1, <2>2, <2>3 DEF Ops
<1>4. exit = "running" BY <1>1 DEF CompilerInv, TasksWhole
<1>5. DefWhole(d) BY DEF CompilerInv, DefsWhole
<1> QED BY <1>3, <1>4, <1>5 DEF DefWhole, Due, Allocating

LEMMA ResolveRefStep == ASSUME CompilerInv, ResolveRef PROVE CompilerInv'
<1>1. PICK h \in Tasks : First(h) /\ h.op = "resolve" /\ TaskWhole(h) /\ h = Head(work)
  BY HeadWhole DEF ResolveRef
<1>2. /\ work' = <<>> \o Tail(work)
      /\ UNCHANGED <<doc, exit, defs, infos, header, macros, files>>
      /\ h.arg.schema.is = "ref"
  BY <1>1 DEF ResolveRef, Returns, Then, KeepsTypes, KeepsOutput, Arg
<1>3. \/ /\ h.arg.schema.to \in DOMAIN defs
         /\ ret' = defs[h.arg.schema.to].type /\ errors' = errors
      \/ ret' = NULL /\ errors' = TRUE
  BY <1>1 DEF ResolveRef, Returns, NoError, Error, Arg
<1>4. Typed /\ DefsWhole /\ Len(infos) \in Nat BY DEF CompilerInv, Typed
<1>5. Keeps BY <1>2, <1>3 DEF Keeps, TypeInfos, Settled
<1>6. h.op \in Filling /\ h.op \notin Opening \cup Allocating \cup {"exit"}
  BY <1>1 DEF Filling, Opening, Allocating
<1>7. ret' \in 0 .. Len(infos) /\ Fits(h.arg.schema, ret)' /\ errors' \in BOOLEAN
  <2>1. CASE /\ h.arg.schema.to \in DOMAIN defs
             /\ ret' = defs[h.arg.schema.to].type /\ errors' = errors
    <3>1. PICK d \in DOMAIN defs : d = h.arg.schema.to BY <2>1
    <3>2. defs[d].state \notin {"DEF_SCHEMA", "DEF_REF", "DEF_RESOLVING"}
      BY <1>1, <1>6, AllAllocated
    <3>3. defs[d].type \in 0 .. Len(infos) /\ Fits(h.arg.schema, defs[d].type)
      BY <1>2, <1>4, <3>1, <3>2, TypeOfDef
    <3> QED BY <1>2, <1>4, <2>1, <3>1, <3>3 DEF Fits, Settled, TypeInfos, Typed
  <2>2. CASE ret' = NULL /\ errors' = TRUE
    BY <1>4, <2>2 DEF Fits, NULL
  <2> QED BY <1>3, <2>1, <2>2
<1>8. ASSUME NEW s, Gives(h, s) PROVE Fits(s, ret)'
  <2>1. s = h.arg.schema BY <1>1, <1>8 DEF Gives
  <2> QED BY <2>1, <1>7
<1>9. ASSUME Gives(h, doc.main) PROVE IsMainType(ret)'
  <2>1. doc'.main.is = "ref" BY <1>1, <1>2, <1>9 DEF Gives
  <2> QED BY <2>1 DEF IsMainType
<1>10. \A t, i : Pending(t, i) => Pending(t, i)'
  BY <1>1, <1>2, <1>4, <1>5, PendingPast
<1> QED BY <1>1, <1>2, <1>3, <1>6, <1>7, <1>8, <1>9, <1>10, QuietReturn

LEMMA ResolveBadRefStep == ASSUME CompilerInv, ResolveBadRef PROVE CompilerInv'
<1>1. PICK h \in Tasks : First(h) /\ h.op = "resolve" /\ TaskWhole(h) /\ h = Head(work)
  BY HeadWhole DEF ResolveBadRef
<1>2. /\ work' = <<>> \o Tail(work) /\ ret' = NULL /\ errors' = TRUE
      /\ UNCHANGED <<doc, exit, defs, infos, header, macros, files>>
      /\ h.arg.schema.is = "badref"
  BY <1>1 DEF ResolveBadRef, Returns, Then, KeepsTypes, KeepsOutput, Error, Arg
<1>3. Typed /\ Len(infos) \in Nat BY DEF CompilerInv, Typed
<1>4. Keeps BY <1>2 DEF Keeps, TypeInfos, Settled
<1>5. h.op \in Filling BY <1>1 DEF Filling
<1>6. \A s : Fits(s, ret)' BY <1>2 DEF Fits
<1>7. IsMainType(ret)' BY <1>2 DEF IsMainType
<1>8. \A t, i : Pending(t, i) => Pending(t, i)'
  BY <1>1, <1>2, <1>3, <1>4, PendingPast
<1>9. ret' \in 0 .. Len(infos) BY <1>2, <1>3 DEF NULL
<1> QED BY <1>1, <1>2, <1>5, <1>6, <1>7, <1>8, <1>9, QuietReturn

LEMMA ResolveArrayStep == ASSUME CompilerInv, ResolveArray PROVE CompilerInv'
<1>1. PICK h \in Tasks : First(h) /\ h.op = "resolve" /\ TaskWhole(h) /\ h = Head(work)
  BY HeadWhole DEF ResolveArray
<1>2. PICK s : s = h.arg.schema OBVIOUS
<1>3. /\ work' = (Resolving(s.items, NoName) \o Task("array", s)) \o Tail(work)
      /\ UNCHANGED <<doc, exit, defs, infos, ret, errors, header, macros, files>>
      /\ s.is = "array" /\ h.arg.name = NoName
  BY <1>1, <1>2 DEF ResolveArray, Then, KeepsTypes, KeepsOutput, NoError, Arg
<1>4. h.arg \in Calls BY <1>1 DEF TaskWhole
<1>5. s \in AllSchemas /\ s.items \in Parts
  <2>1. s \in Parts BY <1>2, <1>4 DEF Calls
  <2>2. s \in AllSchemas BY <1>3, <2>1 DEF Parts, None
  <2> QED BY <1>3, <2>2, SchemaShapes
<1>a. PICK x : x = [op |-> "resolve", arg |-> [schema |-> s.items, name |-> NoName]]
  OBVIOUS
<1>b. PICK y : y = [op |-> "array", arg |-> s] OBVIOUS
<1>6. x.arg \in Calls /\ x.op = "resolve" /\ x.arg.schema = s.items
  BY <1>5, <1>a DEF Calls
<1>7. x \in Tasks /\ y \in Tasks
  BY <1>5, <1>6, <1>a, <1>b DEF Tasks, Ops, Filling, Parts
<1>8. PICK ts : ts = Both(x, y) OBVIOUS
<1>9. /\ ts \in Seq(Tasks) /\ ts # <<>> /\ DOMAIN ts = {1, 2}
      /\ ts[1] = x /\ ts[2] = y /\ ts[Len(ts)] = y /\ ToSet(ts) = {x, y}
  <2>1. ts = Both(x, y) /\ x \in Tasks /\ y \in Tasks BY <1>7, <1>8
  <2> QED BY <2>1, TwoTasks, ZenonT(60)
<1>10. work' = ts \o Tail(work) BY <1>3, <1>8, <1>a, <1>b DEF Resolving, Task, Both
<1>11. y.op = "array" /\ y.arg = s BY <1>b
<1>12. TaskWhole(x) /\ TaskWhole(y)
  BY <1>3, <1>5, <1>6, <1>11 DEF TaskWhole, Allocating
<1>13. x.op \in Filling /\ y.op \in Filling /\ h.op \in Filling /\ x.op \notin Awaits
  BY <1>1, <1>6, <1>11 DEF Filling, Awaits
<1>14. Typed /\ TasksWhole /\ Returned BY DEF CompilerInv
<1>15. Keeps BY <1>3 DEF Keeps, TypeInfos, Settled
<1>16. Follows(x, y)'
  <2>1. Gives(x, Awaited(y))' BY <1>6, <1>11 DEF Gives, Awaited
  <2> QED BY <2>1, <1>11 DEF Follows
<1>17. \A part : Gives(h, part) => Gives(y, part)'
  BY <1>1, <1>2, <1>11 DEF Gives
<1>18. ~GivesMain(h) BY <1>1, <1>3, NoNameOther DEF GivesMain
<1>19. Returned'
  <2>1. \A k \in DOMAIN ts : k > 1 => Follows(ts[k - 1], ts[k])'
    BY <1>9, <1>16
  <2> QED BY <1>1, <1>9, <1>10, <1>13, <1>14, <1>15, <1>17, <1>18, <2>1, ReturnedLater
<1>20. \A t, i : Pending(t, i) => Pending(t, i)'
  BY <1>1, <1>9, <1>10, <1>14, <1>15, PendingStays
<1>21. ret' \in 0 .. Len(infos) /\ errors' \in BOOLEAN BY <1>3, <1>14 DEF Typed
<1> QED BY <1>1, <1>3, <1>9, <1>10, <1>12, <1>13, <1>19, <1>20, <1>21, QuietStep

\* A call that fills a link follows any call, and any call follows it that
\* relies on none.
LEMMA LinksReturned ==
    ASSUME Typed, TasksWhole, Returned, Keeps, NEW h, First(h),
           h.op \notin {"resolve", "array", "return", "alloc", "resolved"},
           NEW ts \in Seq(Tasks), work' = ts \o Tail(work),
           \A x \in ToSet(ts) : x.op \in {"fill", "link"}
    PROVE  Returned'
<1>1. \A s : ~Gives(h, s) BY DEF Gives
<1>2. CASE ts # <<>>
  <2>1. 1 \in DOMAIN ts /\ \A k \in DOMAIN ts : ts[k] \in ToSet(ts) BY <1>2 DEF ToSet
  <2>2. \A k \in DOMAIN ts : ts[k].op \notin Awaits /\ ts[k].op # "codegen"
    BY <2>1 DEF Awaits
  <2>3. \A k \in DOMAIN ts : k > 1 => Follows(ts[k - 1], ts[k])'
    BY <2>2 DEF Follows
  <2> QED BY <1>1, <1>2, <2>1, <2>2, <2>3, ReturnedLater
<1>3. CASE ts = <<>>
  <2>1. work \in Seq(Tasks) /\ work # <<>> BY DEF Typed, First
  <2>2. work' = Tail(work) BY <1>3, <2>1, NothingPut
  <2> QED BY <1>1, <2>2, ReturnedNow
<1> QED BY <1>2, <1>3

LEMMA FillStep == ASSUME CompilerInv, Fill PROVE CompilerInv'
<1>1. PICK h \in Tasks : First(h) /\ h.op = "fill" /\ TaskWhole(h) /\ h = Head(work)
  BY HeadWhole DEF Fill
<1>2. PICK t \in TypeInfos : t = h.arg BY <1>1 DEF TaskWhole
<1>3. UNCHANGED <<doc, exit, defs, infos, ret, errors, header, macros, files>>
  BY DEF Fill, Then, KeepsTypes, KeepsOutput, NoError
<1>4. PICK ts : /\ work' = ts \o Tail(work)
                /\ \/ IsStruct(t) /\ ts = StructFill(t)
                   \/ IsArray(t) /\ ts = Task("link", Slot(t, 1))
                   \/ ~IsStruct(t) /\ ~IsArray(t) /\ ts = <<>>
  BY <1>1, <1>2 DEF Fill, Then, Arg
<1>5. Typed /\ TypesWhole /\ TasksWhole /\ Returned /\ work \in Seq(Tasks) /\ work # <<>>
  BY <1>1 DEF CompilerInv, Typed, First
<1>6. /\ ts \in Seq(Tasks)
      /\ \A x \in ToSet(ts) : \E i \in DOMAIN infos[t].links :
            x = [op |-> "link", arg |-> Slot(t, i)]
      /\ \A i \in DOMAIN infos[t].links : Part(t, i) # None =>
            [op |-> "link", arg |-> Slot(t, i)] \in ToSet(ts)
  <2>1. CASE IsStruct(t) /\ ts = StructFill(t) BY <1>5, <2>1, StructFillWhole
  <2>2. CASE IsArray(t) /\ ts = Task("link", Slot(t, 1))
    <3>1. Len(infos[t].links) = 1 /\ DOMAIN infos[t].links = 1 .. 1 /\ t \in Nat
      BY <1>5, <2>2, InfoTyped
    <3>2. Slot(t, 1) \in Slots /\ "link" \in Ops BY <3>1 DEF Slots, Slot, Ops, Filling
    <3>3. /\ ts \in Seq(Tasks) /\ DOMAIN ts = {1}
          /\ ts[1] = [op |-> "link", arg |-> Slot(t, 1)]
          /\ \A x \in ToSet(ts) : x = [op |-> "link", arg |-> Slot(t, 1)]
      BY <2>2, <3>2, OneTask, Zenon
    <3>4. [op |-> "link", arg |-> Slot(t, 1)] \in ToSet(ts)
      BY <3>3 DEF ToSet
    <3>5. DOMAIN infos[t].links = {1} BY <3>1
    <3> QED BY <3>3, <3>4, <3>5
  <2>3. CASE ~IsStruct(t) /\ ~IsArray(t) /\ ts = <<>>
    <3>1. infos[t].schema \in AllSchemas /\ Len(infos[t].links) = Len(Subschemas(infos[t].schema))
          /\ DOMAIN infos[t].links = 1 .. Len(infos[t].links)
      BY <1>5, InfoTyped
    <3>2. Subschemas(infos[t].schema) = <<>>
      BY <2>3, <3>1, SubschemasTyped DEF IsStruct, IsArray
    <3>3. DOMAIN infos[t].links = {} BY <3>1, <3>2
    <3> QED BY <2>3, <3>3, NoTask
  <2> QED BY <1>4, <2>1, <2>2, <2>3
<1>7. \A x \in ToSet(ts) : /\ x.op = "link" /\ x.arg \in Slots /\ x.arg.type = t
                           /\ x.arg.link \in DOMAIN infos[t].links
  BY <1>5, <1>6, InfoTyped, SMTT(60) DEF Slot, Slots
<1>8. \A x \in ToSet(ts) : x.op \in Filling /\ TaskWhole(x)
  BY <1>7 DEF Filling, TaskWhole, Allocating
<1>9. Keeps BY <1>3 DEF Keeps, TypeInfos, Settled
<1>10. Returned' BY <1>1, <1>4, <1>5, <1>6, <1>7, <1>9, LinksReturned
<1>11. ASSUME NEW u \in TypeInfos, NEW i \in DOMAIN infos[u].links,
              Part(u, i) # None, Pending(u, i)
       PROVE  Pending(u, i)'
  <2>1. CASE u = t
    <3>1. [op |-> "link", arg |-> Slot(t, i)] \in ToSet(ts) BY <1>6, <1>11, <2>1
    <3>2. PICK x \in ToSet(ts) : x.op = "link" /\ x.arg = Slot(t, i) BY <3>1
    <3>3. PICK k \in DOMAIN ts : ts[k] = x BY <3>2 DEF ToSet
    <3>4. Due(x.op, x.arg)' BY <1>4, <1>5, <1>6, <3>3, DueNew
    <3> QED BY <2>1, <3>2, <3>4 DEF Pending, Slot
  <2>2. CASE u # t BY <1>1, <1>2, <1>4, <1>5, <1>6, <1>9, <1>11, <2>2, PendingStays
  <2> QED BY <2>1, <2>2
<1>12. ret' \in 0 .. Len(infos) /\ errors' \in BOOLEAN BY <1>3, <1>5 DEF Typed
<1>13. h.op \in Filling BY <1>1 DEF Filling
<1> QED BY <1>1, <1>3, <1>4, <1>6, <1>8, <1>10, <1>11, <1>12, <1>13, QuietStep

LEMMA FillLinkStep == ASSUME CompilerInv, FillLink PROVE CompilerInv'
<1>1. PICK h \in Tasks : First(h) /\ h.op = "link" /\ TaskWhole(h) /\ h = Head(work)
  BY HeadWhole DEF FillLink
<1>a. PICK t, i : t = h.arg.type /\ i = h.arg.link OBVIOUS
<1>b. PICK s : s = Part(t, i) OBVIOUS
<1>2. t = h.arg.type /\ i = h.arg.link /\ s = Part(t, i) BY <1>a, <1>b
<1>3. /\ t \in TypeInfos /\ i \in DOMAIN infos[t].links /\ h.arg \in Slots
      /\ h.arg = Slot(t, i)
  BY <1>1, <1>2 DEF TaskWhole, Slots, Slot
<1>4. /\ work' = (Resolving(s, NoName) \o Task("store", h.arg)) \o Tail(work)
      /\ UNCHANGED <<doc, exit, defs, infos, ret, errors, header, macros, files>>
  <2>1. /\ Then(Resolving(Subschemas(infos[Arg.type].schema)[Arg.link], NoName)
                \o Task("store", Arg))
        /\ UNCHANGED <<defs, infos, ret, errors, header, macros, files>>
    BY DEF FillLink, KeepsTypes, KeepsOutput, NoError
  <2>2. Arg = h.arg BY <1>1 DEF Arg
  <2>3. Subschemas(infos[h.arg.type].schema)[h.arg.link] = s BY <1>2 DEF Part
  <2>4. Then(Resolving(s, NoName) \o Task("store", h.arg)) BY <2>1, <2>2, <2>3
  <2>5. /\ work' = (Resolving(s, NoName) \o Task("store", h.arg)) \o Tail(work)
        /\ UNCHANGED <<doc, exit>>
    BY <2>4, Zenon DEF Then
  <2> QED BY <2>1, <2>5, Zenon
<1>5. Typed /\ TypesWhole /\ TasksWhole /\ Returned /\ work \in Seq(Tasks)
  BY DEF CompilerInv, Typed
<1>6. s \in Parts BY <1>2, <1>3, <1>5, InfoTyped
<1>7. PICK x : x = [op |-> "resolve", arg |-> [schema |-> s, name |-> NoName]]
  OBVIOUS
<1>8. PICK y : y = [op |-> "store", arg |-> h.arg] OBVIOUS
<1>9. /\ x.arg \in Calls /\ x.op = "resolve" /\ x.arg.schema = s
      /\ y.op = "store" /\ y.arg = h.arg
  BY <1>6, <1>7, <1>8 DEF Calls
<1>10. x \in Tasks /\ y \in Tasks
  BY <1>3, <1>7, <1>8, <1>9 DEF Tasks, Ops, Filling
<1>11. PICK ts : ts = Both(x, y) OBVIOUS
<1>12. /\ ts \in Seq(Tasks) /\ ts # <<>> /\ DOMAIN ts = {1, 2}
       /\ ts[1] = x /\ ts[2] = y /\ ts[Len(ts)] = y /\ ToSet(ts) = {x, y}
  BY <1>10, <1>11, TwoTasks, ZenonT(60)
<1>13. work' = ts \o Tail(work) BY <1>4, <1>7, <1>8, <1>11 DEF Resolving, Task, Both
<1>14. TaskWhole(x) /\ TaskWhole(y)
  BY <1>2, <1>3, <1>9 DEF TaskWhole, Allocating
<1>15. x.op \in Filling /\ y.op \in Filling /\ h.op \in Filling /\ x.op \notin Awaits
  BY <1>1, <1>9 DEF Filling, Awaits
<1>16. Keeps BY <1>4 DEF Keeps, TypeInfos, Settled
<1>17. Follows(x, y)'
  <2>a. infos' = infos BY <1>4
  <2>1. Part(t, i)' = s BY <1>b, <2>a, Zenon DEF Part
  <2>2. Awaited(y)' = Part(t, i)' BY <1>2, <1>9 DEF Awaited
  <2>3. Gives(x, Awaited(y))' BY <1>9, <2>1, <2>2 DEF Gives
  <2> QED BY <2>3, <1>9 DEF Follows
<1>18. ~GivesMain(h) /\ \A part : ~Gives(h, part) BY <1>1 DEF GivesMain, Gives
<1>19. Returned'
  <2>1. \A k \in DOMAIN ts : k > 1 => Follows(ts[k - 1], ts[k])'
    BY <1>12, <1>17
  <2> QED BY <1>1, <1>5, <1>12, <1>13, <1>15, <1>16, <1>18, <2>1, ReturnedLater
<1>20. ASSUME NEW u \in TypeInfos, NEW j \in DOMAIN infos[u].links, Pending(u, j)
       PROVE  Pending(u, j)'
  <2>1. CASE h.arg = Slot(u, j)
    <3>1. work # <<>> BY <1>1 DEF First
    <3>2. Due(y.op, y.arg)' BY <1>5, <1>12, <1>13, <3>1, DueNew
    <3> QED BY <1>9, <2>1, <3>2 DEF Pending, Slot
  <2>2. CASE h.arg # Slot(u, j)
    BY <1>1, <1>5, <1>12, <1>13, <1>16, <1>20, <2>2, PendingStays
  <2> QED BY <2>1, <2>2
<1>21. ret' \in 0 .. Len(infos) /\ errors' \in BOOLEAN BY <1>4, <1>5 DEF Typed
<1> QED BY <1>1, <1>4, <1>12, <1>13, <1>14, <1>15, <1>19, <1>20, <1>21, QuietStep

\* Nothing can be broken by a crash before the output.
LEMMA CrashStep ==
    ASSUME CompilerInv, NEW h, First(h), h.op \notin Defining \cup {"exit"}, Crash
    PROVE  CompilerInv'
<1>1. /\ UNCHANGED <<doc, defs, infos, ret, errors, header, macros, files>>
      /\ work' = <<>> /\ exit' = "crashed"
  BY DEF Crash, KeepsTypes, KeepsOutput, NoError
<1>2. /\ Typed /\ TypesWhole /\ TasksWhole /\ DefsWhole /\ LinksWhole
      /\ work \in Seq(Tasks)
  BY DEF CompilerInv, Typed
<1>3. Fresh /\ ~Late /\ files = {} BY Early
<1>4. /\ work' \in Seq(Tasks) /\ DOMAIN work' = {} /\ ToSet(work') = {}
      /\ (\A x : ~First(x)') /\ \A x, y : ~Adjacent(x, y)'
  BY <1>1, NoTask DEF First, Adjacent
<1>5. Typed' BY <1>1, <1>2, <1>4 DEF Typed
<1>6. TypesWhole' BY <1>1, <1>2 DEF TypesWhole, TypeInfos
<1>7. Ordered' /\ Returned' BY <1>4 DEF Ordered, Returned
<1>8. TasksWhole' BY <1>1, <1>2, <1>3, <1>4 DEF TasksWhole, Started
<1>9. Keeps /\ DOMAIN defs' = 1 .. Len(defs)
  BY <1>1, <1>2 DEF Keeps, TypeInfos, Settled, Typed
<1>10. DefsWhole'
  <2>1. ASSUME NEW d \in DOMAIN defs PROVE DefWhole(d)'
    BY <1>1, <1>2, <1>9, DefStays DEF DefsWhole
  <2> QED BY <1>1, <1>4, <2>1 DEF DefsWhole
<1>11. LinksWhole'
  <2>1. ASSUME NEW t \in TypeInfos, NEW i \in DOMAIN infos[t].links
        PROVE  LinkWhole(t, i)'
    BY <1>1, <1>2, <1>3, <1>9, LinkStays DEF LinksWhole
  <2> QED BY <1>1, <2>1 DEF LinksWhole, TypeInfos
<1>12. HeaderInv'
  BY <1>1, <1>3, <1>4 DEF HeaderInv, Late, Fresh, TypeInfos, IsGenerated, IsStruct, IsArray
<1> QED BY <1>5, <1>6, <1>7, <1>8, <1>10, <1>11, <1>12 DEF CompilerInv

LEMMA ResolveNothingStep == ASSUME CompilerInv, ResolveNothing PROVE CompilerInv'
<1>1. PICK h \in Tasks : First(h) /\ h.op = "resolve"
  BY HeadWhole DEF ResolveNothing
<1>2. h.op \notin Defining \cup {"exit"} BY <1>1 DEF Defining
<1> QED BY <1>1, <1>2, CrashStep DEF ResolveNothing

LEMMA FillDefinitionStep == ASSUME CompilerInv, FillDefinition PROVE CompilerInv'
<1>1. PICK h \in Tasks : /\ First(h) /\ h.op = "fill_definition" /\ TaskWhole(h)
                         /\ h = Head(work)
  BY HeadWhole DEF FillDefinition
<1>2. PICK d \in DOMAIN defs : d = h.arg BY <1>1 DEF TaskWhole
<1>3. h.op \in Filling /\ h.op \notin Defining \cup {"exit"}
      /\ h.op \notin Opening \cup Allocating \cup {"exit"}
  BY <1>1 DEF Defining, Filling, Opening, Allocating
<1>4. CASE Crash BY <1>1, <1>3, <1>4, CrashStep
<1>5. CASE ~Crash
  <2>1. /\ defs[d].state = "DEF_SCHEMA_TYPE" => defs[d].type # NULL
        /\ UNCHANGED <<doc, exit, defs, infos, ret, errors, header, macros, files>>
    BY <1>1, <1>2, <1>5
    DEF FillDefinition, Then, KeepsTypes, KeepsOutput, NoError, Arg
  <2>2. PICK ts : /\ work' = ts \o Tail(work)
                  /\ ts = IF defs[d].state = "DEF_SCHEMA_TYPE"
                          THEN Task("fill", defs[d].type) ELSE <<>>
    BY <1>1, <1>2, <1>5 DEF FillDefinition, Then, Arg
  <2>3. /\ Typed /\ TypesWhole /\ TasksWhole /\ Returned /\ DefsWhole
        /\ work \in Seq(Tasks) /\ work # <<>>
    BY <1>1 DEF CompilerInv, Typed, First
  <2>4. defs[d].state = "DEF_SCHEMA_TYPE" => defs[d].type \in TypeInfos
    <3>1. defs[d].state \notin {"DEF_SCHEMA", "DEF_REF", "DEF_RESOLVING"}
      BY <1>1, <1>3, AllAllocated
    <3> QED BY <2>1, <2>3, <3>1, TypeOfDef DEF Settled
  <2>5. /\ ts \in Seq(Tasks)
        /\ \A x \in ToSet(ts) : x.op = "fill" /\ x.arg \in TypeInfos
        /\ defs[d].state = "DEF_SCHEMA_TYPE" =>
              /\ 1 \in DOMAIN ts /\ ts[1].op = "fill" /\ ts[1].arg = defs[d].type
    <3>1. CASE defs[d].state = "DEF_SCHEMA_TYPE"
      <4>1. defs[d].type \in Nat /\ "fill" \in Ops
        BY <2>3, <2>4, <3>1 DEF Ops, Filling, TypeInfos, Typed
      <4>2. PICK t : t = defs[d].type OBVIOUS
      <4>3. /\ Task("fill", t) \in Seq(Tasks) /\ DOMAIN Task("fill", t) = {1}
            /\ Task("fill", t)[1] = [op |-> "fill", arg |-> t]
            /\ \A x \in ToSet(Task("fill", t)) : x = [op |-> "fill", arg |-> t]
        BY <4>1, <4>2, OneTask
      <4> QED BY <2>2, <2>4, <3>1, <4>2, <4>3
    <3>2. CASE defs[d].state # "DEF_SCHEMA_TYPE" BY <2>2, <3>2, NoTask
    <3> QED BY <3>1, <3>2
  <2>6. \A x \in ToSet(ts) : x.op \in Filling /\ TaskWhole(x)
    BY <2>5 DEF Filling, TaskWhole, Allocating
  <2>7. Keeps BY <2>1 DEF Keeps, TypeInfos, Settled
  <2>8. Returned' BY <1>1, <2>2, <2>3, <2>5, <2>7, LinksReturned
  <2>9. ASSUME NEW u \in TypeInfos, NEW i \in DOMAIN infos[u].links, Pending(u, i)
        PROVE  Pending(u, i)'
    <3>1. CASE defs[d].type = u /\ defs[d].state = "DEF_SCHEMA_TYPE"
      <4>1. Due("fill", u)' BY <2>2, <2>3, <2>5, <3>1, DueNew
      <4> QED BY <4>1 DEF Pending
    <3>2. CASE ~(defs[d].type = u /\ defs[d].state = "DEF_SCHEMA_TYPE")
      BY <1>1, <1>2, <2>2, <2>3, <2>5, <2>7, <2>9, <3>2, PendingStays
    <3> QED BY <3>1, <3>2
  <2>10. ret' \in 0 .. Len(infos) /\ errors' \in BOOLEAN BY <2>1, <2>3 DEF Typed
  <2> QED BY <1>1, <1>3, <2>1, <2>2, <2>5, <2>6, <2>8, <2>9, <2>10, QuietStep
<1> QED BY <1>4, <1>5

-----------------------------------------------------------------------------
(***************************************************************************)
(* The calls that allocate the definitions.                                *)
(***************************************************************************)
LEMMA TailPositions ==
    ASSUME NEW w \in Seq(Tasks), w # <<>>, NEW v, v = Tail(w)
    PROVE  /\ v \in Seq(Tasks)
           /\ \A k \in DOMAIN v : /\ k \in Nat /\ k + 1 \in DOMAIN w /\ k + 1 > 1
                                  /\ k + 1 # 1 /\ v[k] = w[k + 1]
<1>1. /\ v \in Seq(Tasks) /\ Len(v) = Len(w) - 1 /\ Len(w) \in Nat \ {0}
      /\ DOMAIN v = 1 .. Len(w) - 1 /\ DOMAIN w = 1 .. Len(w)
  OBVIOUS
<1>2. \A k \in 1 .. Len(w) - 1 : v[k] = w[k + 1] /\ k \in Nat /\ k + 1 > 1
                                 /\ k + 1 \in 1 .. Len(w)
  OBVIOUS
<1> QED BY <1>1, <1>2

\* One definition has been dealt with, and nothing is to be done for it.
LEMMA DefsLeft ==
    ASSUME CompilerInv, Keeps, NEW h, First(h), h.op \in {"alloc", "resolved"},
           h.arg \in DOMAIN defs, work' = <<>> \o Tail(work), exit' = exit,
           DOMAIN defs' = DOMAIN defs,
           \A e \in DOMAIN defs : e # h.arg => defs'[e] = defs[e],
           DefWhole(h.arg)',
           h.op = "alloc" /\ defs[h.arg].state = "DEF_RESOLVING"
           => defs'[h.arg] = defs[h.arg]
    PROVE  DefsWhole'
<1>1. /\ work \in Seq(Tasks) /\ work # <<>> /\ work[1] = h /\ 1 \in DOMAIN work
      /\ Typed /\ Ordered /\ DefsWhole /\ TasksWhole
  BY DEF CompilerInv, Typed, First
<1>2. work' = Tail(work) BY <1>1, NothingPut
<1>3. \A k \in DOMAIN work' : /\ k \in Nat /\ k + 1 \in DOMAIN work /\ k + 1 # 1
                              /\ work'[k] = work[k + 1]
  BY <1>1, <1>2, TailPositions
<1>4. \A op, arg : Due(op, arg) /\ (h.op # op \/ h.arg # arg) => Due(op, arg)'
  <2>1. PICK ts : ts = <<>> OBVIOUS
  <2>2. ts \in Seq(Tasks) /\ work' = ts \o Tail(work) BY <2>1, NoTask
  <2> QED BY <1>1, <2>2, DueStays
<1>5. ASSUME NEW e \in DOMAIN defs PROVE DefWhole(e)'
  <2>1. CASE e = h.arg BY <2>1
  <2>2. CASE e # h.arg
    <3>1. DOMAIN defs' = 1 .. Len(defs) BY <1>1 DEF Typed
    <3>2. DefWhole(e) BY <1>1 DEF DefsWhole
    <3>3. \A op : Due(op, e) => Due(op, e)' BY <1>4, <2>2
    <3> QED BY <1>1, <2>2, <3>1, <3>2, <3>3, DefStays
  <2> QED BY <2>1, <2>2
<1>6. ASSUME NEW e \in DOMAIN defs PROVE Due("fill_definition", e)'
  <2>1. Due("fill_definition", e) BY <1>1 DEF DefsWhole, Allocating
  <2> QED BY <1>4, <2>1
<1>7. ASSUME NEW k \in DOMAIN work', work'[k].op = "resolved"
      PROVE  defs'[work'[k].arg].state = "DEF_RESOLVING"
  <2>1. k + 1 \in DOMAIN work /\ k + 1 # 1 /\ work'[k] = work[k + 1]
    BY <1>3
  <2>2. defs[work'[k].arg].state = "DEF_RESOLVING"
    BY <1>1, <1>7, <2>1 DEF DefsWhole
  <2>3. work'[k].arg \in DOMAIN defs
    <3>1. work[k + 1] \in ToSet(work) BY <2>1 DEF ToSet
    <3> QED BY <1>1, <1>7, <2>1, <3>1 DEF TasksWhole, TaskWhole, Allocating
  <2>4. CASE work'[k].arg # h.arg BY <2>2, <2>3, <2>4
  <2>5. CASE work'[k].arg = h.arg /\ h.op = "alloc" BY <2>2, <2>5
  <2>6. CASE work'[k].arg = h.arg /\ h.op = "resolved"
    BY <1>1, <1>7, <2>1, <2>6 DEF DefsWhole
  <2> QED BY <2>4, <2>5, <2>6
<1>8. ASSUME NEW j \in DOMAIN work', NEW k \in DOMAIN work',
             work'[j].op = "resolved", work'[k].op = "resolved",
             work'[j].arg = work'[k].arg
      PROVE  j = k
  <2>1. /\ j + 1 \in DOMAIN work /\ k + 1 \in DOMAIN work /\ j \in Nat /\ k \in Nat
        /\ work'[j] = work[j + 1] /\ work'[k] = work[k + 1]
    BY <1>3
  <2>2. j + 1 = k + 1 BY <1>1, <1>8, <2>1 DEF DefsWhole
  <2> QED BY <2>1, <2>2
<1> QED BY <1>5, <1>6, <1>7, <1>8 DEF DefsWhole

LEMMA AllocCircularStep == ASSUME CompilerInv, AllocCircular PROVE CompilerInv'
<1>1. PICK h \in Tasks : First(h) /\ h.op = "alloc" /\ TaskWhole(h) /\ h = Head(work)
  BY HeadWhole DEF AllocCircular
<1>2. PICK d \in DOMAIN defs : d = h.arg BY <1>1 DEF TaskWhole, Allocating
<1>3. /\ work' = <<>> \o Tail(work) /\ ret' = NULL /\ errors' = TRUE
      /\ UNCHANGED <<doc, exit, defs, infos, header, macros, files>>
      /\ defs[d].state = "DEF_RESOLVING"
  BY <1>1, <1>2 DEF AllocCircular, Returns, Then, KeepsTypes, KeepsOutput, Error, Arg
<1>4. Typed /\ Len(infos) \in Nat /\ DOMAIN defs = 1 .. Len(defs) /\ DefsWhole
      /\ work \in Seq(Tasks)
  BY DEF CompilerInv, Typed
<1>5. Keeps BY <1>3 DEF Keeps, TypeInfos, Settled
<1>6. h.op \in Allocating BY <1>1 DEF Allocating
<1>7. \A s : Fits(s, ret)' BY <1>3 DEF Fits
<1>8. IsMainType(ret)' BY <1>3 DEF IsMainType
<1>9. \A t, i : Pending(t, i) => Pending(t, i)'
  BY <1>1, <1>3, <1>4, <1>5, PendingPast
<1>10. ret' \in 0 .. Len(infos) BY <1>3, <1>4 DEF NULL
<1>11. DefWhole(d)'
  <2>1. PICK ts : ts = <<>> OBVIOUS
  <2>2. ts \in Seq(Tasks) /\ work' = ts \o Tail(work) BY <1>3, <2>1, NoTask
  <2>3. work # <<>> /\ work[1] = h BY <1>1 DEF First
  <2>4. Due("resolved", d) => Due("resolved", d)' BY <1>1, <1>4, <2>2, <2>3, DueStays
  <2>5. DefWhole(d) BY <1>4 DEF DefsWhole
  <2> QED BY <1>3, <1>4, <1>5, <2>4, <2>5, DefStays
<1>12. DefsWhole' BY <1>1, <1>2, <1>3, <1>5, <1>11, DefsLeft
<1> QED BY <1>1, <1>3, <1>6, <1>7, <1>8, <1>9, <1>10, <1>12, QuietReturn

LEMMA AllocDoneStep == ASSUME CompilerInv, AllocDone PROVE CompilerInv'
<1>1. PICK h \in Tasks : First(h) /\ h.op = "alloc" /\ TaskWhole(h) /\ h = Head(work)
  BY HeadWhole DEF AllocDone
<1>2. PICK d \in DOMAIN defs : d = h.arg BY <1>1 DEF TaskWhole, Allocating
<1>3. /\ work' = <<>> \o Tail(work) /\ ret' = defs[d].type
      /\ UNCHANGED <<doc, exit, defs, infos, errors, header, macros, files>>
      /\ defs[d].state \in {"DEF_SCHEMA_TYPE", "DEF_TYPE", "DEF_ERROR"}
  BY <1>1, <1>2 DEF AllocDone, Returns, Then, KeepsTypes, KeepsOutput, NoError, Arg
<1>4. Typed /\ Len(infos) \in Nat /\ DOMAIN defs = 1 .. Len(defs) /\ DefsWhole
      /\ work \in Seq(Tasks)
  BY DEF CompilerInv, Typed
<1>5. Keeps BY <1>3 DEF Keeps, TypeInfos, Settled
<1>6. h.op \in Allocating BY <1>1 DEF Allocating
<1>7. /\ defs[d].type \in 0 .. Len(infos)
      /\ \A s : s.is = "ref" /\ s.to = d => Fits(s, defs[d].type)
  BY <1>3, <1>4, TypeOfDef
<1>8. ASSUME NEW s, Gives(h, s) PROVE Fits(s, ret)'
  <2>1. Fits(s, defs[d].type) BY <1>1, <1>2, <1>7, <1>8 DEF Gives
  <2>2. PICK t : t = defs[d].type OBVIOUS
  <2>3. Fits(s, t)' BY <1>5, <2>1, <2>2, FitsStays
  <2>4. ret' = t BY <1>3, <2>2
  <2> QED BY <2>3, <2>4 DEF Fits
<1>9. ~GivesMain(h) BY <1>1 DEF GivesMain
<1>10. \A t, i : Pending(t, i) => Pending(t, i)'
  BY <1>1, <1>3, <1>4, <1>5, PendingPast
<1>11. ret' \in 0 .. Len(infos) /\ errors' \in BOOLEAN BY <1>3, <1>4, <1>7 DEF Typed
<1>12. DefWhole(d)'
  <2>1. DefWhole(d) BY <1>4 DEF DefsWhole
  <2> QED BY <1>3, <1>4, <1>5, <2>1, DefStays
<1>13. DefsWhole' BY <1>1, <1>2, <1>3, <1>5, <1>12, DefsLeft
<1> QED BY <1>1, <1>3, <1>6, <1>8, <1>9, <1>10, <1>11, <1>13, QuietReturn

\* A step before the output, when the types and the definitions it changes
\* are whole.
LEMMA EarlyStep ==
    ASSUME CompilerInv, Keeps, NEW h, First(h), NEW ts \in Seq(Tasks),
           work' = ts \o Tail(work),
           NEW Phase \in {Allocating, Filling}, h.op \in Phase,
           \A x \in ToSet(ts) : x.op \in Phase /\ TaskWhole(x)',
           UNCHANGED <<doc, exit, header, macros, files>>,
           infos' \in Seq(TypeRecords), defs' \in Seq(DefRecords),
           ret' \in 0 .. Len(infos'), errors' \in BOOLEAN,
           TypesWhole', Returned', DefsWhole', LinksWhole',
           \A t \in TypeInfos' :
              /\ ~infos'[t].named
              /\ infos'[t].defined = IF infos'[t].schema.is \in {"object", "array"}
                                     THEN "NOT_DEFINED" ELSE "DEFINED"
    PROVE  CompilerInv'
<1>1. /\ Typed /\ TypesWhole /\ Ordered /\ TasksWhole
      /\ work \in Seq(Tasks) /\ work # <<>> /\ work[1] = h
  BY DEF CompilerInv, Typed, First
<1>2. work' \in Seq(Tasks) BY <1>1, Neighbours
<1>3. Typed' BY <1>1, <1>2 DEF Typed
<1>4. Ordered' BY <1>1, OrderKept DEF ToSet
<1>5. \A x \in ToSet(ts) : TaskWhole(x)' /\ x.op \notin Opening
  BY DEF Opening, Allocating, Filling
<1>6. TasksWhole'
  <2>1. h.op \in Allocating \cup Filling \cup Defining OBVIOUS
  <2> QED BY <1>1, <1>5, <2>1, TasksKept
<1>7. HeaderInv'
  <2>1. \A x \in ToSet(ts) : x.op \notin Defining \cup {"exit"}
    BY DEF Allocating, Filling, Defining
  <2>2. h.op \notin Defining \cup {"exit"} BY DEF Allocating, Filling, Defining
  <2>3. errors => errors' BY DEF Keeps
  <2> QED BY <2>1, <2>2, <2>3, FreshStays
<1> QED BY <1>3, <1>4, <1>6, <1>7 DEF CompilerInv

LEMMA AllocRefStep == ASSUME CompilerInv, AllocRef PROVE CompilerInv'
<1>1. PICK h \in Tasks : First(h) /\ h.op = "alloc" /\ TaskWhole(h) /\ h = Head(work)
  BY HeadWhole DEF AllocRef
<1>2. PICK d \in DOMAIN defs : d = h.arg BY <1>1 DEF TaskWhole, Allocating
<1>3. /\ Typed /\ TypesWhole /\ TasksWhole /\ Returned /\ DefsWhole /\ LinksWhole /\ Ordered
      /\ DOMAIN defs = 1 .. Len(defs) /\ work \in Seq(Tasks) /\ work # <<>> /\ work[1] = h
      /\ 1 \in DOMAIN work
  BY <1>1 DEF CompilerInv, Typed, First
<1>4. PICK c : c = doc.defs[d].to OBVIOUS
<1>5. /\ work' = (Task("alloc", c) \o Task("resolved", d)) \o Tail(work)
      /\ UNCHANGED <<doc, exit, infos, ret, errors, header, macros, files>>
      /\ defs[d].state = "DEF_REF"
      /\ defs' = [defs EXCEPT ![d].state = "DEF_RESOLVING"]
  <2>1. Arg = d BY <1>1, <1>2 DEF Arg
  <2>2. /\ Then(Task("alloc", doc.defs[d].to) \o Task("resolved", d))
        /\ UNCHANGED <<infos, ret, errors, header, macros, files>>
        /\ defs[d].state = "DEF_REF"
        /\ defs' = [defs EXCEPT ![d].state = "DEF_RESOLVING"]
    BY <2>1 DEF AllocRef, KeepsOutput, NoError
  <2>3. Then(Task("alloc", c) \o Task("resolved", d)) BY <1>4, <2>2
  <2>4. /\ work' = (Task("alloc", c) \o Task("resolved", d)) \o Tail(work)
        /\ UNCHANGED <<doc, exit>>
    BY <2>3, Zenon DEF Then
  <2> QED BY <2>2, <2>4, Zenon
<1>6. doc.defs[d].is = "ref" /\ c \in DOMAIN defs
  BY <1>3, <1>4, <1>5 DEF DefsWhole, DefWhole
<1>7. c \in Nat /\ d \in Nat BY <1>3, <1>6
<1>8. PICK x : x = [op |-> "alloc", arg |-> c] OBVIOUS
<1>9. PICK y : y = [op |-> "resolved", arg |-> d] OBVIOUS
<1>10. /\ x.op = "alloc" /\ x.arg = c /\ y.op = "resolved" /\ y.arg = d
       /\ x \in Tasks /\ y \in Tasks
  BY <1>7, <1>8, <1>9 DEF Tasks, Ops, Allocating
<1>11. PICK ts : ts = Both(x, y) OBVIOUS
<1>12. /\ ts \in Seq(Tasks) /\ ts # <<>> /\ DOMAIN ts = {1, 2} /\ Len(ts) = 2
       /\ ts[1] = x /\ ts[2] = y /\ ts[Len(ts)] = y /\ ToSet(ts) = {x, y}
  <2>1. ts = Both(x, y) /\ x \in Tasks /\ y \in Tasks BY <1>10, <1>11
  <2>2. Len(ts) = 2 BY <2>1, TwoTasks, Zenon
  <2>3. /\ ts \in Seq(Tasks) /\ ts # <<>> /\ DOMAIN ts = {1, 2}
        /\ ts[1] = x /\ ts[2] = y /\ ts[Len(ts)] = y /\ ToSet(ts) = {x, y}
    BY <2>1, TwoTasks, ZenonT(60)
  <2> QED BY <2>2, <2>3
<1>13. work' = ts \o Tail(work) BY <1>5, <1>8, <1>9, <1>11 DEF Task, Both
<1>14. /\ defs' \in Seq(DefRecords) /\ DOMAIN defs' = DOMAIN defs
       /\ \A e \in DOMAIN defs : e # d => defs'[e] = defs[e]
       /\ defs'[d].state = "DEF_RESOLVING" /\ defs'[d].type = defs[d].type
  <2>1. defs[d] \in DefRecords /\ defs \in Seq(DefRecords) BY <1>3 DEF Typed
  <2>2. [defs[d] EXCEPT !.state = "DEF_RESOLVING"] \in DefRecords
    BY <2>1 DEF DefRecords, DefStates
  <2>3. PICK r : r = [defs[d] EXCEPT !.state = "DEF_RESOLVING"] OBVIOUS
  <2>4. r.state = "DEF_RESOLVING" /\ r.type = defs[d].type /\ r \in DefRecords
    BY <2>1, <2>2, <2>3 DEF DefRecords
  <2>5. defs' = [defs EXCEPT ![d] = r] BY <1>5, <2>3
  <2> QED BY <2>1, <2>4, <2>5
<1>15. d \notin Settled /\ Settled' = Settled BY <1>5, <1>14 DEF Settled
<1>16. Keeps BY <1>5, <1>14, <1>15 DEF Keeps, TypeInfos, Settled
<1>17. TaskWhole(x)' /\ TaskWhole(y)'
  BY <1>6, <1>10, <1>14 DEF TaskWhole, Allocating
<1>18. x.op \in Allocating /\ y.op \in Allocating /\ h.op \in Allocating
  BY <1>1, <1>10 DEF Allocating
<1>19. Returned'
  <2>1. Follows(x, y)' BY <1>4, <1>5, <1>6, <1>10 DEF Follows, Awaited, Gives
  <2>2. \A k \in DOMAIN ts : k > 1 => Follows(ts[k - 1], ts[k])' BY <1>12, <2>1
  <2>3. \A s : Gives(h, s) => Gives(y, s)' BY <1>1, <1>2, <1>10 DEF Gives
  <2>4. ~GivesMain(h) BY <1>1 DEF GivesMain
  <2>5. ts[1].op \notin Awaits BY <1>10, <1>12 DEF Awaits
  <2> QED BY <1>1, <1>3, <1>12, <1>13, <1>16, <2>2, <2>3, <2>4, <2>5, ReturnedLater
<1>20. \A op, arg : Due(op, arg) /\ (h.op # op \/ h.arg # arg) => Due(op, arg)'
  BY <1>3, <1>12, <1>13, DueStays
<1>21. ASSUME NEW e \in DOMAIN defs PROVE DefWhole(e)'
  <2>1. CASE e # d
    <3>1. DefWhole(e) BY <1>3 DEF DefsWhole
    <3>2. \A op : Due(op, e) => Due(op, e)' BY <1>2, <1>20, <2>1
    <3> QED BY <1>3, <1>5, <1>14, <1>16, <2>1, <3>1, <3>2, DefStays
  <2>2. CASE e = d
    <3>1. DefWhole(d) BY <1>3 DEF DefsWhole
    <3>2. defs'[d].type = NULL BY <1>14, <1>15, <3>1 DEF DefWhole
    <3>3. Due(y.op, y.arg)' BY <1>3, <1>12, <1>13, DueNew
    <3> QED BY <1>4, <1>5, <1>6, <1>10, <1>14, <1>15, <2>2, <3>2, <3>3 DEF DefWhole
  <2> QED BY <2>1, <2>2
<1>22. \A k \in DOMAIN work : work[k].op = "resolved" => work[k].arg # d
  BY <1>3, <1>5 DEF DefsWhole
<1>23. \A k \in DOMAIN work' :
          \/ k <= 2 /\ k \in {1, 2} /\ work'[k] = ts[k]
          \/ k > 2 /\ k - 1 \in DOMAIN work /\ work'[k] = work[k - 1]
  <2>a. /\ \A k \in DOMAIN work' : k > Len(ts) => /\ k - Len(ts) + 1 \in DOMAIN work
                                                  /\ work'[k] = work[k - Len(ts) + 1]
        /\ \A k \in DOMAIN ts : k \in DOMAIN work' /\ work'[k] = ts[k]
        /\ \A k \in DOMAIN work' : k <= Len(ts) => k \in DOMAIN ts
        /\ work' \in Seq(Tasks)
    <3>1. /\ work \in Seq(Tasks) /\ work # <<>> /\ ts \in Seq(Tasks)
          /\ work' = ts \o Tail(work)
      BY <1>3, <1>12, <1>13
    <3> QED BY <3>1, Pushed
  <2>1. /\ \A k \in DOMAIN work' : k > 2 => /\ k - 2 + 1 \in DOMAIN work
                                            /\ work'[k] = work[k - 2 + 1]
        /\ \A k \in DOMAIN ts : k \in DOMAIN work' /\ work'[k] = ts[k]
        /\ \A k \in DOMAIN work' : k <= 2 => k \in DOMAIN ts
        /\ work' \in Seq(Tasks)
    BY <1>12, <2>a
  <2>2. \A k \in Nat : k - 2 + 1 = k - 1 /\ (k <= 2 \/ k > 2) OBVIOUS
  <2>3. \A k \in DOMAIN work' : k \in Nat BY <2>1
  <2> QED BY <1>12, <2>1, <2>2, <2>3
<1>24. \A k \in DOMAIN work' : k \in Nat
  BY <1>3, <1>12, <1>13, Pushed
<1>25. ASSUME NEW k \in DOMAIN work', work'[k].op = "resolved"
       PROVE  /\ defs'[work'[k].arg].state = "DEF_RESOLVING"
              /\ work'[k].arg = d => k = 2
  <2>1. CASE k \in {1, 2} /\ work'[k] = ts[k]
    BY <1>10, <1>12, <1>14, <1>25, <2>1
  <2>2. CASE k - 1 \in DOMAIN work /\ work'[k] = work[k - 1]
    <3>1. work'[k].arg # d /\ defs[work'[k].arg].state = "DEF_RESOLVING"
      BY <1>3, <1>22, <1>25, <2>2 DEF DefsWhole
    <3>2. work'[k].arg \in DOMAIN defs
      <4>1. work[k - 1] \in ToSet(work) BY <2>2 DEF ToSet
      <4> QED BY <1>3, <1>25, <2>2, <4>1 DEF TasksWhole, TaskWhole, Allocating
    <3> QED BY <1>14, <3>1, <3>2
  <2> QED BY <1>23, <2>1, <2>2
<1>26. ASSUME NEW j \in DOMAIN work', NEW k \in DOMAIN work',
              work'[j].op = "resolved", work'[k].op = "resolved",
              work'[j].arg = work'[k].arg
       PROVE  j = k
  <2>1. CASE work'[j].arg = d BY <1>25, <1>26, <2>1
  <2>2. CASE work'[j].arg # d
    <3>1. /\ j - 1 \in DOMAIN work /\ work'[j] = work[j - 1]
          /\ k - 1 \in DOMAIN work /\ work'[k] = work[k - 1]
      BY <1>10, <1>12, <1>23, <1>26, <2>2
    <3>2. j - 1 = k - 1 BY <1>3, <1>26, <3>1 DEF DefsWhole
    <3> QED BY <1>24, <3>2
  <2> QED BY <2>1, <2>2
<1>27. DefsWhole'
  <2>1. ASSUME NEW e \in DOMAIN defs PROVE Due("fill_definition", e)'
    <3>1. Due("fill_definition", e) BY <1>3, <1>18 DEF DefsWhole
    <3> QED BY <1>1, <1>20, <3>1
  <2> QED BY <1>14, <1>21, <1>25, <1>26, <2>1 DEF DefsWhole
<1>28. LinksWhole'
  <2>1. ASSUME NEW t \in TypeInfos, NEW i \in DOMAIN infos[t].links
        PROVE  LinkWhole(t, i)'
    <3>1. LinkWhole(t, i) BY <1>3 DEF LinksWhole
    <3>2. Pending(t, i) => Pending(t, i)'
      BY <1>1, <1>3, <1>12, <1>13, <1>16, PendingStays
    <3>3. exit = "running" BY <1>3 DEF TasksWhole
    <3> QED BY <1>5, <1>16, <3>1, <3>2, <3>3, LinkStays
  <2> QED BY <1>5, <2>1 DEF LinksWhole, TypeInfos
<1>29. \A t \in TypeInfos' :
          /\ ~infos'[t].named
          /\ infos'[t].defined = IF infos'[t].schema.is \in {"object", "array"}
                                 THEN "NOT_DEFINED" ELSE "DEFINED"
  <2>1. h.op \notin Defining \cup {"exit"} BY <1>1 DEF Defining
  <2>2. Fresh BY <1>1, <2>1, Early
  <2> QED BY <1>5, <2>2, FreshTypes DEF TypeInfos
<1>30. TypesWhole' BY <1>3, <1>5 DEF TypesWhole, TypeInfos
<1>31. /\ infos' \in Seq(TypeRecords) /\ ret' \in 0 .. Len(infos') /\ errors' \in BOOLEAN
  BY <1>3, <1>5 DEF Typed
<1>32. \A z \in ToSet(ts) : z.op \in Allocating /\ TaskWhole(z)'
  BY <1>12, <1>17, <1>18
<1> QED BY <1>1, <1>5, <1>12, <1>13, <1>14, <1>16, <1>18, <1>19, <1>27, <1>28,
           <1>29, <1>30, <1>31, <1>32, EarlyStep

-----------------------------------------------------------------------------
(***************************************************************************)
(* The calls that make or change types.                                    *)
(***************************************************************************)
\* A type is added, linked to those that are there.
LEMMA TypesGrow ==
    ASSUME Typed, TypesWhole, NEW s \in AllSchemas, s.is \in {"object", "array"},
           NEW name \in Names, name = Tag(s, name),
           NEW links \in Seq(Nat), Len(links) = Len(Subschemas(s)),
           \A i \in DOMAIN links : links[i] \in 0 .. Len(infos),
           infos' = Append(infos, TypeInfo(s, name, links)),
           UNCHANGED <<header, macros>>
    PROVE  /\ infos' \in Seq(TypeRecords) /\ TypesWhole'
           /\ Len(infos') = Len(infos) + 1 /\ Len(infos) \in Nat
           /\ TypeInfos' = TypeInfos \cup {Len(infos) + 1}
           /\ \A t \in TypeInfos : infos'[t] = infos[t] /\ t # Len(infos) + 1
           /\ infos'[Len(infos) + 1] = TypeInfo(s, name, links)
<1> DEFINE n == Len(infos)
<1>1. infos \in Seq(TypeRecords) /\ n \in Nat /\ TypeInfos = 1 .. n
  BY DEF Typed, TypeInfos
<1>2. PICK r : r = TypeInfo(s, name, links) OBVIOUS
<1>3. /\ r.schema = s /\ r.base_name = name /\ r.links = links
      /\ r \in TypeRecords
  <2>1. r = [schema |-> s, base_name |-> name, links |-> links, named |-> FALSE,
             defined |-> "NOT_DEFINED"]
    BY <1>2 DEF TypeInfo
  <2> QED BY <2>1 DEF TypeRecords
<1>4. /\ infos' \in Seq(TypeRecords) /\ Len(infos') = n + 1
      /\ \A t \in 1 .. n : infos'[t] = infos[t]
      /\ infos'[n + 1] = r
  BY <1>1, <1>2, <1>3
<1>5. TypeInfos' = 1 .. n + 1 BY <1>4 DEF TypeInfos
<1>6. /\ 1 .. n + 1 = (1 .. n) \cup {n + 1} /\ 0 .. n \subseteq 0 .. n + 1
      /\ \A t \in 1 .. n : t # n + 1
  BY <1>1
<1> HIDE DEF n
<1>7. ASSUME NEW t \in TypeInfos'
      PROVE  /\ Len(infos'[t].links) = Len(Subschemas(infos'[t].schema))
             /\ \A i \in DOMAIN infos'[t].links : infos'[t].links[i] \in 0 .. n + 1
             /\ infos'[t].base_name = Tag(infos'[t].schema, infos'[t].base_name)
  <2>1. CASE t \in 1 .. n
    BY <1>1, <1>4, <1>6, <2>1 DEF TypesWhole, n
  <2>2. CASE t = n + 1
    BY <1>3, <1>4, <1>6, <2>2 DEF n
  <2> QED BY <1>5, <1>6, <2>1, <2>2
<1>8. TypesWhole'
  <2>1. n >= 2 /\ n + 1 >= 2 /\ 1 \in 1 .. n /\ 2 \in 1 .. n
    BY <1>1 DEF TypesWhole, n
  <2>2. Len(infos') >= 2 BY <1>4, <2>1
  <2>3. infos'[1] = infos[1] /\ infos'[2] = infos[2] BY <1>4, <2>1
  <2>4. \A k \in DOMAIN header' : header'[k].type \in 0 .. Len(infos')
    BY <1>4, <1>6 DEF TypesWhole, n
  <2>5. \A m \in macros' : \E t \in TypeInfos' : m = infos'[t].base_name
    BY <1>1, <1>4, <1>5, <1>6 DEF TypesWhole
  <2>6. /\ infos[1].schema = Scalar /\ infos[2].schema = AnyValue
        /\ infos[2].base_name = <<"eu_variant">>
    BY DEF TypesWhole
  <2>7. \A t \in TypeInfos' :
          /\ Len(infos'[t].links) = Len(Subschemas(infos'[t].schema))
          /\ \A i \in DOMAIN infos'[t].links : infos'[t].links[i] \in 0 .. Len(infos')
          /\ infos'[t].base_name = Tag(infos'[t].schema, infos'[t].base_name)
    BY <1>4, <1>7
  <2> QED BY <2>2, <2>3, <2>4, <2>5, <2>6, <2>7 DEF TypesWhole
<1> QED BY <1>1, <1>2, <1>4, <1>5, <1>6, <1>8 DEF n

\* What alloc_type gives: a type of the schema, or an error.
LEMMA Allocated ==
    ASSUME Typed, TypesWhole, NEW s \in AllSchemas, NEW name \in Names, NEW t,
           AllocType(s, name, t), UNCHANGED <<header, macros>>
    PROVE  /\ infos' \in Seq(TypeRecords) /\ TypesWhole'
           /\ TypeInfos \subseteq TypeInfos' /\ t \in 0 .. Len(infos')
           /\ \A u \in TypeInfos : infos'[u] = infos[u]
           /\ errors' \in BOOLEAN /\ (errors => errors')
           /\ \/ t = NULL /\ errors'
              \/ t \in TypeInfos' /\ infos'[t].schema = s
           /\ s.is \in {"object", "array"} /\ t # NULL
              => infos'[t].base_name = Tag(s, name)
           /\ s.is \notin {"ref", "badref"}
           /\ \A u \in TypeInfos' \ TypeInfos :
                 /\ u = t /\ ~infos'[u].named /\ infos'[u].defined = "NOT_DEFINED"
                 /\ infos'[u].schema.is \in {"object", "array"}
                 /\ \A i \in DOMAIN infos'[u].links : infos'[u].links[i] = NULL
<1>1. /\ infos \in Seq(TypeRecords) /\ Len(infos) \in Nat /\ Len(infos) >= 2
      /\ errors \in BOOLEAN /\ infos[1].schema = Scalar /\ infos[2].schema = AnyValue
  BY DEF Typed, TypesWhole
<1>2. CASE UNCHANGED infos
  <2>1. TypesWhole' BY <1>2 DEF TypesWhole, TypeInfos
  <2>2. TypeInfos' = TypeInfos BY <1>2 DEF TypeInfos
  <2>3. \/ t = NULL /\ errors' = TRUE /\ s.is \in {"object", "wrong"}
        \/ s.is = "scalar" /\ t = 1 /\ errors' = errors
        \/ s.is = "any" /\ t = 2 /\ errors' = errors
    <3>1. CASE infos' = Append(infos, TypeInfo(s, Tag(s, name),
                                  [i \in DOMAIN Subschemas(s) |-> NULL]))
      <4>1. Len(infos') = Len(infos) + 1 BY <1>1, <3>1
      <4> QED BY <1>1, <1>2, <4>1
    <3>2. CASE ~(infos' = Append(infos, TypeInfo(s, Tag(s, name),
                                    [i \in DOMAIN Subschemas(s) |-> NULL])))
      BY <3>2 DEF AllocType, Error, NoError, scalar_type, variant_type
    <3> QED BY <3>1, <3>2
  <2>4. s.is = "scalar" => s = Scalar BY SchemaShapes
  <2>5. s.is = "any" => s = AnyValue BY SchemaShapes
  <2>6. 1 \in TypeInfos /\ 2 \in TypeInfos /\ 1 \in 0 .. Len(infos)
        /\ 2 \in 0 .. Len(infos) /\ 0 \in 0 .. Len(infos)
    BY <1>1 DEF TypeInfos
  <2>7. /\ t \in 0 .. Len(infos')
        /\ \/ t = NULL /\ errors'
           \/ t \in TypeInfos' /\ infos'[t].schema = s
        /\ errors' \in BOOLEAN /\ (errors => errors')
        /\ s.is \notin {"ref", "badref"}
        /\ ~(s.is \in {"object", "array"} /\ t # NULL)
    BY <1>1, <1>2, <2>2, <2>3, <2>4, <2>5, <2>6 DEF NULL
  <2> QED BY <1>1, <1>2, <2>1, <2>2, <2>7
<1>3. CASE infos' # infos
  <2> DEFINE links == [i \in DOMAIN Subschemas(s) |-> NULL]
             n == Len(infos) + 1
  <2>1. /\ s.is \in {"object", "array"} /\ Tag(s, name) # NoName /\ t = n
        /\ infos' = Append(infos, TypeInfo(s, Tag(s, name), links))
        /\ errors' = errors
    BY <1>3 DEF AllocType, NoError
  <2>2. /\ links \in Seq(Nat) /\ Len(links) = Len(Subschemas(s))
        /\ \A i \in DOMAIN links : links[i] = NULL /\ links[i] \in 0 .. Len(infos)
    <3>1. Subschemas(s) \in Seq(Parts) BY SubschemasTyped
    <3> QED BY <1>1, <3>1 DEF NULL
  <2>3. Tag(s, name) \in Names /\ Tag(s, name) = Tag(s, Tag(s, name))
    BY SchemaShapes DEF Tag
  <2>a. PICK l, m : l = links /\ m = Tag(s, name) OBVIOUS
  <2>4. /\ infos' \in Seq(TypeRecords) /\ TypesWhole'
        /\ Len(infos') = Len(infos) + 1
        /\ TypeInfos' = TypeInfos \cup {n}
        /\ \A u \in TypeInfos : infos'[u] = infos[u] /\ u # n
        /\ infos'[n] = TypeInfo(s, m, l)
    <3> HIDE DEF links
    <3>1. /\ l \in Seq(Nat) /\ Len(l) = Len(Subschemas(s))
          /\ \A i \in DOMAIN l : l[i] \in 0 .. Len(infos)
          /\ m \in Names /\ m = Tag(s, m)
          /\ infos' = Append(infos, TypeInfo(s, m, l))
      BY <2>1, <2>2, <2>3, <2>a
    <3> QED BY <2>1, <3>1, TypesGrow
  <2>5. /\ infos'[n].schema = s /\ infos'[n].base_name = m /\ infos'[n].links = l
        /\ ~infos'[n].named /\ infos'[n].defined = "NOT_DEFINED"
    BY <2>1, <2>4 DEF TypeInfo
  <2>6. \A i \in DOMAIN l : l[i] = NULL BY <2>2, <2>a
  <2>7. n \in 0 .. Len(infos') /\ n # NULL BY <1>1, <2>4 DEF NULL
  <2> HIDE DEF links, n
  <2>8. s.is \notin {"ref", "badref"} BY <2>1
  <2>9. infos'[t].base_name = Tag(s, name) BY <2>1, <2>5, <2>a
  <2>10. t \in TypeInfos' /\ infos'[t].schema = s BY <2>1, <2>4, <2>5
  <2>11. ASSUME NEW u \in TypeInfos' \ TypeInfos
         PROVE  /\ u = t /\ ~infos'[u].named /\ infos'[u].defined = "NOT_DEFINED"
                /\ infos'[u].schema.is \in {"object", "array"}
                /\ \A i \in DOMAIN infos'[u].links : infos'[u].links[i] = NULL
    <3>1. u = n BY <2>4
    <3> QED BY <2>1, <2>5, <2>6, <3>1
  <2>12. errors' \in BOOLEAN /\ (errors => errors') /\ t \in 0 .. Len(infos')
    BY <1>1, <2>1, <2>7
  <2>13. TypeInfos \subseteq TypeInfos' BY <2>4
  <2> QED BY <2>4, <2>8, <2>9, <2>10, <2>11, <2>12, <2>13
<1> QED BY <1>2, <1>3

\* Types that are allocated are as yet without code.
LEMMA FreshGrown ==
    ASSUME CompilerInv, NEW h, First(h), h.op \notin Defining \cup {"exit"},
           \A u \in TypeInfos : infos'[u] = infos[u],
           \A u \in TypeInfos' \ TypeInfos :
              /\ ~infos'[u].named /\ infos'[u].defined = "NOT_DEFINED"
              /\ infos'[u].schema.is \in {"object", "array"}
    PROVE  \A t \in TypeInfos' :
              /\ ~infos'[t].named
              /\ infos'[t].defined = IF infos'[t].schema.is \in {"object", "array"}
                                     THEN "NOT_DEFINED" ELSE "DEFINED"
<1>1. Fresh BY Early
<1>2. \A t \in TypeInfos :
         /\ ~infos[t].named
         /\ infos[t].defined = IF infos[t].schema.is \in {"object", "array"}
                               THEN "NOT_DEFINED" ELSE "DEFINED"
  BY <1>1, FreshTypes
<1> QED BY <1>2

LEMMA LinksGrown ==
    ASSUME LinksWhole, Keeps, \A u \in TypeInfos : infos'[u] = infos[u],
           files' = {}, exit = "running",
           \A u \in TypeInfos : \A i \in DOMAIN infos[u].links :
              Part(u, i) # None /\ Pending(u, i) => errors' \/ Pending(u, i)',
           \A u \in TypeInfos' \ TypeInfos : \A i \in DOMAIN infos'[u].links :
              LinkWhole(u, i)'
    PROVE  LinksWhole'
<1>1. ASSUME NEW u \in TypeInfos, NEW i \in DOMAIN infos[u].links
      PROVE  LinkWhole(u, i)'
  <2>1. LinkWhole(u, i) BY DEF LinksWhole
  <2>2. CASE Part(u, i) = None /\ infos[u].links[i] = NULL
    <3>1. Part(u, i)' = None BY <2>2 DEF Part, Keeps
    <3> QED BY <2>2, <3>1 DEF LinkWhole
  <2>3. CASE Part(u, i) # None \/ infos[u].links[i] # NULL
    BY <2>1, <2>3, LinkStays
  <2> QED BY <2>2, <2>3
<1>2. \A u \in TypeInfos' : \A i \in DOMAIN infos'[u].links : LinkWhole(u, i)'
  BY <1>1
<1> QED BY <1>2 DEF LinksWhole

LEMMA ResolveTypeStep == ASSUME CompilerInv, ResolveType PROVE CompilerInv'
<1>1. PICK h \in Tasks : First(h) /\ h.op = "resolve" /\ TaskWhole(h) /\ h = Head(work)
  BY HeadWhole DEF ResolveType
<1>2. PICK s, name : s = h.arg.schema /\ name = h.arg.name OBVIOUS
<1>3. /\ s.is \in {"object", "array", "scalar", "any", "wrong"}
      /\ UNCHANGED <<defs, header, macros, files>>
  BY <1>1, <1>2 DEF ResolveType, KeepsOutput, Arg
<1>4. PICK t : /\ AllocType(s, name, t) /\ ret' = t
               /\ Then(IF t = NULL THEN <<>> ELSE Task("fill", t) \o Task("return", t))
  BY <1>1, <1>2 DEF ResolveType, Arg
<1>5. UNCHANGED <<doc, exit>> BY <1>4, Zenon DEF Then
<1>6. PICK ts : ts = IF t = NULL THEN <<>> ELSE Task("fill", t) \o Task("return", t)
  OBVIOUS
<1>7. work' = ts \o Tail(work) BY <1>4, <1>6, Zenon DEF Then
<1>8. /\ Typed /\ TypesWhole /\ TasksWhole /\ Returned /\ DefsWhole /\ LinksWhole
      /\ work \in Seq(Tasks) /\ work # <<>>
  BY <1>1 DEF CompilerInv, Typed, First
<1>9. s \in AllSchemas /\ name \in Names
  <2>1. h.arg \in Calls BY <1>1 DEF TaskWhole
  <2>2. s \in Parts /\ name \in {NoName, Main} BY <1>2, <2>1 DEF Calls
  <2>3. s \in AllSchemas BY <1>3, <2>2 DEF Parts, None
  <2>4. "main" \in Words BY DEF Words
  <2>5. NoName \in Names /\ Main \in Names BY <2>4 DEF NoName, Main, Names
  <2> QED BY <2>2, <2>3, <2>5
<1>10. /\ infos' \in Seq(TypeRecords) /\ TypesWhole'
       /\ TypeInfos \subseteq TypeInfos' /\ t \in 0 .. Len(infos')
       /\ \A u \in TypeInfos : infos'[u] = infos[u]
       /\ errors' \in BOOLEAN /\ (errors => errors')
       /\ \/ t = NULL /\ errors'
          \/ t \in TypeInfos' /\ infos'[t].schema = s
       /\ s.is \in {"object", "array"} /\ t # NULL => infos'[t].base_name = Tag(s, name)
       /\ s.is \notin {"ref", "badref"}
       /\ \A u \in TypeInfos' \ TypeInfos :
             /\ u = t /\ ~infos'[u].named /\ infos'[u].defined = "NOT_DEFINED"
             /\ infos'[u].schema.is \in {"object", "array"}
             /\ \A i \in DOMAIN infos'[u].links : infos'[u].links[i] = NULL
  BY <1>3, <1>4, <1>8, <1>9, Allocated
<1>11. Keeps BY <1>3, <1>5, <1>10 DEF Keeps, Settled
<1>12. h.op \in Filling /\ h.op \notin Defining \cup {"exit"} BY <1>1 DEF Filling, Defining
<1>13. files = {} /\ exit = "running" BY <1>1, <1>12, Early
<1>14. NULL \notin TypeInfos' BY DEF NULL, TypeInfos
<1>15. Fits(s, ret)' BY <1>3, <1>4, <1>10 DEF Fits
<1>16. Gives(h, doc.main) /\ GivesMain(h) => IsMainType(ret)'
  <2> SUFFICES ASSUME Gives(h, doc.main), GivesMain(h), s.is \in {"object", "array"},
                      t # NULL
               PROVE  IsMain(t)'
    BY <1>1, <1>2, <1>4, <1>5 DEF Gives, IsMainType
  <2>1. s = doc'.main /\ name = Main BY <1>1, <1>2, <1>5 DEF Gives, GivesMain
  <2>2. infos'[t].schema = s /\ infos'[t].base_name = Tag(s, name) BY <1>10
  <2> QED BY <2>1, <2>2 DEF IsMain
<1>17. \A part : Gives(h, part) => part = s BY <1>1, <1>2 DEF Gives
<1>18. \A t1 \in TypeInfos' :
          /\ ~infos'[t1].named
          /\ infos'[t1].defined = IF infos'[t1].schema.is \in {"object", "array"}
                                  THEN "NOT_DEFINED" ELSE "DEFINED"
  BY <1>1, <1>10, <1>12, FreshGrown
<1>19. /\ ts \in Seq(Tasks) /\ Returned'
       /\ \A x \in ToSet(ts) : x.op \in Filling /\ TaskWhole(x)'
       /\ \A u \in TypeInfos' \ TypeInfos : Due("fill", u)'
  <2>1. CASE t = NULL
    <3>1. ts = <<>> BY <1>6, <2>1
    <3>2. work' = Tail(work) BY <1>7, <1>8, <3>1, NothingPut
    <3>3. Returned' BY <1>1, <1>8, <1>11, <1>15, <1>16, <1>17, <3>2, ReturnedNow
    <3> QED BY <1>10, <1>14, <2>1, <3>1, <3>3, NoTask
  <2>2. CASE t # NULL
    <3>1. t \in Nat /\ t \in TypeInfos' BY <1>10, <2>2
    <3>2. PICK x, y : x = [op |-> "fill", arg |-> t] /\ y = [op |-> "return", arg |-> t]
      OBVIOUS
    <3>3. x.op = "fill" /\ y.op = "return" /\ x.arg = t /\ y.arg = t BY <3>2
    <3>4. x \in Tasks /\ y \in Tasks BY <3>1, <3>2 DEF Tasks, Ops, Filling
    <3>5. ts = Both(x, y) BY <1>6, <2>2, <3>2 DEF Task, Both
    <3>6. /\ ts \in Seq(Tasks) /\ ts # <<>> /\ DOMAIN ts = {1, 2}
          /\ ts[1] = x /\ ts[2] = y /\ ts[Len(ts)] = y /\ ToSet(ts) = {x, y}
      BY <3>4, <3>5, TwoTasks, ZenonT(60)
    <3>7. TaskWhole(x)' /\ TaskWhole(y)' BY <3>1, <3>3 DEF TaskWhole, Allocating
    <3>8. x.op \in Filling /\ y.op \in Filling /\ x.op \notin Awaits /\ y.op \notin Awaits
      BY <3>3 DEF Filling, Awaits
    <3>9. Returned'
      <4>1. Follows(x, y)' BY <3>3, <3>8 DEF Follows
      <4>2. \A k \in DOMAIN ts : k > 1 => Follows(ts[k - 1], ts[k])'
        BY <3>6, <4>1
      <4>3. \A part : Gives(h, part) => Gives(y, part)'
        BY <1>4, <1>15, <1>17, <3>3 DEF Gives, Fits
      <4>4. Gives(h, doc.main) /\ GivesMain(h) => GivesMain(y)'
        BY <1>4, <1>16, <3>3 DEF GivesMain, IsMainType
      <4> QED BY <1>1, <1>7, <1>8, <1>11, <3>6, <3>8, <4>2, <4>3, <4>4, ReturnedLater
    <3>10. Due(x.op, x.arg)' BY <1>7, <1>8, <3>6, DueNew
    <3> QED BY <1>10, <3>3, <3>6, <3>7, <3>8, <3>9, <3>10
  <2> QED BY <2>1, <2>2
<1>20. DefsWhole'
  BY <1>1, <1>3, <1>5, <1>7, <1>11, <1>12, <1>19, DefsKept
<1>21. LinksWhole'
  <2>1. \A u \in TypeInfos : \A i \in DOMAIN infos[u].links : Pending(u, i) => Pending(u, i)'
    BY <1>1, <1>7, <1>8, <1>11, <1>19, PendingStays
  <2>2. \A u \in TypeInfos' \ TypeInfos : \A i \in DOMAIN infos'[u].links : LinkWhole(u, i)'
    BY <1>3, <1>10, <1>13, <1>19 DEF LinkWhole, Pending
  <2> QED BY <1>3, <1>8, <1>10, <1>11, <1>13, <2>1, <2>2, LinksGrown
<1>22. defs' \in Seq(DefRecords) BY <1>3, <1>8 DEF Typed
<1> QED BY <1>1, <1>3, <1>4, <1>5, <1>7, <1>10, <1>11, <1>12, <1>18, <1>19, <1>20, <1>21,
           <1>22, EarlyStep

\* A link of a type is set.
LEMMA LinkSet ==
    ASSUME Typed, TypesWhole, NEW t \in TypeInfos, NEW i \in DOMAIN infos[t].links,
           infos' = [infos EXCEPT ![t].links[i] = ret], UNCHANGED <<header, macros>>
    PROVE  /\ infos' \in Seq(TypeRecords) /\ TypesWhole' /\ TypeInfos' = TypeInfos
           /\ Len(infos') = Len(infos)
           /\ \A u \in TypeInfos : u # t => infos'[u] = infos[u]
           /\ infos'[t].schema = infos[t].schema
           /\ infos'[t].base_name = infos[t].base_name
           /\ infos'[t].named = infos[t].named
           /\ infos'[t].defined = infos[t].defined
           /\ DOMAIN infos'[t].links = DOMAIN infos[t].links
           /\ infos'[t].links[i] = ret
           /\ \A j \in DOMAIN infos[t].links : j # i => infos'[t].links[j] = infos[t].links[j]
<1>1. /\ infos \in Seq(TypeRecords) /\ Len(infos) \in Nat /\ TypeInfos = 1 .. Len(infos)
      /\ DOMAIN infos = 1 .. Len(infos) /\ ret \in 0 .. Len(infos) /\ ret \in Nat
  BY DEF Typed, TypeInfos
<1>2. infos[t] \in TypeRecords /\ infos[t].links \in Seq(Nat) BY InfoTyped
<1>3. PICK l : l = [infos[t].links EXCEPT ![i] = ret] OBVIOUS
<1>4. /\ l \in Seq(Nat) /\ DOMAIN l = DOMAIN infos[t].links /\ l[i] = ret
      /\ Len(l) = Len(infos[t].links)
      /\ \A j \in DOMAIN infos[t].links : j # i => l[j] = infos[t].links[j]
  <2>1. PICK k : k = infos[t].links OBVIOUS
  <2>2. k \in Seq(Nat) /\ i \in DOMAIN k /\ l = [k EXCEPT ![i] = ret]
    BY <1>2, <1>3, <2>1
  <2>3. /\ l \in Seq(Nat) /\ DOMAIN l = DOMAIN k /\ l[i] = ret /\ Len(l) = Len(k)
        /\ \A j \in DOMAIN k : j # i => l[j] = k[j]
    BY <1>1, <2>2
  <2> QED BY <2>1, <2>3
<1>5. PICK r : r = [infos[t] EXCEPT !.links = l] OBVIOUS
<1>6. /\ r \in TypeRecords /\ r.schema = infos[t].schema
      /\ r.base_name = infos[t].base_name /\ r.named = infos[t].named
      /\ r.defined = infos[t].defined /\ r.links = l
  BY <1>2, <1>4, <1>5 DEF TypeRecords
<1>7. infos' = [infos EXCEPT ![t] = r] BY <1>3, <1>5
<1>8. /\ infos' \in Seq(TypeRecords) /\ Len(infos') = Len(infos) /\ infos'[t] = r
      /\ \A u \in TypeInfos : u # t => infos'[u] = infos[u]
  BY <1>1, <1>6, <1>7
<1>9. TypeInfos' = TypeInfos BY <1>8 DEF TypeInfos
<1>10. ASSUME NEW u \in TypeInfos
       PROVE  /\ Len(infos'[u].links) = Len(Subschemas(infos'[u].schema))
              /\ \A j \in DOMAIN infos'[u].links : infos'[u].links[j] \in 0 .. Len(infos)
              /\ infos'[u].base_name = Tag(infos'[u].schema, infos'[u].base_name)
              /\ infos'[u].schema = infos[u].schema
              /\ infos'[u].base_name = infos[u].base_name
  <2>1. /\ Len(infos[u].links) = Len(Subschemas(infos[u].schema))
        /\ \A j \in DOMAIN infos[u].links : infos[u].links[j] \in 0 .. Len(infos)
        /\ infos[u].base_name = Tag(infos[u].schema, infos[u].base_name)
    BY DEF TypesWhole
  <2>2. CASE u # t BY <1>8, <2>1, <2>2
  <2>3. CASE u = t BY <1>1, <1>4, <1>6, <1>8, <2>1, <2>3
  <2> QED BY <2>2, <2>3
<1>11. TypesWhole'
  <2>1. 1 \in TypeInfos /\ 2 \in TypeInfos BY <1>1 DEF TypesWhole
  <2>2. /\ Len(infos) >= 2 /\ infos[1].schema = Scalar /\ infos[2].schema = AnyValue
        /\ infos[2].base_name = <<"eu_variant">>
        /\ \A k \in DOMAIN header : header[k].type \in 0 .. Len(infos)
        /\ \A name \in macros : \E u \in TypeInfos : name = infos[u].base_name
    BY DEF TypesWhole
  <2> QED BY <1>8, <1>9, <1>10, <2>1, <2>2 DEF TypesWhole
<1> QED BY <1>4, <1>6, <1>8, <1>9, <1>11

LEMMA StoreStep == ASSUME CompilerInv, Store PROVE CompilerInv'
<1>1. PICK h \in Tasks : First(h) /\ h.op = "store" /\ TaskWhole(h) /\ h = Head(work)
  BY HeadWhole DEF Store
<1>2. PICK t, i : t = h.arg.type /\ i = h.arg.link OBVIOUS
<1>3. /\ t \in TypeInfos /\ i \in DOMAIN infos[t].links /\ h.arg = Slot(t, i)
  BY <1>1, <1>2 DEF TaskWhole, Slots, Slot
<1>4. /\ infos' = [infos EXCEPT ![t].links[i] = ret]
      /\ UNCHANGED <<ret, defs, errors, header, macros, files>>
  BY <1>1, <1>2 DEF Store, KeepsOutput, NoError, Arg
<1>5. work' = <<>> \o Tail(work) /\ UNCHANGED <<doc, exit>>
  BY DEF Store, Then
<1>6. /\ Typed /\ TypesWhole /\ TasksWhole /\ Returned /\ DefsWhole /\ LinksWhole
      /\ work \in Seq(Tasks) /\ work # <<>>
  BY <1>1 DEF CompilerInv, Typed, First
<1>7. /\ infos' \in Seq(TypeRecords) /\ TypesWhole' /\ TypeInfos' = TypeInfos
      /\ Len(infos') = Len(infos)
      /\ \A u \in TypeInfos : u # t => infos'[u] = infos[u]
      /\ infos'[t].schema = infos[t].schema
      /\ infos'[t].base_name = infos[t].base_name
      /\ infos'[t].named = infos[t].named
      /\ infos'[t].defined = infos[t].defined
      /\ DOMAIN infos'[t].links = DOMAIN infos[t].links
      /\ infos'[t].links[i] = ret
      /\ \A j \in DOMAIN infos[t].links : j # i => infos'[t].links[j] = infos[t].links[j]
  BY <1>3, <1>4, <1>6, LinkSet
<1>8. Keeps BY <1>3, <1>4, <1>5, <1>7 DEF Keeps, Settled
<1>9. h.op \in Filling /\ h.op \notin Defining \cup {"exit"} BY <1>1 DEF Filling, Defining
<1>10. files = {} /\ exit = "running" /\ Fresh BY <1>1, <1>9, Early
<1>11. Fits(Part(t, i), ret)
  <2>1. Ready(h) BY <1>1, <1>6 DEF Returned
  <2> QED BY <1>1, <1>2, <2>1 DEF Ready, Awaits, Awaited
<1>12. PICK ts : ts = <<>> OBVIOUS
<1>13. ts \in Seq(Tasks) /\ ToSet(ts) = {} /\ work' = ts \o Tail(work) BY <1>5, <1>12, NoTask
<1>14. Returned'
  <2>1. (\A s : ~Gives(h, s)) /\ ~GivesMain(h) BY <1>1 DEF Gives, GivesMain
  <2>2. work' = Tail(work) BY <1>5, <1>6, NothingPut
  <2> QED BY <1>1, <1>6, <1>8, <2>1, <2>2, ReturnedNow
<1>15. DefsWhole' BY <1>1, <1>4, <1>5, <1>8, <1>9, <1>13, DefsKept
<1>16. ASSUME NEW u \in TypeInfos, NEW j \in DOMAIN infos[u].links
       PROVE  LinkWhole(u, j)'
  <2>1. LinkWhole(u, j) BY <1>6 DEF LinksWhole
  <2>2. CASE u = t /\ j = i
    <3>1. PICK s, v : s = Part(t, i) /\ v = ret OBVIOUS
    <3>2. Fits(s, v)' BY <1>8, <1>11, <3>1, FitsStays
    <3>3. Part(t, i)' = s BY <1>7, <3>1 DEF Part
    <3>4. v = NULL => errors'
      BY <3>2 DEF Fits, TypeInfos, NULL
    <3> QED BY <1>4, <1>7, <1>10, <2>2, <3>1, <3>2, <3>3, <3>4 DEF LinkWhole, Fits
  <2>3. CASE ~(u = t /\ j = i)
    <3>1. infos'[u].links[j] = infos[u].links[j] BY <1>7, <2>3
    <3>2. h.arg # Slot(u, j) BY <1>3, <2>3 DEF Slot
    <3>3. Pending(u, j) => Pending(u, j)'
      BY <1>1, <1>6, <1>8, <1>13, <3>2, PendingStays
    <3> QED BY <1>4, <1>5, <1>8, <1>10, <2>1, <3>1, <3>3, LinkStays
  <2> QED BY <2>2, <2>3
<1>17. LinksWhole'
  <2>1. \A u \in TypeInfos : DOMAIN infos'[u].links = DOMAIN infos[u].links
    BY <1>8 DEF Keeps
  <2> QED BY <1>7, <1>16, <2>1 DEF LinksWhole
<1>18. \A u \in TypeInfos' :
          /\ ~infos'[u].named
          /\ infos'[u].defined = IF infos'[u].schema.is \in {"object", "array"}
                                 THEN "NOT_DEFINED" ELSE "DEFINED"
  <2>1. \A u \in TypeInfos :
           /\ ~infos[u].named
           /\ infos[u].defined = IF infos[u].schema.is \in {"object", "array"}
                                 THEN "NOT_DEFINED" ELSE "DEFINED"
    BY <1>10, FreshTypes
  <2>2. \A u \in TypeInfos : /\ infos'[u].named = infos[u].named
                             /\ infos'[u].defined = infos[u].defined
                             /\ infos'[u].schema = infos[u].schema
    BY <1>7
  <2> QED BY <1>7, <2>1, <2>2
<1>19. /\ defs' \in Seq(DefRecords) /\ ret' \in 0 .. Len(infos') /\ errors' \in BOOLEAN
  BY <1>4, <1>6, <1>7 DEF Typed
<1> QED BY <1>1, <1>4, <1>5, <1>7, <1>8, <1>9, <1>13, <1>14, <1>15, <1>17, <1>18, <1>19,
           EarlyStep

LEMMA NameArrayStep == ASSUME CompilerInv, NameArray PROVE CompilerInv'
<1>1. PICK h \in Tasks : First(h) /\ h.op = "array" /\ TaskWhole(h) /\ h = Head(work)
  BY HeadWhole DEF NameArray
<1>2. h.op \in Filling /\ h.op \notin Defining \cup {"exit"} BY <1>1 DEF Filling, Defining
<1>3. CASE Crash BY <1>1, <1>2, <1>3, CrashStep
<1>4. CASE ~Crash
  <2>1. PICK s, m : s = h.arg /\ m = Append(infos[ret].base_name, "array") OBVIOUS
  <2>2. /\ ret # NULL /\ Returns(Len(infos) + 1)
        /\ infos' = Append(infos, TypeInfo(s, m, <<ret>>))
        /\ UNCHANGED <<defs, errors, header, macros, files>>
    BY <1>1, <1>4, <2>1 DEF NameArray, KeepsOutput, NoError, Arg
  <2>3. PICK n : n = Len(infos) + 1 OBVIOUS
  <2>4. ret' = n /\ work' = <<>> \o Tail(work) /\ UNCHANGED <<doc, exit>>
    BY <2>2, <2>3 DEF Returns, Then
  <2>5. /\ Typed /\ TypesWhole /\ TasksWhole /\ Returned /\ DefsWhole /\ LinksWhole
        /\ work \in Seq(Tasks) /\ work # <<>> /\ Len(infos) \in Nat
        /\ ret \in 0 .. Len(infos)
    BY <1>1 DEF CompilerInv, Typed, First
  <2>6. s \in AllSchemas /\ s.is = "array" /\ Fits(s.items, ret)
    <3>1. Ready(h) BY <1>1, <2>5 DEF Returned
    <3> QED BY <1>1, <2>1, <3>1 DEF Ready, Awaits, Awaited, TaskWhole
  <2>7. ret \in TypeInfos /\ ret \in Nat
    BY <2>2, <2>5 DEF TypeInfos, NULL
  <2>8. m \in Names
    <3>1. infos[ret].base_name \in Seq(Words) BY <2>5, <2>7, InfoTyped DEF Names
    <3>2. "array" \in Words BY DEF Words
    <3> QED BY <2>1, <3>1, <3>2 DEF Names
  <2>9. PICK l : l = <<ret>> OBVIOUS
  <2>10. /\ l \in Seq(Nat) /\ Len(l) = 1 /\ l[1] = ret /\ DOMAIN l = {1}
    BY <2>7, <2>9
  <2>11. Len(Subschemas(s)) = 1 /\ Subschemas(s)[1] = s.items BY <2>6, SubschemasTyped
  <2>12. m = Tag(s, m) BY <2>6 DEF Tag
  <2>13. /\ infos' \in Seq(TypeRecords) /\ TypesWhole'
         /\ Len(infos') = Len(infos) + 1
         /\ TypeInfos' = TypeInfos \cup {n}
         /\ \A u \in TypeInfos : infos'[u] = infos[u] /\ u # n
         /\ infos'[n] = TypeInfo(s, m, l)
    <3>1. infos' = Append(infos, TypeInfo(s, m, l)) BY <2>2, <2>9
    <3>2. \A i \in DOMAIN l : l[i] \in 0 .. Len(infos) BY <2>5, <2>10
    <3> QED BY <2>2, <2>3, <2>5, <2>6, <2>8, <2>10, <2>11, <2>12, <3>1, <3>2, TypesGrow
  <2>14. /\ infos'[n].schema = s /\ infos'[n].links = l
         /\ ~infos'[n].named /\ infos'[n].defined = "NOT_DEFINED"
    BY <2>6, <2>13 DEF TypeInfo
  <2>15. Keeps BY <2>2, <2>4, <2>13 DEF Keeps, Settled
  <2>16. files = {} /\ exit = "running" BY <1>1, <1>2, Early
  <2>17. PICK ts : ts = <<>> OBVIOUS
  <2>18. ts \in Seq(Tasks) /\ ToSet(ts) = {} /\ work' = ts \o Tail(work)
    BY <2>4, <2>17, NoTask
  <2>19. Returned'
    <3>1. \A part : Gives(h, part) => part = s BY <1>1, <2>1 DEF Gives
    <3>2. Fits(s, ret)' BY <2>4, <2>6, <2>13, <2>14 DEF Fits
    <3>3. ~GivesMain(h) BY <1>1 DEF GivesMain
    <3>4. work' = Tail(work) BY <2>4, <2>5, NothingPut
    <3> QED BY <1>1, <2>5, <2>15, <3>1, <3>2, <3>3, <3>4, ReturnedNow
  <2>20. DefsWhole' BY <1>1, <1>2, <2>2, <2>4, <2>15, <2>18, DefsKept
  <2>21. LinksWhole'
    <3>1. \A u \in TypeInfos : \A i \in DOMAIN infos[u].links :
             Pending(u, i) => Pending(u, i)'
      BY <1>1, <2>4, <2>5, <2>15, PendingPast
    <3>2. LinkWhole(n, 1)'
      <4>1. PICK c, v : c = s.items /\ v = ret OBVIOUS
      <4>2. Fits(c, v)' BY <2>6, <2>15, <4>1, FitsStays
      <4>3. Part(n, 1)' = c BY <2>11, <2>14, <4>1 DEF Part
      <4>4. infos'[n].links[1] = v /\ v # NULL BY <2>2, <2>10, <2>14, <4>1
      <4> QED BY <4>2, <4>3, <4>4 DEF LinkWhole, Fits
    <3>3. \A u \in TypeInfos' \ TypeInfos : \A i \in DOMAIN infos'[u].links : LinkWhole(u, i)'
      BY <2>10, <2>13, <2>14, <3>2
    <3>4. files' = {} BY <2>2, <2>16
    <3> QED BY <2>5, <2>13, <2>15, <2>16, <3>1, <3>3, <3>4, LinksGrown
  <2>22. \A t1 \in TypeInfos' :
          /\ ~infos'[t1].named
          /\ infos'[t1].defined = IF infos'[t1].schema.is \in {"object", "array"}
                                  THEN "NOT_DEFINED" ELSE "DEFINED"
    BY <1>1, <1>2, <2>6, <2>13, <2>14, FreshGrown
  <2>23. /\ defs' \in Seq(DefRecords) /\ ret' \in 0 .. Len(infos') /\ errors' \in BOOLEAN
    BY <2>2, <2>3, <2>4, <2>5, <2>13 DEF Typed
  <2> QED BY <1>1, <1>2, <2>2, <2>4, <2>13, <2>15, <2>18, <2>19, <2>20, <2>21, <2>22, <2>23,
             EarlyStep
<1> QED BY <1>3, <1>4

-----------------------------------------------------------------------------
(***************************************************************************)
(* Where references lead.                                                  *)
(***************************************************************************)
Smaller == {x \in Nat \X Nat : x[1] < x[2]}

LEMMA SmallerWellFounded == IsWellFoundedOn(Smaller, Nat)
<1>1. OpToRel(<, Nat) = Smaller BY DEF OpToRel, Smaller
<1> QED BY <1>1, NatLessThanWellFounded, Zenon

\* Induction up to a bound: T holds 0, and with each number below m the next.
LEMMA Induction ==
    ASSUME NEW m \in Nat, NEW T \in SUBSET (0 .. m), 0 \in T,
           \A n \in T : n < m => n + 1 \in T
    PROVE  T = 0 .. m
<1> SUFFICES ASSUME (0 .. m) \ T # {} PROVE FALSE OBVIOUS
<1>1. IsWellFoundedOn(Smaller, Nat) BY SmallerWellFounded
<1>2. (0 .. m) \ T \subseteq Nat OBVIOUS
<1>3. PICK x \in (0 .. m) \ T : \A y \in (0 .. m) \ T : ~ (<<y, x>> \in Smaller)
  BY <1>1, <1>2, WFMin
<1>4. x # 0 /\ x - 1 \in 0 .. m /\ x - 1 < m /\ x - 1 < x /\ x - 1 \in Nat /\ x \in Nat
  OBVIOUS
<1>5. <<x - 1, x>> \in Smaller BY <1>4 DEF Smaller
<1>6. x - 1 \in T BY <1>3, <1>4, <1>5
<1>7. (x - 1) + 1 = x OBVIOUS
<1> QED BY <1>4, <1>6, <1>7

\* The recursive function is what its equation says.
LEMMA LeadsDefined ==
    ASSUME doc.defs \in Seq(AllSchemas)
    PROVE  Leads = [n \in 0 .. Len(doc.defs) |->
                      IF n = 0 THEN [d \in DOMAIN doc.defs |-> d]
                      ELSE [d \in DOMAIN doc.defs |-> Target(Leads[n - 1][d])]]
<1> DEFINE N == Len(doc.defs)
           D == DOMAIN doc.defs
           Up(m, f) ==
      f = [n \in 0 .. m |-> IF n = 0 THEN [d \in D |-> d]
                            ELSE [d \in D |-> Target(f[n - 1][d])]]
           T == {m \in 0 .. N : \E f : Up(m, f)}
<1>a. N \in Nat OBVIOUS
<1> HIDE DEF D, N
<1>1. 0 \in T
  <2>1. Up(0, [n \in 0 .. 0 |-> [d \in D |-> d]]) OBVIOUS
  <2>2. 0 \in 0 .. N BY <1>a
  <2> HIDE DEF Up
  <2> QED BY <2>1, <2>2
<1>2. ASSUME NEW m \in T, m < N PROVE m + 1 \in T
  <2>a. m \in Nat BY <1>a
  <2>1. PICK f : Up(m, f) OBVIOUS
  <2> DEFINE Step(e) == [d \in D |-> Target(e[d])]
             g == [n \in 0 .. m + 1 |-> IF n = m + 1 THEN Step(f[m]) ELSE f[n]]
             h == [n \in 0 .. m + 1 |-> IF n = 0 THEN [d \in D |-> d] ELSE Step(g[n - 1])]
  <2>b. f = [n \in 0 .. m |-> IF n = 0 THEN [d \in D |-> d] ELSE Step(f[n - 1])]
    BY <2>1
  <2> HIDE DEF Step
  <2>2. ASSUME NEW n \in 0 .. m + 1 PROVE g[n] = h[n]
    <3>1. CASE n = m + 1
      <4>1. g[n] = Step(f[m]) BY <3>1
      <4>2. g[m] = f[m] /\ n - 1 = m /\ n # 0 BY <2>a, <3>1
      <4> QED BY <3>1, <4>1, <4>2
    <3>2. CASE n = 0 BY <2>a, <2>b, <3>2
    <3>3. CASE n # 0 /\ n # m + 1
      <4>1. g[n] = f[n] /\ g[n - 1] = f[n - 1] BY <2>a, <3>3
      <4>2. n \in 0 .. m BY <2>a, <3>3
      <4>3. f[n] = Step(f[n - 1]) BY <2>b, <3>3, <4>2
      <4> QED BY <3>3, <4>1, <4>3
    <3> QED BY <3>1, <3>2, <3>3
  <2>3. g = h BY <2>2
  <2> HIDE DEF g
  <2>4. Up(m + 1, g) BY <2>3 DEF Step
  <2>5. m + 1 \in 0 .. N BY <1>a, <1>2
  <2> HIDE DEF Up
  <2> QED BY <2>4, <2>5
<1>3. T = 0 .. N
  <2>1. T \in SUBSET (0 .. N) OBVIOUS
  <2> HIDE DEF T
  <2> QED BY <1>a, <1>1, <1>2, <2>1, Induction
<1>4. N \in T BY <1>a, <1>3
<1>5. \E f : Up(N, f) BY <1>4
<1>6. Leads = CHOOSE f : Up(N, f) BY DEF Leads, D, N
<1> HIDE DEF Up
<1>7. Up(N, Leads) BY <1>5, <1>6
<1> QED BY <1>7 DEF Up, D, N

\* Leads, step by step, from its start and from its end.
LEMMA LeadsSteps ==
    ASSUME doc.defs \in Seq(AllSchemas)
    PROVE  /\ Len(doc.defs) \in Nat /\ DOMAIN doc.defs = 1 .. Len(doc.defs)
           /\ \A d \in DOMAIN doc.defs : Leads[0][d] = d
           /\ \A n \in 0 .. Len(doc.defs) : n < Len(doc.defs) =>
                 \A d \in DOMAIN doc.defs : /\ Leads[n + 1][d] = Target(Leads[n][d])
                                            /\ Leads[n + 1][d] = Leads[n][Target(d)]
           /\ \A n \in 0 .. Len(doc.defs) : \A d \in DOMAIN doc.defs :
                 Leads[n][d] \in DOMAIN doc.defs
<1> DEFINE N == Len(doc.defs)
           D == DOMAIN doc.defs
<1>1. N \in Nat /\ D = 1 .. N OBVIOUS
<1>2. \A d \in D : Target(d) \in D BY DEF Target
<1>3. Leads = [n \in 0 .. N |-> IF n = 0 THEN [d \in D |-> d]
                                ELSE [d \in D |-> Target(Leads[n - 1][d])]]
  BY LeadsDefined
<1> HIDE DEF N, D
<1>4. \A d \in D : Leads[0][d] = d
  <2>1. 0 \in 0 .. N BY <1>1
  <2>2. Leads[0] = [d \in D |-> d] BY <1>3, <2>1
  <2> QED BY <2>2
<1>5. ASSUME NEW n \in 0 .. N, n < N, NEW d \in D
      PROVE  Leads[n + 1][d] = Target(Leads[n][d])
  <2>1. n + 1 \in 0 .. N /\ n + 1 # 0 /\ n + 1 - 1 = n BY <1>1, <1>5
  <2>2. Leads[n + 1] = [c \in D |-> Target(Leads[n][c])] BY <1>3, <2>1
  <2> QED BY <2>2
<1> DEFINE T == {n \in 0 .. N : \A d \in D : Leads[n][d] \in D}
           U == {n \in 0 .. N : n < N => \A d \in D : Leads[n + 1][d] = Leads[n][Target(d)]}
<1>6. T = 0 .. N
  <2>1. 0 \in T BY <1>1, <1>4
  <2>2. \A n \in T : n < N => n + 1 \in T
    <3> SUFFICES ASSUME NEW n \in T, n < N PROVE n + 1 \in T OBVIOUS
    <3>1. n + 1 \in 0 .. N BY <1>1
    <3>2. \A d \in D : Leads[n + 1][d] \in D BY <1>2, <1>5
    <3> QED BY <3>1, <3>2
  <2>3. T \in SUBSET (0 .. N) OBVIOUS
  <2> HIDE DEF T
  <2> QED BY <1>1, <2>1, <2>2, <2>3, Induction
<1>7. U = 0 .. N
  <2>1. 0 \in U
    <3>1. 0 \in 0 .. N /\ 0 + 1 = 1 BY <1>1
    <3>2. ASSUME 0 < N, NEW d \in D PROVE Leads[0 + 1][d] = Leads[0][Target(d)]
      BY <1>2, <1>4, <1>5, <3>1, <3>2
    <3> QED BY <3>1, <3>2
  <2>2. \A n \in U : n < N => n + 1 \in U
    <3> SUFFICES ASSUME NEW n \in U, n < N PROVE n + 1 \in U OBVIOUS
    <3>1. n + 1 \in 0 .. N BY <1>1
    <3>2. ASSUME n + 1 < N, NEW d \in D PROVE Leads[n + 1 + 1][d] = Leads[n + 1][Target(d)]
      <4>1. Leads[n + 1 + 1][d] = Target(Leads[n + 1][d]) BY <1>5, <3>1, <3>2
      <4>2. Leads[n + 1][d] = Leads[n][Target(d)] OBVIOUS
      <4>3. Leads[n + 1][Target(d)] = Target(Leads[n][Target(d)]) BY <1>2, <1>5
      <4> QED BY <4>1, <4>2, <4>3
    <3> QED BY <3>1, <3>2
  <2>3. U \in SUBSET (0 .. N) OBVIOUS
  <2> HIDE DEF U
  <2> QED BY <1>1, <2>1, <2>2, <2>3, Induction
<1>8. \A n \in 0 .. N : n < N => \A d \in D : Leads[n + 1][d] = Leads[n][Target(d)]
  BY <1>7
<1>9. \A n \in 0 .. N : \A d \in D : Leads[n][d] \in D BY <1>6
<1> QED BY <1>1, <1>4, <1>5, <1>8, <1>9 DEF N, D

\* One more definition is settled.
LEMMA SettledMore ==
    ASSUME Typed, NEW d \in DOMAIN defs, d \notin Settled,
           Settled' = Settled \cup {d}
    PROVE  /\ Cardinality(Settled) \in Nat
           /\ Cardinality(Settled') = Cardinality(Settled) + 1
           /\ Cardinality(Settled') <= Len(defs)
<1>1. Len(defs) \in Nat /\ DOMAIN defs = 1 .. Len(defs) BY DEF Typed
<1>2. IsFiniteSet(1 .. Len(defs)) /\ Cardinality(1 .. Len(defs)) = Len(defs)
  <2>1. PICK n \in Nat : n = Len(defs) BY <1>1
  <2>2. IsFiniteSet(1 .. n) /\ Cardinality(1 .. n) = IF 1 > n THEN 0 ELSE n - 1 + 1
    BY FS_Interval
  <2>3. (IF 1 > n THEN 0 ELSE n - 1 + 1) = n OBVIOUS
  <2> QED BY <2>1, <2>2, <2>3
<1>3. Settled \subseteq 1 .. Len(defs) /\ Settled' \subseteq 1 .. Len(defs)
  BY <1>1 DEF Settled
<1>4. IsFiniteSet(Settled) BY <1>2, <1>3, FS_Subset
<1>5. Cardinality(Settled) \in Nat BY <1>4, FS_CardinalityType
<1>6. Cardinality(Settled \cup {d}) = Cardinality(Settled) + 1 BY <1>4, FS_AddElement
<1>7. Cardinality(Settled') <= Len(defs) BY <1>2, <1>3, FS_Subset
<1> QED BY <1>5, <1>6, <1>7

LEMMA AllocSchemaStep == ASSUME CompilerInv, AllocSchema PROVE CompilerInv'
<1>1. PICK h \in Tasks : First(h) /\ h.op = "alloc" /\ TaskWhole(h) /\ h = Head(work)
  BY HeadWhole DEF AllocSchema
<1>2. PICK d \in DOMAIN defs : d = h.arg BY <1>1 DEF TaskWhole, Allocating
<1>3. PICK s, name : s = doc.defs[d] /\ name = <<DefNames[d]>> OBVIOUS
<1>4. defs[d].state = "DEF_SCHEMA" /\ UNCHANGED <<header, macros, files>>
  BY <1>1, <1>2 DEF AllocSchema, KeepsOutput, Arg
<1>5. PICK t : /\ AllocType(s, name, t) /\ Returns(t)
               /\ defs' = [defs EXCEPT ![d] = [state |-> "DEF_SCHEMA_TYPE", type |-> t]]
  BY <1>1, <1>2, <1>3 DEF AllocSchema, Arg
<1>6. work' = <<>> \o Tail(work) /\ ret' = t /\ UNCHANGED <<doc, exit>>
  BY <1>5, Zenon DEF Returns, Then
<1>7. /\ Typed /\ TypesWhole /\ TasksWhole /\ Returned /\ DefsWhole /\ LinksWhole
      /\ work \in Seq(Tasks) /\ work # <<>> /\ work[1] = h /\ DOMAIN defs = 1 .. Len(defs)
      /\ defs \in Seq(DefRecords)
  BY <1>1 DEF CompilerInv, Typed, First
<1>8. DOMAIN defs = DOMAIN doc.defs
  <2>1. defs # <<>> OBVIOUS
  <2> QED BY <1>7, <2>1 DEF TasksWhole, Started
<1>9. s \in AllSchemas /\ name \in Names /\ doc.defs \in Seq(AllSchemas)
  <2>1. /\ doc.defs \in Seq(AllSchemas)
        /\ \A c \in DOMAIN doc.defs : <<DefNames[c]>> \in Names
    BY <1>7, DocTyped DEF Typed
  <2>2. d \in DOMAIN doc.defs BY <1>8
  <2>3. doc.defs[d] \in AllSchemas BY <2>1, <2>2
  <2>4. <<DefNames[d]>> \in Names BY <2>1, <2>2
  <2> QED BY <1>3, <2>1, <2>3, <2>4, Zenon
<1>10. /\ infos' \in Seq(TypeRecords) /\ TypesWhole'
       /\ TypeInfos \subseteq TypeInfos' /\ t \in 0 .. Len(infos')
       /\ \A u \in TypeInfos : infos'[u] = infos[u]
       /\ errors' \in BOOLEAN /\ (errors => errors')
       /\ \/ t = NULL /\ errors'
          \/ t \in TypeInfos' /\ infos'[t].schema = s
       /\ s.is \notin {"ref", "badref"}
       /\ \A u \in TypeInfos' \ TypeInfos :
             /\ u = t /\ ~infos'[u].named /\ infos'[u].defined = "NOT_DEFINED"
             /\ infos'[u].schema.is \in {"object", "array"}
             /\ \A i \in DOMAIN infos'[u].links : infos'[u].links[i] = NULL
  BY <1>4, <1>5, <1>7, <1>9, Allocated
<1>11. /\ defs' \in Seq(DefRecords) /\ DOMAIN defs' = DOMAIN defs
       /\ \A e \in DOMAIN defs : e # d => defs'[e] = defs[e]
       /\ defs'[d].state = "DEF_SCHEMA_TYPE" /\ defs'[d].type = t
  <2>1. PICK r : r = [state |-> "DEF_SCHEMA_TYPE", type |-> t] OBVIOUS
  <2>2. t \in Nat BY <1>10
  <2>3. r \in DefRecords /\ r.state = "DEF_SCHEMA_TYPE" /\ r.type = t
    BY <2>1, <2>2 DEF DefRecords, DefStates
  <2>4. defs' = [defs EXCEPT ![d] = r] BY <1>5, <2>1
  <2> QED BY <1>7, <2>3, <2>4
<1>12. d \notin Settled /\ Settled' = Settled \cup {d} BY <1>4, <1>11 DEF Settled
<1>13. Keeps
  <2>1. Settled \subseteq DOMAIN defs BY DEF Settled
  <2> QED BY <1>6, <1>10, <1>11, <1>12, <2>1 DEF Keeps
<1>14. h.op \in Allocating /\ h.op \notin Defining \cup {"exit"}
  BY <1>1 DEF Allocating, Defining
<1>15. files = {} /\ exit = "running" BY <1>1, <1>14, Early
<1>16. NULL \notin TypeInfos' BY DEF NULL, TypeInfos
<1>17. Fits(s, t)' BY <1>10 DEF Fits
<1>18. PICK ts : ts = <<>> OBVIOUS
<1>19. ts \in Seq(Tasks) /\ ToSet(ts) = {} /\ work' = ts \o Tail(work) BY <1>6, <1>18, NoTask
<1>20. Returned'
  <2>1. ASSUME NEW part, Gives(h, part) PROVE Fits(part, ret)'
    <3>1. part.is = "ref" /\ part.to = d BY <1>1, <1>2, <2>1 DEF Gives
    <3>2. (t = NULL /\ errors') \/ t \in TypeInfos' BY <1>10
    <3>3. d \in Settled' BY <1>12
    <3> QED BY <1>6, <1>11, <3>1, <3>2, <3>3 DEF Fits
  <2>2. ~GivesMain(h) BY <1>1 DEF GivesMain
  <2>3. work' = Tail(work) BY <1>6, <1>7, NothingPut
  <2> QED BY <1>1, <1>7, <1>13, <2>1, <2>2, <2>3, ReturnedNow
<1>21. DefWhole(d)'
  <2>1. Fits(doc.defs[d], defs[d].type)'
    BY <1>3, <1>6, <1>11, <1>17 DEF Fits
  <2>2. LeadsTo(d, d)'
    <3>1. doc.defs' = doc.defs /\ Leads' = Leads BY <1>6 DEF Leads, Target
    <3>2. Leads[0][d] = d /\ 0 \in 0 .. Len(doc.defs) BY <1>8, <1>9, LeadsSteps
    <3>3. Cardinality(Settled) \in Nat /\ Cardinality(Settled') = Cardinality(Settled) + 1
      BY <1>7, <1>12, SettledMore
    <3>4. \A n \in Nat : 0 < n + 1 OBVIOUS
    <3>5. 0 < Cardinality(Settled') BY <3>3, <3>4
    <3> QED BY <3>1, <3>2, <3>5 DEF LeadsTo
  <2>3. doc'.defs[d].is \notin {"ref", "badref"} BY <1>3, <1>6, <1>10
  <2>4. d \in Settled' BY <1>12
  <2> QED BY <1>11, <2>1, <2>2, <2>3, <2>4 DEF DefWhole
<1>22. DefsWhole' BY <1>1, <1>2, <1>4, <1>6, <1>11, <1>13, <1>21, DefsLeft
<1>23. LinksWhole'
  <2>1. \A u \in TypeInfos : \A i \in DOMAIN infos[u].links : Pending(u, i) => Pending(u, i)'
    BY <1>1, <1>6, <1>7, <1>13, PendingPast
  <2>2. Due("fill_definition", d)'
    <3>1. Due("fill_definition", d) BY <1>7, <1>14 DEF DefsWhole
    <3> QED BY <1>1, <1>7, <1>19, <3>1, DueStays
  <2>3. \A u \in TypeInfos' \ TypeInfos : \A i : Pending(u, i)'
    BY <1>10, <1>11, <2>2 DEF Pending
  <2>4. \A u \in TypeInfos' \ TypeInfos : \A i \in DOMAIN infos'[u].links : LinkWhole(u, i)'
    BY <1>4, <1>10, <1>15, <2>3 DEF LinkWhole
  <2>5. files' = {} BY <1>4, <1>15
  <2> QED BY <1>7, <1>10, <1>13, <1>15, <2>1, <2>4, <2>5, LinksGrown
<1>24. \A u \in TypeInfos' :
          /\ ~infos'[u].named
          /\ infos'[u].defined = IF infos'[u].schema.is \in {"object", "array"}
                                 THEN "NOT_DEFINED" ELSE "DEFINED"
  BY <1>1, <1>10, <1>14, FreshGrown
<1>25. ret' \in 0 .. Len(infos') BY <1>6, <1>10
<1> QED BY <1>1, <1>4, <1>6, <1>10, <1>11, <1>13, <1>14, <1>19, <1>20, <1>22, <1>23, <1>24,
           <1>25, EarlyStep

LEMMA ResolvedStep == ASSUME CompilerInv, Resolved PROVE CompilerInv'
<1>1. PICK h \in Tasks : First(h) /\ h.op = "resolved" /\ TaskWhole(h) /\ h = Head(work)
  BY HeadWhole DEF Resolved
<1>2. PICK d \in DOMAIN defs : d = h.arg BY <1>1 DEF TaskWhole, Allocating
<1>3. PICK r : r = [state |-> IF ret = NULL THEN "DEF_ERROR" ELSE "DEF_TYPE", type |-> ret]
  OBVIOUS
<1>4. /\ work' = <<>> \o Tail(work) /\ defs' = [defs EXCEPT ![d] = r]
      /\ UNCHANGED <<doc, exit, ret, infos, errors, header, macros, files>>
  BY <1>1, <1>2, <1>3 DEF Resolved, Returns, Then, KeepsOutput, NoError, Arg
<1>5. /\ Typed /\ TypesWhole /\ TasksWhole /\ Returned /\ DefsWhole /\ LinksWhole
      /\ work \in Seq(Tasks) /\ work # <<>> /\ work[1] = h /\ 1 \in DOMAIN work
      /\ DOMAIN defs = 1 .. Len(defs)
      /\ defs \in Seq(DefRecords) /\ ret \in 0 .. Len(infos) /\ Len(infos) \in Nat
      /\ infos \in Seq(TypeRecords) /\ errors \in BOOLEAN
  BY <1>1 DEF CompilerInv, Typed, First
<1>6. DOMAIN defs = DOMAIN doc.defs
  <2>1. defs # <<>> OBVIOUS
  <2> QED BY <1>5, <2>1 DEF TasksWhole, Started
<1>7. doc.defs \in Seq(AllSchemas) BY <1>5, DocTyped DEF Typed
<1>8. defs[d].state = "DEF_RESOLVING" BY <1>1, <1>2, <1>5 DEF DefsWhole
<1>9. PICK s : s = doc.defs[d] OBVIOUS
<1>10. s.is = "ref" /\ s.to \in DOMAIN defs BY <1>5, <1>8, <1>9 DEF DefsWhole, DefWhole
<1>11. Fits(s, ret)
  <2>1. Ready(h) BY <1>1, <1>5 DEF Returned
  <2> QED BY <1>1, <1>2, <1>9, <2>1 DEF Ready, Awaits, Awaited
<1>12. /\ r \in DefRecords /\ r.type = ret
       /\ r.state = IF ret = NULL THEN "DEF_ERROR" ELSE "DEF_TYPE"
  <2>1. ret \in Nat BY <1>5
  <2> QED BY <1>3, <2>1 DEF DefRecords, DefStates
<1>13. /\ defs' \in Seq(DefRecords) /\ DOMAIN defs' = DOMAIN defs
       /\ \A e \in DOMAIN defs : e # d => defs'[e] = defs[e]
       /\ defs'[d] = r
  BY <1>4, <1>5, <1>12
<1>14. d \notin Settled BY <1>8 DEF Settled
<1>15. /\ ret # NULL => Settled' = Settled \cup {d}
       /\ ret = NULL => Settled' = Settled
  BY <1>12, <1>13, <1>14 DEF Settled
<1>16. Keeps BY <1>4, <1>13, <1>14, <1>15 DEF Keeps, TypeInfos
<1>17. h.op \in Allocating /\ h.op \notin Defining \cup {"exit"}
  BY <1>1 DEF Allocating, Defining
<1>18. files = {} /\ exit = "running" /\ Fresh BY <1>1, <1>17, Early
<1>19. PICK ts : ts = <<>> OBVIOUS
<1>20. ts \in Seq(Tasks) /\ ToSet(ts) = {} /\ work' = ts \o Tail(work) BY <1>4, <1>19, NoTask
<1>21. Fits(s, ret)'
  <2>1. PICK t : t = ret OBVIOUS
  <2>2. Fits(s, t)' BY <1>11, <1>16, <2>1, FitsStays
  <2> QED BY <1>4, <2>1, <2>2 DEF Fits
<1>22. Returned'
  <2>1. ASSUME NEW part, Gives(h, part) PROVE Fits(part, ret)'
    <3>1. part.is = "ref" /\ part.to = d BY <1>1, <1>2, <2>1 DEF Gives
    <3>2. CASE ret = NULL BY <1>4, <1>11, <3>2 DEF Fits, TypeInfos, NULL
    <3>3. CASE ret # NULL
      <4>1. ret' \in TypeInfos' BY <1>4, <1>5, <3>3 DEF TypeInfos, NULL
      <4>2. d \in Settled' /\ defs'[d].type = ret' BY <1>4, <1>12, <1>13, <1>15, <3>3
      <4> QED BY <3>1, <4>1, <4>2 DEF Fits
    <3> QED BY <3>2, <3>3
  <2>2. ~GivesMain(h) BY <1>1 DEF GivesMain
  <2>3. work' = Tail(work) BY <1>4, <1>5, NothingPut
  <2> QED BY <1>1, <1>5, <1>16, <2>1, <2>2, <2>3, ReturnedNow
<1>23. DefWhole(d)'
  <2>1. CASE ret = NULL
    <3>1. errors' BY <1>4, <1>11, <2>1 DEF Fits, TypeInfos, NULL
    <3>2. d \notin Settled' BY <1>14, <1>15, <2>1
    <3>3. defs'[d].type = NULL /\ defs'[d].state = "DEF_ERROR" BY <1>12, <1>13, <2>1
    <3> QED BY <3>1, <3>2, <3>3 DEF DefWhole
  <2>2. CASE ret # NULL
    <3>1. d \in Settled' /\ defs'[d].type = ret /\ defs'[d].state = "DEF_TYPE"
      BY <1>12, <1>13, <1>15, <2>2
    <3>2. s.to \in Settled /\ defs[s.to].type = ret
      BY <1>10, <1>11, <2>2 DEF Fits
    <3>3. PICK e \in DOMAIN defs : /\ defs[e].state = "DEF_SCHEMA_TYPE" /\ defs[e].type = ret
                                   /\ LeadsTo(s.to, e)
      BY <1>5, <1>10, <2>2, <3>2 DEF DefsWhole, DefWhole
    <3>4. LeadsTo(d, e)'
      <4>1. PICK n \in 0 .. Len(doc.defs) : n < Cardinality(Settled) /\ Leads[n][s.to] = e
        BY <3>3 DEF LeadsTo
      <4>2. /\ Cardinality(Settled) \in Nat
            /\ Cardinality(Settled') = Cardinality(Settled) + 1
            /\ Cardinality(Settled') <= Len(defs)
        BY <1>5, <1>14, <1>15, <2>2, SettledMore
      <4>3. Len(defs) = Len(doc.defs) /\ Len(doc.defs) \in Nat BY <1>5, <1>6, <1>7
      <4>4. \A m, c, l \in Nat : m < c /\ c + 1 <= l =>
               m < l /\ m + 1 \in 0 .. l /\ m + 1 < c + 1
        OBVIOUS
      <4>5. n \in Nat BY <4>1
      <4>6. n < Len(doc.defs) /\ n + 1 \in 0 .. Len(doc.defs) /\ n + 1 < Cardinality(Settled')
        BY <4>1, <4>2, <4>3, <4>4, <4>5
      <4>7. Target(d) = s.to BY <1>6, <1>9, <1>10 DEF Target
      <4>8. Leads[n + 1][d] = e
        <5>1. n < Len(doc.defs) /\ d \in DOMAIN doc.defs BY <1>6, <4>6
        <5>2. Leads[n + 1][d] = Leads[n][Target(d)] BY <1>7, <5>1, LeadsSteps
        <5> QED BY <4>1, <4>7, <5>2, Zenon
      <4>9. doc.defs' = doc.defs /\ Leads' = Leads BY <1>4 DEF Leads, Target
      <4> QED BY <4>6, <4>8, <4>9 DEF LeadsTo
    <3>5. defs'[e].state = "DEF_SCHEMA_TYPE" /\ defs'[e].type = ret /\ e \in DOMAIN defs'
      BY <1>8, <1>13, <3>3
    <3>6. Fits(doc.defs[d], defs[d].type)'
      BY <1>4, <1>9, <1>21, <3>1 DEF Fits
    <3>7. doc'.defs[d].is = "ref" /\ doc'.defs[d].to \in DOMAIN defs'
      BY <1>4, <1>9, <1>10, <1>13
    <3> QED BY <2>2, <3>1, <3>4, <3>5, <3>6, <3>7 DEF DefWhole
  <2> QED BY <2>1, <2>2
<1>24. DefsWhole' BY <1>1, <1>2, <1>4, <1>13, <1>16, <1>23, DefsLeft
<1>25. LinksWhole'
  <2>1. \A u \in TypeInfos : \A i \in DOMAIN infos[u].links : Pending(u, i) => Pending(u, i)'
    BY <1>1, <1>4, <1>5, <1>16, PendingPast
  <2>2. files' = {} /\ TypeInfos' = TypeInfos BY <1>4, <1>18 DEF TypeInfos
  <2> QED BY <1>4, <1>5, <1>16, <1>18, <2>1, <2>2, LinksGrown
<1>26. \A u \in TypeInfos' :
          /\ ~infos'[u].named
          /\ infos'[u].defined = IF infos'[u].schema.is \in {"object", "array"}
                                 THEN "NOT_DEFINED" ELSE "DEFINED"
  BY <1>4, <1>18, FreshTypes DEF TypeInfos
<1>27. TypesWhole' BY <1>4, <1>5 DEF TypesWhole, TypeInfos
<1>28. ret' \in 0 .. Len(infos') /\ errors' \in BOOLEAN /\ infos' \in Seq(TypeRecords)
  BY <1>4, <1>5
<1> QED BY <1>1, <1>4, <1>13, <1>16, <1>17, <1>20, <1>22, <1>24, <1>25, <1>26, <1>27, <1>28,
           EarlyStep

-----------------------------------------------------------------------------
(***************************************************************************)
(* The start and the end.                                                  *)
(***************************************************************************)
\* The types that are there from the start.
LEMMA BuiltinTyped ==
    /\ Builtin \in Seq(TypeRecords) /\ Len(Builtin) = 2 /\ DOMAIN Builtin = {1, 2}
    /\ Builtin[1].schema = Scalar /\ Builtin[2].schema = AnyValue
    /\ Builtin[2].base_name = <<"eu_variant">>
    /\ \A t \in 1 .. 2 : /\ Builtin[t].links = <<>> /\ ~Builtin[t].named
                         /\ Builtin[t].defined = "DEFINED"
                         /\ Subschemas(Builtin[t].schema) = <<>>
                         /\ Builtin[t].schema.is \notin {"object", "array"}
<1>1. PICK a, b : a = TypeInfo(Scalar, <<"eu_string">>, <<>>)
                  /\ b = TypeInfo(AnyValue, <<"eu_variant">>, <<>>)
  OBVIOUS
<1>2. Scalar.is = "scalar" /\ AnyValue.is = "any" BY DEF Scalar, AnyValue
<1>3. Scalar \in AllSchemas /\ AnyValue \in AllSchemas BY DEF AllSchemas
<1>4. <<"eu_string">> \in Names /\ <<"eu_variant">> \in Names BY DEF Names, Words
<1>5. /\ a.schema = Scalar /\ a.base_name = <<"eu_string">> /\ a.links = <<>>
      /\ ~a.named /\ a.defined = "DEFINED" /\ a \in TypeRecords
  BY <1>1, <1>2, <1>3, <1>4 DEF TypeInfo, TypeRecords
<1>6. /\ b.schema = AnyValue /\ b.base_name = <<"eu_variant">> /\ b.links = <<>>
      /\ ~b.named /\ b.defined = "DEFINED" /\ b \in TypeRecords
  BY <1>1, <1>2, <1>3, <1>4 DEF TypeInfo, TypeRecords
<1>7. Builtin = <<a, b>> BY <1>1 DEF Builtin
<1>8. Builtin \in Seq(TypeRecords) /\ Len(Builtin) = 2 /\ DOMAIN Builtin = {1, 2}
      /\ Builtin[1] = a /\ Builtin[2] = b
  BY <1>5, <1>6, <1>7
<1>9. Subschemas(Scalar) = <<>> /\ Subschemas(AnyValue) = <<>>
  BY <1>2, <1>3, SubschemasTyped
<1> QED BY <1>2, <1>5, <1>6, <1>8, <1>9

LEMMA IncludedTyped ==
    /\ Included \in Seq(Declarations) /\ Len(Included) = 1 /\ DOMAIN Included = {1}
    /\ Included[1].what = "struct" /\ Included[1].type = 0
<1>1. <<"eu_variant", "array">> \in Names BY DEF Names, Words
<1> QED BY <1>1 DEF Included, Declarations, NULL

LEMMA InitStep == InitCompiler => CompilerInv
<1> SUFFICES ASSUME InitCompiler PROVE CompilerInv OBVIOUS
<1>1. /\ doc \in Documents /\ defs = <<>> /\ infos = Builtin
      /\ work = Task("parse", NULL) /\ ret = 0 /\ errors = FALSE
      /\ header = Included /\ macros = {<<"eu_variant">>} /\ files = {}
      /\ exit = "running"
  BY DEF InitCompiler, NULL
<1>2. PICK x : x = [op |-> "parse", arg |-> 0] OBVIOUS
<1>3. x.op = "parse" /\ x \in Tasks BY <1>2 DEF Tasks, Ops, Opening
<1>4. work = <<x>> BY <1>1, <1>2 DEF Task, NULL
<1>5. work \in Seq(Tasks) /\ Len(work) = 1 /\ DOMAIN work = {1} /\ work[1] = x
      /\ ToSet(work) = {x}
  <2>1. work \in Seq(Tasks) /\ Len(work) = 1 /\ DOMAIN work = {1} /\ work[1] = x
    BY <1>3, <1>4
  <2> QED BY <2>1 DEF ToSet
<1>6. TypeInfos = 1 .. 2 /\ Len(infos) = 2 BY <1>1, BuiltinTyped DEF TypeInfos
<1>7. Typed
  <2>1. /\ infos \in Seq(TypeRecords) /\ header \in Seq(Declarations)
        /\ defs \in Seq(DefRecords)
    BY <1>1, BuiltinTyped, IncludedTyped
  <2>2. ret \in 0 .. Len(infos) BY <1>1, <1>6
  <2>3. /\ errors \in BOOLEAN /\ files \subseteq {"c", "h"}
        /\ exit \in {"running", "ok", "error", "crashed", "gone"}
    BY <1>1
  <2> QED BY <1>1, <1>5, <2>1, <2>2, <2>3 DEF Typed
<1>8. TypesWhole
  <2>1. \A t \in TypeInfos : /\ infos[t].links = <<>>
                             /\ Subschemas(infos[t].schema) = <<>>
                             /\ infos[t].schema.is # "object"
    BY <1>1, <1>6, BuiltinTyped
  <2>2. \A t \in TypeInfos : infos[t].base_name = Tag(infos[t].schema, infos[t].base_name)
    BY <2>1 DEF Tag
  <2>3. 2 \in TypeInfos BY <1>6
  <2> QED BY <1>1, <1>6, <2>1, <2>2, <2>3, BuiltinTyped, IncludedTyped DEF TypesWhole
<1>9. Ordered
  <2>1. Rank("parse") <= Rank("parse") BY Ranks DEF Opening
  <2> QED BY <1>3, <1>5, <2>1 DEF Ordered, Ops, Opening
<1>10. TasksWhole
  <2>1. TaskWhole(x) BY <1>3 DEF TaskWhole, Allocating
  <2>2. Started BY <1>1, <1>3, <1>5 DEF Started, Opening
  <2> QED BY <1>1, <1>5, <2>1, <2>2 DEF TasksWhole, NULL
<1>11. Returned
  <2>1. \A y \in Tasks : First(y) => y.op = "parse" BY <1>3, <1>5 DEF First
  <2>2. \A y : ~\E z : Adjacent(z, y) BY <1>5 DEF Adjacent
  <2> QED BY <2>1, <2>2 DEF Returned, Ready, Awaits
<1>12. DefsWhole BY <1>1, <1>3, <1>5 DEF DefsWhole, Allocating
<1>13. LinksWhole BY <1>1, <1>6, BuiltinTyped DEF LinksWhole
<1>14. Fresh
  <2>1. \A k \in DOMAIN work : work[k].op = "parse" BY <1>3, <1>5
  <2>2. \A t \in TypeInfos : ~infos[t].named /\ infos[t].defined = "DEFINED" /\ ~IsGenerated(t)
    BY <1>1, <1>6, BuiltinTyped DEF IsGenerated, IsStruct, IsArray
  <2> QED BY <1>1, <2>1, <2>2 DEF Fresh, Defining
<1>15. ~Late BY <1>1 DEF Late
<1> QED BY <1>7, <1>8, <1>9, <1>10, <1>11, <1>12, <1>13, <1>14, <1>15 DEF CompilerInv, HeaderInv

\* Nothing is left but the files.
LEMMA DieStep == ASSUME CompilerInv, Die PROVE CompilerInv'
<1>1. /\ doc' = EmptyDocument /\ defs' = <<>> /\ infos' = Builtin
      /\ work' = <<>> /\ ret' = 0 /\ errors' = FALSE
      /\ header' = Included /\ macros' = {} /\ files' = files
      /\ exit' = "gone"
  BY DEF Die, Gone, NULL
<1>2. work' \in Seq(Tasks) /\ DOMAIN work' = {} /\ ToSet(work') = {} BY <1>1, NoTask
<1>3. TypeInfos' = 1 .. 2 /\ Len(infos') = 2 BY <1>1, BuiltinTyped DEF TypeInfos
<1>4. Typed'
  <2>1. files \subseteq {"c", "h"} BY DEF CompilerInv, Typed
  <2>2. /\ infos' \in Seq(TypeRecords) /\ header' \in Seq(Declarations)
        /\ defs' \in Seq(DefRecords)
    BY <1>1, BuiltinTyped, IncludedTyped
  <2>3. ret' \in 0 .. Len(infos') BY <1>1, <1>3
  <2>4. /\ errors' \in BOOLEAN /\ files' \subseteq {"c", "h"}
        /\ exit' \in {"running", "ok", "error", "crashed", "gone"}
    BY <1>1, <2>1
  <2> QED BY <1>1, <1>2, <2>2, <2>3, <2>4 DEF Typed
<1>5. TypesWhole'
  <2>1. \A t \in TypeInfos' : /\ infos'[t].links = <<>>
                              /\ Subschemas(infos'[t].schema) = <<>>
                              /\ infos'[t].schema.is # "object"
    BY <1>1, <1>3, BuiltinTyped
  <2>2. \A t \in TypeInfos' :
           infos'[t].base_name = Tag(infos'[t].schema, infos'[t].base_name)
    BY <2>1 DEF Tag
  <2> QED BY <1>1, <1>3, <2>1, <2>2, BuiltinTyped, IncludedTyped DEF TypesWhole
<1>6. Ordered' BY <1>2 DEF Ordered
<1>7. TasksWhole' BY <1>1, <1>2 DEF TasksWhole, Started, EmptyDocument
<1>8. Returned' BY <1>1, <1>2 DEF Returned, First, Adjacent
<1>9. DefsWhole' BY <1>1, <1>2 DEF DefsWhole
<1>10. LinksWhole' BY <1>1, <1>3, BuiltinTyped DEF LinksWhole
<1>11. Fresh'
  <2>1. \A t \in TypeInfos' : ~infos'[t].named /\ infos'[t].defined = "DEFINED"
                              /\ ~IsGenerated(t)'
    BY <1>1, <1>3, BuiltinTyped DEF IsGenerated, IsStruct, IsArray
  <2> QED BY <1>1, <1>2, <2>1 DEF Fresh
<1>12. ~Late' BY <1>1 DEF Late
<1> QED BY <1>4, <1>5, <1>6, <1>7, <1>8, <1>9, <1>10, <1>11, <1>12 DEF CompilerInv, HeaderInv

\* One call is left, of those before and after the definitions.
LEMMA OneLeft ==
    ASSUME NEW op \in Opening \cup {"exit"}, Typed, NEW h, First(h), Len(work) = 1,
           work' = Task(op, 0) \o Tail(work)
    PROVE  /\ work' \in Seq(Tasks) /\ Len(work') = 1 /\ DOMAIN work' = {1}
           /\ work'[1].op = op /\ \A x \in ToSet(work') : x.op = op
           /\ Ordered' /\ \A x \in ToSet(work') : TaskWhole(x)'
           /\ Returned'
<1>1. PICK x, ts : x = [op |-> op, arg |-> 0] /\ ts = Task(op, 0) OBVIOUS
<1>2. op \in Ops /\ 0 \in Nat BY DEF Ops
<1>3. ts \in Seq(Tasks) /\ Len(ts) = 1 /\ ts[1] = x BY <1>1, <1>2, OneTask
<1>4. x.op = op /\ x \in Tasks BY <1>1, <1>2 DEF Tasks
<1>5. Tail(work) \in Seq(Tasks) /\ Len(Tail(work)) = 0 BY DEF Typed, First
<1>6. work' \in Seq(Tasks) /\ Len(work') = 1 /\ DOMAIN work' = {1} /\ work'[1] = x
  BY <1>1, <1>3, <1>5
<1>7. ToSet(work') = {x} BY <1>6 DEF ToSet
<1>8. Ordered'
  <2>1. Rank(op) <= Rank(op) BY Ranks
  <2> QED BY <1>2, <1>4, <1>6, <2>1 DEF Ordered
<1>9. TaskWhole(x)' BY <1>4 DEF TaskWhole, Allocating, Opening
<1>10. Returned'
  <2>1. \A y \in Tasks : First(y)' => y.op = op BY <1>4, <1>6 DEF First
  <2>2. \A y : ~\E z : Adjacent(z, y)' BY <1>6 DEF Adjacent
  <2> QED BY <2>1, <2>2 DEF Returned, Ready, Awaits, Opening
<1> QED BY <1>4, <1>6, <1>7, <1>8, <1>9, <1>10

LEMMA AllKept ==
    ASSUME UNCHANGED <<doc, defs, infos>>, errors => errors'
    PROVE  Keeps
BY DEF Keeps, TypeInfos, Settled

\* The program is about to end with an error, before anything is generated.
LEMMA EndingStep ==
    ASSUME CompilerInv, NEW h, First(h), Len(work) = 1, h.op \in {"parse", "codegen"},
           work' = Task("exit", 0) \o Tail(work), errors', errors' \in BOOLEAN,
           files' \subseteq {"c"}, h.op = "parse" \/ errors => files' = files,
           UNCHANGED <<doc, exit, ret, defs, infos, header, macros>>
    PROVE  CompilerInv'
<1>1. /\ Typed /\ TypesWhole /\ TasksWhole /\ Returned /\ DefsWhole /\ LinksWhole
      /\ work \in Seq(Tasks) /\ work # <<>> /\ work[1] = h
      /\ DOMAIN defs = 1 .. Len(defs) /\ \A k \in DOMAIN work : k = 1
  BY DEF CompilerInv, Typed, First
<1>2. /\ work' \in Seq(Tasks) /\ Len(work') = 1 /\ DOMAIN work' = {1}
      /\ work'[1].op = "exit" /\ \A x \in ToSet(work') : x.op = "exit"
      /\ Ordered' /\ \A x \in ToSet(work') : TaskWhole(x)'
      /\ Returned'
  BY <1>1, OneLeft
<1>3. files = {} /\ exit = "running" /\ Fresh BY Early DEF Defining
<1>4. Keeps BY AllKept
<1>5. Typed' BY <1>1, <1>2 DEF Typed
<1>6. TypesWhole' BY <1>1 DEF TypesWhole, TypeInfos
<1>7. TasksWhole'
  <2>1. h.op = "codegen" => DOMAIN defs = DOMAIN doc.defs
    BY <1>1 DEF TasksWhole, Started, Opening
  <2>2. Started' BY <1>1, <1>2, <1>3, <2>1 DEF TasksWhole, Started, Opening
  <2> QED BY <1>2, <1>3, <2>2 DEF TasksWhole, Opening
<1>8. DefsWhole'
  <2>1. \A op, arg : Due(op, arg) => op = h.op BY <1>1 DEF Due
  <2>2. ASSUME NEW d \in DOMAIN defs PROVE DefWhole(d)'
    <3>1. DefWhole(d) BY <1>1 DEF DefsWhole
    <3>2. defs[d].state \notin {"DEF_SCHEMA", "DEF_REF", "DEF_RESOLVING"}
      BY <1>3, <2>1, <3>1 DEF DefWhole
    <3> QED BY <1>1, <1>3, <1>4, <3>1, <3>2, DefStays
  <2> QED BY <1>2, <2>2 DEF DefsWhole, Allocating
<1>9. LinksWhole'
  <2>1. ASSUME NEW t \in TypeInfos, NEW i \in DOMAIN infos[t].links PROVE LinkWhole(t, i)'
    <3>1. LinkWhole(t, i) BY <1>1 DEF LinksWhole
    <3>2. ~Pending(t, i) BY <1>1 DEF Pending, Due
    <3>3. CASE infos[t].links[i] # NULL BY <1>4, <3>1, <3>3, LinkStays
    <3>4. CASE infos[t].links[i] = NULL
      <4>1. Part(t, i) = None \/ errors BY <1>3, <3>1, <3>2, <3>4 DEF LinkWhole
      <4>2. Part(t, i)' = Part(t, i) BY DEF Part
      <4> QED BY <1>3, <3>4, <4>1, <4>2 DEF LinkWhole
    <3> QED BY <3>3, <3>4
  <2> QED BY <2>1 DEF LinksWhole, TypeInfos
<1>10. HeaderInv'
  <2>1. \A k \in DOMAIN work' : work'[k].op = "exit" BY <1>2
  <2>2. \A t \in TypeInfos : (IsGenerated(t))' = IsGenerated(t)
    BY DEF IsGenerated, IsStruct, IsArray
  <2>3. Fresh' BY <1>3, <2>1, <2>2 DEF Fresh, TypeInfos, Defining
  <2>4. ~Late' BY DEF Late
  <2> QED BY <2>3, <2>4 DEF HeaderInv
<1> QED BY <1>2, <1>5, <1>6, <1>7, <1>8, <1>9, <1>10 DEF CompilerInv

LEMMA ParseSchemaFileStep == ASSUME CompilerInv, ParseSchemaFile PROVE CompilerInv'
<1>1. PICK h \in Tasks : First(h) /\ h.op = "parse" /\ TaskWhole(h) /\ h = Head(work)
  BY HeadWhole DEF ParseSchemaFile
<1>2. UNCHANGED <<doc, exit, ret, defs, infos, header, macros, files>>
  BY DEF ParseSchemaFile, KeepsTypes, KeepsOutput
<1>3. /\ Typed /\ TypesWhole /\ TasksWhole /\ Returned /\ DefsWhole /\ LinksWhole
      /\ work \in Seq(Tasks) /\ work # <<>> /\ work[1] = h
      /\ DOMAIN defs = 1 .. Len(defs)
  BY <1>1 DEF CompilerInv, Typed, First
<1>4. infos = Builtin /\ Len(work) = 1 /\ ret = NULL /\ ~errors
  BY <1>1, <1>3 DEF TasksWhole, Opening
<1>5. CASE work' = Task("exit", NULL) \o Tail(work) /\ Error
  <2>1. work' = Task("exit", 0) \o Tail(work) /\ errors' = TRUE
    BY <1>5, Zenon DEF Error, NULL
  <2>2. files = {} BY <1>1, Early DEF Defining
  <2> QED BY <1>1, <1>2, <1>4, <2>1, <2>2, EndingStep
<1>6. CASE work' = Task("process", NULL) \o Tail(work) /\ NoError
  <2>1. work' = Task("process", 0) \o Tail(work) /\ errors' = errors
    BY <1>6, Zenon DEF NoError, NULL
  <2>2. /\ work' \in Seq(Tasks) /\ Len(work') = 1 /\ DOMAIN work' = {1}
        /\ work'[1].op = "process" /\ \A x \in ToSet(work') : x.op = "process"
        /\ Ordered' /\ \A x \in ToSet(work') : TaskWhole(x)'
        /\ Returned'
    BY <1>1, <1>3, <1>4, <2>1, OneLeft DEF Opening
  <2>3. files = {} /\ exit = "running" /\ Fresh BY <1>1, Early DEF Defining
  <2>4. Keeps BY <1>2, <2>1, AllKept
  <2>5. Typed' BY <1>2, <1>3, <2>1, <2>2 DEF Typed
  <2>6. TypesWhole' BY <1>2, <1>3 DEF TypesWhole, TypeInfos
  <2>7. TasksWhole'
    <3>1. Started' BY <1>2, <1>3, <2>2, <2>3 DEF TasksWhole, Started, Opening
    <3> QED BY <1>2, <1>4, <2>1, <2>2, <2>3, <3>1 DEF TasksWhole
  <2>8. DefsWhole'
    <3>1. ASSUME NEW d \in DOMAIN defs PROVE DefWhole(d)'
      <4>1. DefWhole(d) BY <1>3 DEF DefsWhole
      <4>2. ~Due("alloc", d) /\ ~Due("resolved", d)
        <5>1. \A k \in DOMAIN work : k = 1 BY <1>3, <1>4
        <5> QED BY <1>1, <1>3, <5>1 DEF Due
      <4>3. defs[d].state \notin {"DEF_SCHEMA", "DEF_REF", "DEF_RESOLVING"}
        BY <2>3, <4>1, <4>2 DEF DefWhole
      <4> QED BY <1>2, <1>3, <2>3, <2>4, <4>1, <4>3, DefStays
    <3> QED BY <1>2, <2>2, <3>1 DEF DefsWhole, Allocating
  <2>9. LinksWhole' BY <1>2, <1>4, BuiltinTyped DEF LinksWhole, TypeInfos
  <2>10. HeaderInv'
    <3>1. \A k \in DOMAIN work' : work'[k].op = "process" BY <2>2
    <3>2. \A t \in TypeInfos : (IsGenerated(t))' = IsGenerated(t)
      BY <1>2 DEF IsGenerated, IsStruct, IsArray
    <3>3. Fresh' BY <1>2, <2>3, <3>1, <3>2 DEF Fresh, TypeInfos, Defining
    <3>4. ~Late' BY <1>2, <2>3 DEF Late
    <3> QED BY <3>3, <3>4 DEF HeaderInv
  <2> QED BY <2>2, <2>5, <2>6, <2>7, <2>8, <2>9, <2>10 DEF CompilerInv
<1> QED BY <1>5, <1>6, Zenon DEF ParseSchemaFile

LEMMA ParseNothingStep == ASSUME CompilerInv, ParseNothing PROVE CompilerInv'
<1>1. PICK h \in Tasks : First(h) /\ h.op = "parse"
  BY HeadWhole DEF ParseNothing
<1>2. h.op \notin Defining \cup {"exit"} BY <1>1 DEF Defining
<1> QED BY <1>1, <1>2, CrashStep DEF ParseNothing

-----------------------------------------------------------------------------
(***************************************************************************)
(* The definitions are gone through, and then code is generated.           *)
(***************************************************************************)
\* Positions in a sequence of m elements and another of n.
LEMMA JoinedPositions ==
    \A m, n, k \in Nat :
       /\ 1 <= k /\ k <= m => k <= m + n
       /\ 1 <= k /\ k <= n => /\ 1 <= m + k /\ m + k <= m + n /\ ~(m + k <= m)
                              /\ m + k - m = k /\ m + k \in Nat
       /\ k <= m + n /\ ~(k <= m) => /\ 1 <= k - m /\ k - m <= n /\ k > m /\ k - m \in Nat
OBVIOUS

LEMMA Interval == \A n \in Nat : \A k : k \in 1 .. n <=> k \in Nat /\ 1 <= k /\ k <= n
OBVIOUS

\* The elements of c are those of a, and then those of b.
Joins(c, a, b) ==
    /\ c \in Seq(Tasks) /\ Len(c) = Len(a) + Len(b) /\ Len(c) \in Nat
    /\ Len(a) \in Nat /\ Len(b) \in Nat
    /\ DOMAIN a = 1 .. Len(a) /\ DOMAIN b = 1 .. Len(b) /\ DOMAIN c = 1 .. Len(c)
    /\ \A k \in DOMAIN a : k \in DOMAIN c /\ c[k] = a[k]
    /\ \A k \in DOMAIN b : Len(a) + k \in DOMAIN c /\ c[Len(a) + k] = b[k]
    /\ \A k \in DOMAIN c : \/ k \in DOMAIN a /\ c[k] = a[k]
                           \/ /\ k > Len(a) /\ k - Len(a) \in DOMAIN b
                              /\ c[k] = b[k - Len(a)]

LEMMA Joined ==
    ASSUME NEW a \in Seq(Tasks), NEW b \in Seq(Tasks)
    PROVE  Joins(a \o b, a, b)
<1>1. PICK m \in Nat, n \in Nat, l \in Nat : m = Len(a) /\ n = Len(b) /\ l = m + n OBVIOUS
<1>2. PICK c : c = a \o b OBVIOUS
<1>3. c \in Seq(Tasks) /\ Len(c) = l /\ DOMAIN c = 1 .. l BY <1>1, <1>2
<1>4. DOMAIN a = 1 .. m /\ DOMAIN b = 1 .. n BY <1>1
<1>5. /\ \A k \in 1 .. l : k <= m => c[k] = a[k]
      /\ \A k \in 1 .. l : ~(k <= m) => c[k] = b[k - m]
  BY <1>1, <1>2
<1>6. ASSUME NEW k \in 1 .. m PROVE k \in 1 .. l /\ c[k] = a[k]
  <2>1. k \in Nat /\ 1 <= k /\ k <= m OBVIOUS
  <2>2. k <= l BY <1>1, <2>1, JoinedPositions, Zenon
  <2>3. k \in 1 .. l BY <2>1, <2>2
  <2> QED BY <1>5, <2>1, <2>3, Zenon
<1>7. ASSUME NEW k \in 1 .. n PROVE m + k \in 1 .. l /\ c[m + k] = b[k]
  <2>1. k \in Nat /\ 1 <= k /\ k <= n OBVIOUS
  <2>2. PICK i : i = m + k OBVIOUS
  <2>3. 1 <= i /\ i <= m + n /\ ~(i <= m) /\ i - m = k /\ i \in Nat BY <2>1, <2>2
  <2>4. i \in 1 .. l BY <1>1, <2>3
  <2>5. c[i] = b[i - m] BY <1>5, <2>3, <2>4, Zenon
  <2> QED BY <2>2, <2>3, <2>4, <2>5, Zenon
<1>8. ASSUME NEW k \in 1 .. l
      PROVE  \/ k \in 1 .. m /\ c[k] = a[k]
             \/ k > m /\ k - m \in 1 .. n /\ c[k] = b[k - m]
  <2>1. k \in Nat /\ 1 <= k /\ k <= l OBVIOUS
  <2>2. k <= m + n BY <1>1, <2>1, Zenon
  <2>3. CASE k <= m
    <3>1. k \in 1 .. m BY <2>1, <2>3
    <3> QED BY <1>5, <2>3, <3>1
  <2>4. CASE ~(k <= m)
    <3>1. 1 <= k - m /\ k - m <= n /\ k > m /\ k - m \in Nat
      BY <2>1, <2>2, <2>4, JoinedPositions, Zenon
    <3>2. k - m \in 1 .. n BY <3>1, Interval, Zenon
    <3>3. c[k] = b[k - m] BY <1>5, <2>4, Zenon
    <3> QED BY <3>1, <3>2, <3>3
  <2> QED BY <2>3, <2>4
<1>9. Joins(c, a, b) BY <1>1, <1>3, <1>4, <1>6, <1>7, <1>8, Zenon DEF Joins
<1> QED BY <1>2, <1>9

\* c is a with x at its end.
Ends(c, a, x) == /\ c \in Seq(Tasks) /\ Len(c) = Len(a) + 1 /\ DOMAIN c = 1 .. Len(a) + 1
                 /\ Len(a) + 1 \in DOMAIN c /\ c[Len(a) + 1] = x
                 /\ \A k \in DOMAIN a : k \in DOMAIN c /\ c[k] = a[k]

LEMMA JoinedOne ==
    ASSUME NEW a \in Seq(Tasks), NEW x \in Tasks
    PROVE  Ends(a \o <<x>>, a, x)
<1>1. PICK b : b = <<x>> OBVIOUS
<1>2. b \in Seq(Tasks) /\ Len(b) = 1 /\ b[1] = x /\ 1 \in DOMAIN b BY <1>1
<1>3. PICK c : c = a \o b OBVIOUS
<1>4. Joins(c, a, b) BY <1>2, <1>3, Joined
<1>5. Len(c) = Len(a) + 1 BY <1>2, <1>4, Zenon DEF Joins
<1>6. Len(a) + 1 \in DOMAIN c /\ c[Len(a) + 1] = x BY <1>2, <1>4, Zenon DEF Joins
<1>7. c \in Seq(Tasks) /\ DOMAIN c = 1 .. Len(a) + 1
  BY <1>4, <1>5, Zenon DEF Joins
<1>8. \A k \in DOMAIN a : k \in DOMAIN c /\ c[k] = a[k] BY <1>4, Zenon DEF Joins
<1> QED BY <1>1, <1>3, <1>5, <1>6, <1>7, <1>8, Zenon DEF Ends

\* One call for each of n definitions.
LEMMA ForEach ==
    ASSUME NEW n \in Nat, NEW op \in Ops, NEW all, all = [d \in 1 .. n |-> d]
    PROVE  /\ TaskFor(op, all) \in Seq(Tasks) /\ Len(TaskFor(op, all)) = n
           /\ DOMAIN TaskFor(op, all) = 1 .. n
           /\ \A k \in 1 .. n : TaskFor(op, all)[k] = [op |-> op, arg |-> k]
<1>1. TaskFor(op, all) = [k \in 1 .. n |-> [op |-> op, arg |-> k]] BY DEF TaskFor
<1>2. \A k \in 1 .. n : [op |-> op, arg |-> k] \in Tasks BY DEF Tasks
<1>3. [k \in 1 .. n |-> [op |-> op, arg |-> k]] \in Seq(Tasks) BY <1>2
<1> QED BY <1>1, <1>3

\* What is to be done once the definitions have been identified.
Plan(w, n, x, y) ==
    /\ w \in Seq(Tasks) /\ DOMAIN w = 1 .. n + n + 2 /\ Len(w) = n + n + 2
    /\ \A k \in 1 .. n : w[k] = [op |-> "alloc", arg |-> k]
    /\ \A k \in 1 .. n : w[n + k] = [op |-> "fill_definition", arg |-> k]
    /\ w[n + n + 1] = x /\ w[n + n + 2] = y

LEMMA Planned ==
    ASSUME NEW n \in Nat, NEW x \in Tasks, NEW y \in Tasks, NEW all,
           all = [d \in 1 .. n |-> d], NEW w,
           w = TaskFor("alloc", all) \o TaskFor("fill_definition", all) \o <<x>> \o <<y>>
    PROVE  Plan(w, n, x, y)
<1>1. PICK a, b : a = TaskFor("alloc", all) /\ b = TaskFor("fill_definition", all) OBVIOUS
<1>2. "alloc" \in Ops /\ "fill_definition" \in Ops BY DEF Ops, Allocating, Filling
<1>3. /\ a \in Seq(Tasks) /\ Len(a) = n /\ DOMAIN a = 1 .. n
      /\ \A k \in 1 .. n : a[k] = [op |-> "alloc", arg |-> k]
  BY <1>1, <1>2, ForEach
<1>4. /\ b \in Seq(Tasks) /\ Len(b) = n /\ DOMAIN b = 1 .. n
      /\ \A k \in 1 .. n : b[k] = [op |-> "fill_definition", arg |-> k]
  BY <1>1, <1>2, ForEach
<1>5. PICK c : c = a \o b OBVIOUS
<1>6. Joins(c, a, b) BY <1>3, <1>4, <1>5, Joined, Zenon
<1>7. /\ c \in Seq(Tasks) /\ Len(c) = n + n
      /\ \A k \in 1 .. n : k \in DOMAIN c /\ c[k] = a[k]
      /\ \A k \in 1 .. n : n + k \in DOMAIN c /\ c[n + k] = b[k]
  BY <1>3, <1>4, <1>6, Zenon DEF Joins
<1>8. PICK e : e = c \o <<x>> OBVIOUS
<1>9. /\ e \in Seq(Tasks) /\ Len(e) = n + n + 1
      /\ n + n + 1 \in DOMAIN e /\ e[n + n + 1] = x
      /\ \A k \in DOMAIN c : k \in DOMAIN e /\ e[k] = c[k]
  <2>1. c \in Seq(Tasks) BY <1>7
  <2>2. Ends(e, c, x) BY <1>8, <2>1, JoinedOne, Zenon
  <2>3. Len(c) = n + n BY <1>7
  <2> QED BY <2>2, <2>3, Zenon DEF Ends
<1>10. w = e \o <<y>> BY <1>1, <1>5, <1>8
<1>11. /\ w \in Seq(Tasks) /\ Len(w) = n + n + 1 + 1 /\ w[n + n + 1 + 1] = y
       /\ DOMAIN w = 1 .. n + n + 1 + 1
       /\ \A k \in DOMAIN e : k \in DOMAIN w /\ w[k] = e[k]
  <2>1. e \in Seq(Tasks) BY <1>9
  <2>2. Ends(w, e, y) BY <1>10, <2>1, JoinedOne, Zenon
  <2>3. Len(e) = n + n + 1 BY <1>9
  <2> QED BY <2>2, <2>3, Zenon DEF Ends
<1>12. \A m \in Nat : m + m + 1 + 1 = m + m + 2 OBVIOUS
<1>13. n + n + 1 + 1 = n + n + 2 BY <1>12, Zenon
<1>14. \A k \in 1 .. n : w[k] = a[k] BY <1>7, <1>9, <1>11, Zenon
<1>15. \A k \in 1 .. n : w[n + k] = b[k]
  <2> SUFFICES ASSUME NEW k \in 1 .. n PROVE w[n + k] = b[k] OBVIOUS
  <2>1. PICK i : i = n + k OBVIOUS
  <2>2. i \in DOMAIN c /\ c[i] = b[k] BY <1>7, <2>1, Zenon
  <2>3. e[i] = c[i] /\ w[i] = e[i] BY <1>9, <1>11, <2>2, Zenon
  <2> QED BY <2>1, <2>2, <2>3, Zenon
<1>16. w[n + n + 1] = x BY <1>9, <1>11, Zenon
<1>17. \A k \in 1 .. n : w[k] = [op |-> "alloc", arg |-> k] BY <1>3, <1>14, Zenon
<1>18. \A k \in 1 .. n : w[n + k] = [op |-> "fill_definition", arg |-> k]
  BY <1>4, <1>15, Zenon
<1> QED BY <1>11, <1>13, <1>16, <1>17, <1>18, Zenon DEF Plan

\* The same, by the kinds of calls.
LEMMA PlannedOps ==
    ASSUME NEW n \in Nat, NEW w, DOMAIN w = 1 .. n + n + 2,
           \A k \in 1 .. n : w[k] = [op |-> "alloc", arg |-> k],
           \A k \in 1 .. n : w[n + k] = [op |-> "fill_definition", arg |-> k],
           w[n + n + 1].op = "resolve", w[n + n + 2].op = "codegen"
    PROVE  \A k \in DOMAIN w :
              \/ k \in 1 .. n /\ w[k] = [op |-> "alloc", arg |-> k]
              \/ /\ k > n /\ k - n \in 1 .. n
                 /\ w[k] = [op |-> "fill_definition", arg |-> k - n]
              \/ k = n + n + 1 /\ w[k].op = "resolve"
              \/ k = n + n + 2 /\ w[k].op = "codegen"
<1>1. \A m \in Nat : \A k \in 1 .. m + m + 2 :
         \/ k \in 1 .. m
         \/ k > m /\ k - m \in 1 .. m /\ m + (k - m) = k
         \/ k = m + m + 1 \/ k = m + m + 2
  OBVIOUS
<1> QED BY <1>1

LEMMA ProcessDefinitionsStep == ASSUME CompilerInv, ProcessDefinitions PROVE CompilerInv'
<1>1. PICK h \in Tasks : First(h) /\ h.op = "process" /\ TaskWhole(h) /\ h = Head(work)
  BY HeadWhole DEF ProcessDefinitions
<1>2. CASE ~doc.present /\ Crash BY <1>1, <1>2, CrashStep DEF Defining
<1>3. CASE doc.present /\ ~Crash
  <2>1. PICK all, x, y : /\ all = [d \in DOMAIN doc.defs |-> d]
                         /\ x = [op |-> "resolve", arg |-> [schema |-> doc.main, name |-> Main]]
                         /\ y = [op |-> "codegen", arg |-> 0]
    OBVIOUS
  <2>2. /\ defs' = [d \in DOMAIN doc.defs |-> Identified(doc.defs[d])]
        /\ errors' = \E d \in DOMAIN doc.defs : defs'[d].state = "DEF_ERROR"
        /\ work' = (TaskFor("alloc", all) \o TaskFor("fill_definition", all)
                    \o <<x>> \o <<y>>) \o Tail(work)
        /\ UNCHANGED <<doc, exit, infos, ret, header, macros, files>>
    BY <1>3, <2>1, Zenon DEF ProcessDefinitions, Then, KeepsOutput, Resolving, Task, NULL
  <2>3. /\ Typed /\ TypesWhole /\ TasksWhole /\ work \in Seq(Tasks) /\ work[1] = h
        /\ work # <<>>
    BY <1>1 DEF CompilerInv, Typed, First
  <2>4. infos = Builtin /\ Len(work) = 1 /\ ret = 0
    BY <1>1, <2>3 DEF TasksWhole, Opening, NULL
  <2>5. files = {} /\ exit = "running" /\ Fresh BY <1>1, Early DEF Defining
  <2>6. doc.main \in AllSchemas /\ doc.defs \in Seq(AllSchemas) BY <2>3, DocTyped DEF Typed
  <2>7. PICK n \in Nat : n = Len(doc.defs) /\ DOMAIN doc.defs = 1 .. n BY <2>6
  <2>8. x \in Tasks /\ y \in Tasks /\ x.op = "resolve" /\ y.op = "codegen" /\ x.arg \in Calls
    <3>1. [schema |-> doc.main, name |-> Main] \in Calls BY <2>6 DEF Calls, Parts
    <3> QED BY <2>1, <3>1 DEF Tasks, Ops, Filling
  <2>9. /\ work' \in Seq(Tasks) /\ DOMAIN work' = 1 .. n + n + 2 /\ Len(work') = n + n + 2
        /\ \A k \in 1 .. n : work'[k] = [op |-> "alloc", arg |-> k]
        /\ \A k \in 1 .. n : work'[n + k] = [op |-> "fill_definition", arg |-> k]
        /\ work'[n + n + 1] = x /\ work'[n + n + 2] = y
    <3>1. PICK w : w = TaskFor("alloc", all) \o TaskFor("fill_definition", all) \o <<x>> \o <<y>>
      OBVIOUS
    <3>2. all = [d \in 1 .. n |-> d] BY <2>1, <2>7
    <3>3. Plan(w, n, x, y) BY <2>8, <3>1, <3>2, Planned, Zenon
    <3>4. Tail(work) = <<>>
      <4>1. Tail(work) \in Seq(Tasks) /\ Len(Tail(work)) = 0 BY <2>3, <2>4
      <4>2. \A t \in Seq(Tasks) : Len(t) = 0 => t = <<>> OBVIOUS
      <4> QED BY <4>1, <4>2
    <3>5. w \o <<>> = w
      <4>1. w \in Seq(Tasks) BY <3>3 DEF Plan
      <4> QED BY <4>1
    <3>6. work' = w BY <2>2, <3>1, <3>4, <3>5
    <3> QED BY <3>3, <3>6, Zenon DEF Plan
  <2>10. \A k \in DOMAIN work' :
            \/ k \in 1 .. n /\ work'[k] = [op |-> "alloc", arg |-> k]
            \/ /\ k > n /\ k - n \in 1 .. n
               /\ work'[k] = [op |-> "fill_definition", arg |-> k - n]
            \/ k = n + n + 1 /\ work'[k].op = "resolve"
            \/ k = n + n + 2 /\ work'[k].op = "codegen"
    <3>1. PICK w : w = work' OBVIOUS
    <3>2. /\ DOMAIN w = 1 .. n + n + 2
          /\ \A k \in 1 .. n : w[k] = [op |-> "alloc", arg |-> k]
          /\ \A k \in 1 .. n : w[n + k] = [op |-> "fill_definition", arg |-> k]
          /\ w[n + n + 1].op = "resolve" /\ w[n + n + 2].op = "codegen"
      BY <2>8, <2>9, <3>1
    <3>3. \A k \in DOMAIN w :
              \/ k \in 1 .. n /\ w[k] = [op |-> "alloc", arg |-> k]
              \/ /\ k > n /\ k - n \in 1 .. n
                 /\ w[k] = [op |-> "fill_definition", arg |-> k - n]
              \/ k = n + n + 1 /\ w[k].op = "resolve"
              \/ k = n + n + 2 /\ w[k].op = "codegen"
      BY <3>2, PlannedOps
    <3> QED BY <3>1, <3>3
  <2>11. \A k \in DOMAIN work' :
            work'[k].op \in {"alloc", "fill_definition", "resolve", "codegen"}
    BY <2>10
  <2>12. DOMAIN defs' = 1 .. n /\ \A d \in 1 .. n : defs'[d] = Identified(doc.defs[d])
    BY <2>2, <2>7
  <2>13. \A d \in 1 .. n :
            LET s == doc.defs[d]
            IN  /\ defs'[d].type = 0 /\ defs'[d] \in DefRecords
                /\ defs'[d].state \in {"DEF_REF", "DEF_ERROR", "DEF_SCHEMA"}
                /\ defs'[d].state = "DEF_REF" => s.is = "ref" /\ s.to \in 1 .. n
                /\ defs'[d].state = "DEF_SCHEMA" => s.is \notin {"ref", "badref"}
    <3> SUFFICES ASSUME NEW d \in 1 .. n, NEW s, s = doc.defs[d]
                 PROVE  /\ defs'[d].type = 0 /\ defs'[d] \in DefRecords
                        /\ defs'[d].state \in {"DEF_REF", "DEF_ERROR", "DEF_SCHEMA"}
                        /\ defs'[d].state = "DEF_REF" => s.is = "ref" /\ s.to \in 1 .. n
                        /\ defs'[d].state = "DEF_SCHEMA" => s.is \notin {"ref", "badref"}
      OBVIOUS
    <3>1. PICK state : state = CASE s.is = "ref" /\ s.to \in 1 .. n -> "DEF_REF"
                                 [] s.is = "ref" /\ s.to \notin 1 .. n -> "DEF_ERROR"
                                 [] s.is = "badref" -> "DEF_ERROR"
                                 [] OTHER -> "DEF_SCHEMA"
      OBVIOUS
    <3>2. /\ state \in {"DEF_REF", "DEF_ERROR", "DEF_SCHEMA"}
          /\ state = "DEF_REF" => s.is = "ref" /\ s.to \in 1 .. n
          /\ state = "DEF_SCHEMA" => s.is \notin {"ref", "badref"}
      BY <3>1
    <3>3. defs'[d] = [state |-> state, type |-> 0]
      BY <2>7, <2>12, <3>1 DEF Identified, NULL
    <3> QED BY <3>2, <3>3 DEF DefRecords, DefStates
  <2>14. defs' \in Seq(DefRecords)
    <3>1. defs' = [d \in 1 .. n |-> Identified(doc.defs[d])] BY <2>2, <2>7
    <3>2. \A d \in 1 .. n : Identified(doc.defs[d]) \in DefRecords BY <2>12, <2>13
    <3>3. [d \in 1 .. n |-> Identified(doc.defs[d])] \in Seq(DefRecords) BY <3>2
    <3> QED BY <3>1, <3>3
  <2>15. Typed'
    <3>1. errors' \in BOOLEAN BY <2>2
    <3> QED BY <2>2, <2>3, <2>9, <2>14, <3>1 DEF Typed
  <2>16. TypesWhole' BY <2>2, <2>3 DEF TypesWhole, TypeInfos
  <2>17. Ordered'
    <3>1. ASSUME NEW j \in DOMAIN work', NEW k \in DOMAIN work', j <= k
          PROVE  Rank(work'[j].op) <= Rank(work'[k].op)
      <4>1. Rank("alloc") = 1 /\ Rank("fill_definition") = 2 /\ Rank("resolve") = 2
            /\ Rank("codegen") = 3
        BY Ranks DEF Allocating, Filling
      <4>2. \A i \in DOMAIN work' : Rank(work'[i].op) = IF i <= n THEN 1
                                       ELSE IF i <= n + n + 1 THEN 2 ELSE 3
        BY <2>9, <2>10, <4>1
      <4> QED BY <2>9, <3>1, <4>2
    <3>2. \A k \in DOMAIN work' : work'[k].op \in {"codegen", "exit"} => k = Len(work')
      BY <2>9, <2>10
    <3> QED BY <2>11, <3>1, <3>2 DEF Ordered, Ops, Allocating, Filling
  <2>18. TasksWhole'
    <3>1. ASSUME NEW z \in ToSet(work') PROVE TaskWhole(z)'
      <4>1. PICK k \in DOMAIN work' : z = work'[k] BY DEF ToSet
      <4>2. CASE k \in 1 .. n /\ work'[k] = [op |-> "alloc", arg |-> k]
        BY <2>12, <4>1, <4>2 DEF TaskWhole
      <4>3. CASE /\ k > n /\ k - n \in 1 .. n
                 /\ work'[k] = [op |-> "fill_definition", arg |-> k - n]
        BY <2>12, <4>1, <4>3 DEF TaskWhole
      <4>4. CASE k = n + n + 1 /\ work'[k].op = "resolve"
        BY <2>8, <2>9, <4>1, <4>4 DEF TaskWhole, Allocating
      <4>5. CASE k = n + n + 2 /\ work'[k].op = "codegen"
        BY <4>1, <4>5 DEF TaskWhole, Allocating
      <4> QED BY <2>10, <4>2, <4>3, <4>4, <4>5
    <3>2. Started' BY <2>2, <2>7, <2>12 DEF Started
    <3>3. 1 \in DOMAIN work' /\ work'[1].op \notin Opening
      <4>1. 1 \in DOMAIN work' BY <2>9
      <4> QED BY <2>11, <4>1 DEF Opening
    <3> QED BY <2>2, <2>5, <3>1, <3>2, <3>3 DEF TasksWhole
  <2>19. Returned'
    <3>1. \A z \in Tasks : First(z)' => z.op \notin Awaits
      <4>1. 1 \in DOMAIN work' /\ 1 # n + n + 2 BY <2>9
      <4> QED BY <2>10, <4>1 DEF First, Awaits
    <3>2. ASSUME NEW u \in Tasks, NEW z \in Tasks, Adjacent(u, z)' PROVE Follows(u, z)'
      <4>1. PICK k \in DOMAIN work' : k > 1 /\ work'[k - 1] = u /\ work'[k] = z
        BY <3>2 DEF Adjacent
      <4>2. CASE k = n + n + 2
        <5>1. z.op = "codegen" /\ u = x BY <2>8, <2>9, <4>1, <4>2
        <5>2. Gives(x, doc.main)' BY <2>1, <2>2 DEF Gives
        <5>3. GivesMain(x)' BY <2>1 DEF GivesMain
        <5>4. Awaited(z)' = doc'.main BY <5>1 DEF Awaited
        <5> QED BY <2>2, <5>1, <5>2, <5>3, <5>4 DEF Follows
      <4>3. CASE k # n + n + 2
        <5>1. z.op \notin Awaits BY <2>10, <4>1, <4>3 DEF Awaits
        <5> QED BY <5>1 DEF Follows, Awaits
      <4> QED BY <4>2, <4>3
    <3> QED BY <3>1, <3>2 DEF Returned, Ready, Awaits
  <2>20. \A d \in 1 .. n : Due("alloc", d)' /\ Due("fill_definition", d)'
    <3>a. \A m \in Nat : \A d \in 1 .. m : d \in 1 .. m + m + 2 /\ m + d \in 1 .. m + m + 2
      OBVIOUS
    <3>1. \A d \in 1 .. n : d \in DOMAIN work' /\ n + d \in DOMAIN work'
      BY <2>9, <3>a, Zenon
    <3> SUFFICES ASSUME NEW d \in 1 .. n
                 PROVE  Due("alloc", d)' /\ Due("fill_definition", d)'
      OBVIOUS
    <3>4. PICK i, v, z : i = n + d /\ v = work'[d] /\ z = work'[i] OBVIOUS
    <3>5. v = [op |-> "alloc", arg |-> d] BY <2>9, <3>4, Zenon
    <3>6. z = [op |-> "fill_definition", arg |-> d] BY <2>9, <3>4, Zenon
    <3>2. work'[d].op = "alloc" /\ work'[d].arg = d BY <3>4, <3>5
    <3>3. work'[n + d].op = "fill_definition" /\ work'[n + d].arg = d BY <3>4, <3>6
    <3> QED BY <3>1, <3>2, <3>3 DEF Due
  <2>21. DefsWhole'
    <3>1. ASSUME NEW d \in 1 .. n PROVE DefWhole(d)'
      <4>1. d \notin Settled' BY <2>13 DEF Settled
      <4>2. defs'[d].state = "DEF_ERROR" => errors' BY <2>2, <2>7
      <4>3. Due("alloc", d)' BY <2>20
      <4>4. defs'[d].type = NULL BY <2>13 DEF NULL
      <4>5. doc' = doc /\ DOMAIN defs' = 1 .. n BY <2>2, <2>12
      <4> QED BY <2>13, <4>1, <4>2, <4>3, <4>4, <4>5 DEF DefWhole
    <3> QED BY <2>11, <2>12, <2>20, <3>1 DEF DefsWhole
  <2>22. LinksWhole' BY <2>2, <2>4, BuiltinTyped DEF LinksWhole, TypeInfos
  <2>23. HeaderInv'
    <3>1. \A t \in TypeInfos : (IsGenerated(t))' = IsGenerated(t)
      BY <2>2 DEF IsGenerated, IsStruct, IsArray
    <3>2. Fresh' BY <2>2, <2>5, <2>11, <3>1 DEF Fresh, TypeInfos, Defining
    <3>3. ~Late' BY <2>2, <2>5 DEF Late
    <3> QED BY <3>2, <3>3 DEF HeaderInv
  <2> QED BY <2>15, <2>16, <2>17, <2>18, <2>19, <2>21, <2>22, <2>23 DEF CompilerInv
<1>4. CASE doc.present /\ Crash BY <1>1, <1>4, CrashStep DEF Defining
<1> QED BY <1>2, <1>3, <1>4 DEF ProcessDefinitions

\* What is to be done once there are output files.
Output(w, n, x, y) ==
    /\ w \in Seq(Tasks) /\ DOMAIN w = 1 .. n + 2 /\ Len(w) = n + 2
    /\ w[1] = x /\ w[n + 2] = y
    /\ \A d \in 1 .. n : \E k \in DOMAIN w : w[k].op = "define_definition" /\ w[k].arg = d
    /\ \A k \in DOMAIN w : \/ k = 1 /\ w[k] = x
                           \/ k = n + 2 /\ w[k] = y
                           \/ /\ k # n + 2
                              /\ w[k].op = "define_definition" /\ w[k].arg \in 1 .. n

LEMMA OutputPlanned ==
    ASSUME NEW n \in Nat, NEW x \in Tasks, NEW y \in Tasks, NEW all,
           all = [d \in 1 .. n |-> d], NEW w,
           w = <<x>> \o TaskFor("define_definition", all) \o <<y>>
    PROVE  Output(w, n, x, y)
<1>1. PICK a, b : a = <<x>> /\ b = TaskFor("define_definition", all) OBVIOUS
<1>2. "define_definition" \in Ops BY DEF Ops, Defining
<1>3. a \in Seq(Tasks) /\ Len(a) = 1 /\ a[1] = x /\ DOMAIN a = 1 .. 1 /\ 1 \in DOMAIN a
  BY <1>1
<1>4. /\ b \in Seq(Tasks) /\ Len(b) = n /\ DOMAIN b = 1 .. n
      /\ \A k \in 1 .. n : b[k] = [op |-> "define_definition", arg |-> k]
  BY <1>1, <1>2, ForEach
<1>5. PICK c : c = a \o b OBVIOUS
<1>6. Joins(c, a, b) BY <1>3, <1>4, <1>5, Joined, Zenon
<1>7. c \in Seq(Tasks) /\ Len(c) = 1 + n /\ DOMAIN c = 1 .. 1 + n
  BY <1>3, <1>4, <1>6, Zenon DEF Joins
<1>8. 1 \in DOMAIN c /\ c[1] = x BY <1>3, <1>6, Zenon DEF Joins
<1>9. \A k \in 1 .. n : 1 + k \in DOMAIN c /\ c[1 + k] = b[k]
  BY <1>3, <1>4, <1>6, Zenon DEF Joins
<1>10. w = c \o <<y>> BY <1>1, <1>5
<1>11. Ends(w, c, y) BY <1>7, <1>10, JoinedOne, Zenon
<1>12. n + 2 \in Nat /\ 1 + n + 1 = n + 2 OBVIOUS
<1>13. w \in Seq(Tasks) /\ Len(w) = n + 2 /\ DOMAIN w = 1 .. n + 2 /\ w[n + 2] = y
  BY <1>7, <1>11, <1>12, Zenon DEF Ends
<1>14. w[1] = x BY <1>8, <1>11, Zenon DEF Ends
<1>15. ASSUME NEW k \in 1 .. n
       PROVE  1 + k \in DOMAIN w /\ w[1 + k] = [op |-> "define_definition", arg |-> k]
  <2>1. PICK i : i = 1 + k OBVIOUS
  <2>2. i \in DOMAIN c /\ c[i] = b[k] BY <1>9, <2>1, Zenon
  <2>3. i \in DOMAIN w /\ w[i] = c[i] BY <1>11, <2>2, Zenon DEF Ends
  <2> QED BY <1>4, <2>1, <2>2, <2>3, Zenon
<1>16. ASSUME NEW k \in DOMAIN w, k # 1, k # n + 2
       PROVE  w[k].op = "define_definition" /\ w[k].arg \in 1 .. n
  <2>1. PICK i, z : i = k - 1 /\ z = w[k] OBVIOUS
  <2>2. i \in 1 .. n /\ 1 + i = k BY <1>13, <1>16, <2>1
  <2>3. z = [op |-> "define_definition", arg |-> i] BY <1>15, <2>1, <2>2, Zenon
  <2> QED BY <2>1, <2>2, <2>3
<1>17. ASSUME NEW d \in 1 .. n
       PROVE  \E k \in DOMAIN w : w[k].op = "define_definition" /\ w[k].arg = d
  <2>1. PICK k, z : k = 1 + d /\ z = w[k] OBVIOUS
  <2>2. k \in DOMAIN w /\ z = [op |-> "define_definition", arg |-> d]
    BY <1>15, <2>1, Zenon
  <2>3. z.op = "define_definition" /\ z.arg = d BY <2>2
  <2> QED BY <2>1, <2>2, <2>3
<1> QED BY <1>13, <1>14, <1>16, <1>17 DEF Output

\* Code is generated: every link is set, and nothing has been declared.
LEMMA CodegenStep ==
    ASSUME CompilerInv, NEW h, First(h), h.op = "codegen", ~errors,
           NEW n \in Nat, DOMAIN defs = 1 .. n, NEW x \in Tasks, NEW y \in Tasks,
           x.op = "define", x.arg = ret, y.op = "exit",
           Output(work', n, x, y), files' = {"c", "h"},
           UNCHANGED <<doc, exit, ret, errors, defs, infos, header, macros>>
    PROVE  CompilerInv'
<1>1. /\ Typed /\ TypesWhole /\ Ordered /\ TasksWhole /\ Returned /\ DefsWhole /\ LinksWhole
      /\ work \in Seq(Tasks) /\ work # <<>> /\ work[1] = h /\ h \in Tasks /\ 1 \in DOMAIN work
  BY DEF CompilerInv, Typed, First
<1>2. files = {} /\ exit = "running" /\ Fresh BY Early DEF Defining
<1>3. Len(work) = 1
  <2>1. 1 = Len(work) BY <1>1 DEF Ordered
  <2> QED BY <2>1
<1>5. Keeps BY AllKept
<1>6. Fits(doc.main, ret) /\ IsMainType(ret)
  <2>1. Ready(h) BY <1>1 DEF Returned
  <2> QED BY <2>1 DEF Ready, Awaits, Awaited
<1>7. ret \in TypeInfos BY <1>6 DEF Fits
<1>9. x.op = "define" /\ x.arg = ret /\ y.op = "exit" OBVIOUS
<1>11. /\ work' \in Seq(Tasks) /\ DOMAIN work' = 1 .. n + 2 /\ Len(work') = n + 2
       /\ work'[1] = x /\ work'[n + 2] = y
       /\ \A d \in 1 .. n : \E k \in DOMAIN work' :
             work'[k].op = "define_definition" /\ work'[k].arg = d
  BY Zenon DEF Output
<1>12. \A k \in DOMAIN work' :
          \/ k = 1 /\ work'[k] = x
          \/ k = n + 2 /\ work'[k] = y
          \/ /\ k # n + 2
             /\ work'[k].op = "define_definition" /\ work'[k].arg \in 1 .. n
  BY Zenon DEF Output
<1>13. /\ \A k \in DOMAIN work' : work'[k].op \in {"define", "define_definition", "exit"}
       /\ \A op, arg : Due(op, arg)' => op \in {"define", "define_definition", "exit"}
       /\ \A t : Due("define", t)' => t = ret
       /\ Due("define", ret)'
       /\ \A d \in 1 .. n : Due("define_definition", d)'
  <2>1. \A k \in DOMAIN work' : work'[k].op \in {"define", "define_definition", "exit"}
    BY <1>9, <1>12
  <2>2. \A k \in DOMAIN work' : work'[k].op = "define" => work'[k].arg = ret
    BY <1>9, <1>12
  <2>3. 1 \in DOMAIN work' BY <1>11
  <2>4. \A d \in 1 .. n : Due("define_definition", d)' BY <1>11 DEF Due
  <2>5. \A op, arg : Due(op, arg)' => op \in {"define", "define_definition", "exit"}
    BY <2>1 DEF Due
  <2>6. \A t : Due("define", t)' => t = ret BY <2>2 DEF Due
  <2>7. Due("define", ret)' BY <1>9, <1>11, <2>3 DEF Due
  <2> QED BY <2>1, <2>4, <2>5, <2>6, <2>7
<1>14. Typed' BY <1>1, <1>11 DEF Typed
<1>15. TypesWhole' BY <1>1 DEF TypesWhole, TypeInfos
<1>16. Ordered'
  <2>1. Rank("define") = 4 /\ Rank("define_definition") = 4 /\ Rank("exit") = 5
    BY Ranks DEF Defining
  <2>2. ASSUME NEW j \in DOMAIN work', NEW k \in DOMAIN work', j <= k
        PROVE  Rank(work'[j].op) <= Rank(work'[k].op)
    <3>1. ASSUME NEW i \in DOMAIN work'
          PROVE  /\ i = n + 2 => Rank(work'[i].op) = 5
                 /\ i # n + 2 => Rank(work'[i].op) = 4
      <4>1. 1 # n + 2 OBVIOUS
      <4>2. CASE i = n + 2 BY <1>9, <1>11, <2>1, <4>2
      <4>3. CASE i # n + 2 BY <1>9, <1>12, <2>1, <4>3
      <4> QED BY <4>2, <4>3
    <3>2. j \in 1 .. n + 2 /\ k \in 1 .. n + 2 BY <1>11
    <3>3. CASE k = n + 2
      <4>1. Rank(work'[k].op) = 5 BY <3>1, <3>3
      <4>2. Rank(work'[j].op) \in {4, 5} BY <3>1
      <4> QED BY <4>1, <4>2
    <3>4. CASE k # n + 2
      <4>1. j # n + 2 BY <2>2, <3>2, <3>4
      <4>2. Rank(work'[k].op) = 4 /\ Rank(work'[j].op) = 4 BY <3>1, <3>4, <4>1
      <4> QED BY <4>2
    <3> QED BY <3>3, <3>4
  <2>3. \A k \in DOMAIN work' : work'[k].op \in {"codegen", "exit"} => k = Len(work')
    BY <1>9, <1>11, <1>12
  <2>4. \A k \in DOMAIN work' : work'[k].op \in Ops BY <1>13 DEF Ops, Defining
  <2> QED BY <2>2, <2>3, <2>4 DEF Ordered
<1>17. TasksWhole'
  <2>1. ASSUME NEW z \in ToSet(work') PROVE TaskWhole(z)'
    <3>1. PICK k \in DOMAIN work' : z = work'[k] BY DEF ToSet
    <3>2. CASE work'[k] = x BY <1>7, <1>9, <3>1, <3>2 DEF TaskWhole, TypeInfos, Allocating
    <3>3. CASE work'[k] = y BY <1>9, <3>1, <3>3 DEF TaskWhole, Allocating
    <3>4. CASE work'[k].op = "define_definition" /\ work'[k].arg \in 1 .. n
      BY <3>1, <3>4 DEF TaskWhole
    <3> QED BY <1>12, <3>2, <3>3, <3>4
  <2>2. Started'
    <3>1. DOMAIN defs = DOMAIN doc.defs BY <1>1 DEF TasksWhole, Started, Opening
    <3> QED BY <3>1 DEF Started
  <2> QED BY <1>2, <1>9, <1>11, <2>1, <2>2 DEF TasksWhole, Opening
<1>18. Returned'
  <2>1. \A z \in Tasks : First(z)' => z.op \notin Awaits
    BY <1>9, <1>11 DEF First, Awaits
  <2>2. \A u, z \in Tasks : Adjacent(u, z)' => z.op \notin Awaits
    BY <1>13 DEF Adjacent, Awaits
  <2> QED BY <2>1, <2>2 DEF Returned, Ready, Follows, Awaits
<1>19. \A d \in DOMAIN defs :
          defs[d].state \notin {"DEF_SCHEMA", "DEF_REF", "DEF_RESOLVING"}
  BY <1>1, AllAllocated DEF Opening, Allocating
<1>20. DefsWhole'
  <2>1. ASSUME NEW d \in DOMAIN defs PROVE DefWhole(d)'
    <3>1. DefWhole(d) BY <1>1 DEF DefsWhole
    <3>2. defs[d].state \notin {"DEF_SCHEMA", "DEF_REF", "DEF_RESOLVING"} BY <1>19
    <3>3. DOMAIN defs' = 1 .. Len(defs) /\ exit = "running" BY <1>1, <1>2 DEF Typed
    <3> QED BY <1>1, <1>5, <3>1, <3>2, <3>3, DefStays
  <2> QED BY <1>9, <1>11, <1>13, <2>1 DEF DefsWhole, Allocating
<1>21. LinksWhole'
  <2>1. ASSUME NEW t \in TypeInfos, NEW i \in DOMAIN infos[t].links PROVE LinkWhole(t, i)'
    <3>1. LinkWhole(t, i) BY <1>1 DEF LinksWhole
    <3>2. ~Pending(t, i)
      <4>1. \A k \in DOMAIN work : k = 1 BY <1>1, <1>3
      <4> QED BY <1>1, <4>1 DEF Pending, Due
    <3>3. CASE infos[t].links[i] # NULL BY <1>5, <3>1, <3>3, LinkStays
    <3>4. CASE infos[t].links[i] = NULL
      <4>1. Part(t, i) = None BY <1>2, <3>1, <3>2, <3>4 DEF LinkWhole
      <4>2. Part(t, i)' = Part(t, i) BY DEF Part
      <4> QED BY <3>4, <4>1, <4>2 DEF LinkWhole
    <3> QED BY <3>3, <3>4
  <2> QED BY <2>1 DEF LinksWhole, TypeInfos
<1>22. \A t \in TypeInfos : (IsGenerated(t))' = IsGenerated(t)
  BY DEF IsGenerated, IsStruct, IsArray
<1>23. \A t \in TypeInfos : /\ ~infos[t].named
                            /\ infos[t].defined = IF IsGenerated(t) THEN "NOT_DEFINED"
                                                  ELSE "DEFINED"
  BY <1>2 DEF Fresh
<1>24. header = Included /\ macros \subseteq {<<"eu_variant">>} BY <1>2 DEF Fresh
<1>25. \A what, t : (Emitted(what, t))' => t = 0
  BY <1>24, IncludedTyped DEF Emitted, Declares
<1>26. TypeInfos' = TypeInfos /\ 0 \notin TypeInfos BY DEF TypeInfos
<1>27. Lately' BY <1>2, <1>13 DEF Lately, Defining
<1>28. Chained'
  <2>1. \A z \in Tasks : First(z)' => z.op = "define"
    BY <1>9, <1>11 DEF First
  <2>2. \A u, z \in Tasks : Adjacent(u, z)' => z.op \in {"define", "define_definition", "exit"}
    BY <1>13 DEF Adjacent
  <2>3. \A z \in Tasks : First(z)' => Readied(z)' BY <2>1 DEF Readied
  <2>4. \A u, z \in Tasks : Adjacent(u, z)' => Following(u, z)' BY <2>2 DEF Following
  <2>5. \A k \in DOMAIN work' : ~(work'[k].op = "emit_members") BY <1>13
  <2> QED BY <2>3, <2>4, <2>5, Zenon DEF Chained
<1>29. Once' BY <1>13 DEF Once, Unique
<1>30. HeaderTyped'
  <2>1. \A k \in DOMAIN header' : k = 1 BY <1>24, IncludedTyped
  <2> QED BY <1>24, <2>1, IncludedTyped DEF HeaderTyped
<1>31. HeaderComplete'
  <2>1. \A k \in DOMAIN header' : header'[k].type = NULL /\ header'[k].what = "struct"
    BY <1>24, IncludedTyped DEF NULL
  <2> QED BY <2>1 DEF HeaderComplete, Complete
<1>32. AllWanted'
  <2>1. \A t \in TypeInfos' : IsGenerated(t)' => infos'[t].defined = "NOT_DEFINED"
    BY <1>22, <1>23, <1>26
  <2>2. IsGenerated(ret) => IsRoot(ret)
    <3>1. ASSUME IsGenerated(ret) PROVE IsRoot(ret)
      <4>1. CASE doc.main.is = "ref"
        <5>1. doc.main.to \in Settled /\ defs[doc.main.to].type = ret
          BY <1>6, <4>1 DEF Fits, TypeInfos
        <5> QED BY <5>1 DEF IsRoot, Settled
      <4>2. CASE doc.main.is # "ref"
        <5>1. infos[ret].schema = doc.main BY <1>6, <4>2 DEF Fits
        <5>2. ret # NULL BY <1>7, <1>26 DEF NULL
        <5> QED BY <1>6, <3>1, <5>1, <5>2 DEF IsMainType, IsRoot, IsGenerated, IsStruct, IsArray
      <4> QED BY <4>1, <4>2
    <3> QED BY <3>1
  <2>3. \A t : IsRoot(t)' = IsRoot(t) BY DEF IsRoot, IsMain
  <2>4. IsGenerated(ret)' => Wanted(ret)'
    BY <1>7, <1>22, <2>2, <2>3 DEF Wanted
  <2>5. ASSUME ~NamesClash', NEW t \in TypeInfos', IsGenerated(t)', Wanted(t)'
        PROVE  WillDefine(t)'
    <3>1. IsRoot(t)
      <4>1. \A s \in TypeInfos' : IsStruct(s)' => infos'[s].defined = "NOT_DEFINED"
        BY <2>1 DEF IsGenerated
      <4> QED BY <2>3, <2>5, <4>1 DEF Wanted
    <3>2. CASE \E d \in DOMAIN defs : t = defs[d].type
      <4>1. PICK d \in DOMAIN defs : t = defs[d].type BY <3>2
      <4>2. DefWhole(d) BY <1>1 DEF DefsWhole
      <4>3. t # NULL BY <1>26 DEF NULL
      <4>4. d \in Settled BY <4>1, <4>2, <4>3 DEF DefWhole
      <4>5. PICK e \in DOMAIN defs : defs[e].state = "DEF_SCHEMA_TYPE" /\ defs[e].type = t
        BY <4>1, <4>2, <4>3, <4>4 DEF DefWhole
      <4>6. Due("define_definition", e)' BY <1>13, <4>5
      <4> QED BY <4>5, <4>6 DEF WillDefine
    <3>3. CASE IsMain(t)
      <4>1. infos[t].schema = doc.main /\ infos[t].base_name = Tag(doc.main, Main)
        BY <3>3 DEF IsMain
      <4>2. doc.main.is \in {"object", "array"}
        BY <1>22, <1>26, <2>5, <4>1 DEF IsGenerated, IsStruct, IsArray
      <4>3. ret # NULL BY <1>7, <1>26 DEF NULL
      <4>4. infos[ret].base_name = Tag(doc.main, Main)
        BY <1>6, <4>2, <4>3 DEF IsMainType, IsMain
      <4>5. \A u, v \in TypeInfos : u # v => infos[u].base_name # infos[v].base_name
        BY <2>5 DEF NamesClash, TypeInfos
      <4>6. t = ret BY <1>7, <1>26, <4>1, <4>4, <4>5
      <4> QED BY <1>13, <4>6 DEF WillDefine
    <3> QED BY <3>1, <3>2, <3>3 DEF IsRoot
  <2>6. \A t \in TypeInfos' : (Due("define", t) \/ Due("members", t))' => t = ret
    BY <1>13
  <2> QED BY <2>1, <2>4, <2>5, <2>6 DEF AllWanted
<1>33. MembersFirst' BY <1>13 DEF MembersFirst
<1>34. \A t \in TypeInfos' : StateWhole(t)'
  <2> SUFFICES ASSUME NEW t \in TypeInfos' PROVE StateWhole(t)' OBVIOUS
  <2>1. \A what : ~(Emitted(what, t))' BY <1>25, <1>26
  <2>2. ~infos'[t].named /\ infos'[t].defined = IF IsGenerated(t)' THEN "NOT_DEFINED"
                                                ELSE "DEFINED"
    BY <1>22, <1>23, <1>26
  <2> QED BY <2>1, <2>2 DEF StateWhole
<1>35. HeaderInv'
  <2>1. Late' BY <1>2 DEF Late
  <2> QED BY <1>27, <1>28, <1>29, <1>30, <1>31, <1>32, <1>33, <1>34, <2>1
          DEF HeaderInv, LateWhole
<1> QED BY <1>14, <1>15, <1>16, <1>17, <1>18, <1>20, <1>21, <1>35 DEF CompilerInv

LEMMA DoCodegenStep == ASSUME CompilerInv, DoCodegen PROVE CompilerInv'
<1>1. PICK h \in Tasks : First(h) /\ h.op = "codegen" /\ TaskWhole(h) /\ h = Head(work)
  BY HeadWhole DEF DoCodegen
<1>2. UNCHANGED <<doc, exit, ret, defs, infos, header, macros>>
  BY DEF DoCodegen, KeepsTypes, Then
<1>3. /\ Typed /\ TypesWhole /\ Ordered /\ TasksWhole /\ Returned
      /\ work \in Seq(Tasks) /\ work # <<>> /\ work[1] = h /\ 1 \in DOMAIN work
      /\ DOMAIN defs = 1 .. Len(defs) /\ Len(defs) \in Nat
  BY <1>1 DEF CompilerInv, Typed, First
<1>4. Len(work) = 1
  <2>1. 1 = Len(work) BY <1>1, <1>3 DEF Ordered
  <2> QED BY <2>1
<1>5. PICK all : all = [d \in DOMAIN defs |-> d] OBVIOUS
<1>6. \/ errors /\ UNCHANGED files /\ NoError /\ Then(Task("exit", NULL))
      \/ ~errors /\ files' \in {{}, {"c"}} /\ Error /\ Then(Task("exit", NULL))
      \/ /\ ~errors /\ files' = {"c", "h"} /\ NoError
         /\ Then(Task("define", ret) \o TaskFor("define_definition", all)
                 \o Task("exit", NULL))
  BY <1>5, Zenon DEF DoCodegen
<1>7. CASE errors /\ UNCHANGED files /\ NoError /\ Then(Task("exit", NULL))
  <2>1. work' = Task("exit", 0) \o Tail(work) /\ errors' = errors
    BY <1>7, Zenon DEF Then, NoError, NULL
  <2>2. files = {} BY <1>1, Early DEF Defining
  <2>3. errors' \in BOOLEAN BY <1>3, <2>1 DEF Typed
  <2> QED BY <1>1, <1>2, <1>4, <1>7, <2>1, <2>2, <2>3, EndingStep
<1>8. CASE ~errors /\ files' \in {{}, {"c"}} /\ Error /\ Then(Task("exit", NULL))
  <2>1. work' = Task("exit", 0) \o Tail(work) /\ errors' = TRUE
    BY <1>8, Zenon DEF Then, Error, NULL
  <2> QED BY <1>1, <1>2, <1>4, <1>8, <2>1, EndingStep
<1>9. CASE /\ ~errors /\ files' = {"c", "h"} /\ NoError
           /\ Then(Task("define", ret) \o TaskFor("define_definition", all)
                   \o Task("exit", NULL))
  <2>1. errors' = errors /\ files' = {"c", "h"}
        /\ work' = (Task("define", ret) \o TaskFor("define_definition", all)
                    \o Task("exit", 0)) \o Tail(work)
    BY <1>9, Zenon DEF Then, NoError, NULL
  <2>2. PICK n \in Nat : n = Len(defs) /\ DOMAIN defs = 1 .. n BY <1>3
  <2>3. PICK x, y : x = [op |-> "define", arg |-> ret] /\ y = [op |-> "exit", arg |-> 0]
    OBVIOUS
  <2>4. x \in Tasks /\ y \in Tasks /\ x.op = "define" /\ x.arg = ret /\ y.op = "exit"
    <3>1. ret \in Nat BY <1>3 DEF Typed
    <3> QED BY <2>3, <3>1 DEF Tasks, Ops, Defining
  <2>5. Output(work', n, x, y)
    <3>1. PICK w : w = <<x>> \o TaskFor("define_definition", all) \o <<y>> OBVIOUS
    <3>2. all = [d \in 1 .. n |-> d] BY <1>5, <2>2
    <3>3. Output(w, n, x, y) BY <2>4, <3>1, <3>2, OutputPlanned, Zenon
    <3>4. Tail(work) = <<>>
      <4>1. Tail(work) \in Seq(Tasks) /\ Len(Tail(work)) = 0 BY <1>3, <1>4
      <4>2. \A t \in Seq(Tasks) : Len(t) = 0 => t = <<>> OBVIOUS
      <4> QED BY <4>1, <4>2
    <3>5. w \o <<>> = w
      <4>1. w \in Seq(Tasks) BY <3>3 DEF Output
      <4> QED BY <4>1
    <3>6. Task("define", ret) = <<x>> /\ Task("exit", 0) = <<y>> BY <2>3 DEF Task
    <3>7. work' = w BY <2>1, <3>1, <3>4, <3>5, <3>6
    <3> QED BY <3>3, <3>7
  <2> QED BY <1>1, <1>2, <1>9, <2>1, <2>2, <2>4, <2>5, CodegenStep
<1> QED BY <1>6, <1>7, <1>8, <1>9

LEMMA ExitStep == ASSUME CompilerInv, Exit PROVE CompilerInv'
<1>1. PICK h \in Tasks : First(h) /\ h.op = "exit" /\ TaskWhole(h) /\ h = Head(work)
  BY HeadWhole DEF Exit
<1>2. work' = <<>> /\ UNCHANGED <<doc, ret, errors, defs, infos, header, macros>>
  BY DEF Exit, KeepsTypes, NoError
<1>3. \/ errors /\ exit' \in {"error", "crashed"} /\ files' = {}
      \/ ~errors /\ exit' = "ok" /\ UNCHANGED files
  BY DEF Exit
<1>4. /\ Typed /\ TypesWhole /\ Ordered /\ TasksWhole /\ DefsWhole /\ LinksWhole /\ HeaderInv
      /\ work \in Seq(Tasks) /\ work # <<>> /\ work[1] = h /\ 1 \in DOMAIN work
      /\ DOMAIN defs = 1 .. Len(defs)
  BY <1>1 DEF CompilerInv, Typed, First
<1>5. \A k \in DOMAIN work : k = 1
  <2>1. 1 = Len(work) BY <1>1, <1>4 DEF Ordered
  <2> QED BY <1>4, <2>1
<1>6. work' \in Seq(Tasks) /\ DOMAIN work' = {} /\ ToSet(work') = {} BY <1>2, NoTask
<1>7. \A op, arg : (Due(op, arg) => op = "exit") /\ ~Due(op, arg)'
  BY <1>1, <1>4, <1>5, <1>6 DEF Due
<1>8. Keeps BY <1>2, AllKept
<1>9. Typed' BY <1>2, <1>3, <1>4, <1>6 DEF Typed
<1>10. TypesWhole' BY <1>2, <1>4 DEF TypesWhole, TypeInfos
<1>11. Ordered' BY <1>6 DEF Ordered
<1>12. TasksWhole'
  <2>1. Started' BY <1>2, <1>3, <1>4, <1>6 DEF TasksWhole, Started
  <2> QED BY <1>2, <1>6, <2>1 DEF TasksWhole
<1>13. Returned' BY <1>2, <1>6 DEF Returned, First, Adjacent
<1>14. DefsWhole'
  <2>1. ASSUME NEW d \in DOMAIN defs PROVE DefWhole(d)'
    <3>1. DefWhole(d) BY <1>4 DEF DefsWhole
    <3>2. exit' # "running" /\ defs'[d] = defs[d] /\ DOMAIN defs' = 1 .. Len(defs)
      BY <1>2, <1>3, <1>4
    <3> QED BY <1>4, <1>8, <3>1, <3>2, DefStays
  <2> QED BY <1>2, <1>6, <2>1 DEF DefsWhole
<1>15. LinksWhole'
  <2>1. ASSUME NEW t \in TypeInfos, NEW i \in DOMAIN infos[t].links PROVE LinkWhole(t, i)'
    <3>1. LinkWhole(t, i) BY <1>4 DEF LinksWhole
    <3>2. exit' # "running" /\ (files = {} => files' = {})
          /\ infos'[t].links[i] = infos[t].links[i]
      BY <1>2, <1>3
    <3> QED BY <1>8, <3>1, <3>2, LinkStays
  <2> QED BY <1>2, <2>1 DEF LinksWhole, TypeInfos
<1>16. TypeInfos' = TypeInfos
       /\ \A t : /\ (IsGenerated(t))' = IsGenerated(t) /\ (IsStruct(t))' = IsStruct(t)
                 /\ (IsArray(t))' = IsArray(t)
  BY <1>2 DEF IsGenerated, IsStruct, IsArray, TypeInfos
<1>17. CASE ~Late
  <2>1. Fresh /\ errors
    <3>1. Fresh BY <1>4, <1>17 DEF HeaderInv
    <3> QED BY <1>1, <1>4, <3>1 DEF Fresh
  <2>2. Fresh' BY <1>2, <1>3, <1>6, <1>16, <2>1 DEF Fresh
  <2>3. ~Late' BY <1>3, <2>1 DEF Late
  <2>4. HeaderInv' BY <2>2, <2>3 DEF HeaderInv
  <2> QED BY <1>9, <1>10, <1>11, <1>12, <1>13, <1>14, <1>15, <2>4 DEF CompilerInv
<1>18. CASE Late
  <2>1. LateWhole BY <1>4, <1>18 DEF HeaderInv
  <2>2. ~errors /\ exit' = "ok" /\ files' = files BY <1>3, <2>1 DEF LateWhole, Lately
  <2>3. Lately' BY <1>2, <1>6, <2>2 DEF Lately
  <2>4. Chained' BY <1>2, <1>6 DEF Chained, First, Adjacent
  <2>5. Once' BY <1>6, <1>7 DEF Once, Unique
  <2>6. \A what, t : (Emitted(what, t))' = Emitted(what, t)
        /\ \A k : (Complete(k))' = Complete(k)
    BY <1>2 DEF Emitted, Declares, Complete, IsStruct, IsArray, IsGenerated, Extras,
                MemberTypes, Before
  <2>7. (NamesClash)' = NamesClash BY <1>2 DEF NamesClash, TypeInfos
  <2>8. HeaderTyped'
    <3>1. HeaderTyped BY <2>1 DEF LateWhole
    <3> QED BY <1>2, <1>16, <2>6, <3>1 DEF HeaderTyped
  <2>9. HeaderComplete'
    <3>1. HeaderComplete BY <2>1 DEF LateWhole
    <3> QED BY <1>2, <2>6, <2>7, <3>1 DEF HeaderComplete
  <2>10. \A t : (Wanted(t))' = Wanted(t)
    BY <1>2 DEF Wanted, IsRoot, IsMain, IsStruct, TypeInfos
  <2>11. AllWanted'
    <3>1. AllWanted BY <2>1 DEF LateWhole
    <3>2. \A t : ~WillDefine(t) BY <1>7 DEF WillDefine
    <3>3. \A t : ~Due("define", t)' /\ ~Due("members", t)' BY <1>7
    <3>4. \A t \in TypeInfos : IsGenerated(t) /\ infos[t].defined # "NOT_DEFINED" => Wanted(t)
      BY <3>1 DEF AllWanted
    <3>5. ~NamesClash => \A t \in TypeInfos :
             IsGenerated(t) /\ Wanted(t) => infos[t].defined # "NOT_DEFINED"
      BY <3>1, <3>2 DEF AllWanted
    <3> QED BY <1>2, <1>16, <2>7, <2>10, <3>3, <3>4, <3>5 DEF AllWanted
  <2>12. MembersFirst' BY <1>7 DEF MembersFirst
  <2>13. ASSUME NEW t \in TypeInfos PROVE StateWhole(t)'
    <3>1. StateWhole(t) BY <2>1 DEF LateWhole
    <3>2. infos[t].defined # "DEFINING" BY <1>7, <3>1 DEF StateWhole
    <3>3. (Extras(t))' = Extras(t) BY <1>2 DEF Extras
    <3> QED BY <1>2, <1>16, <2>6, <2>7, <3>1, <3>2, <3>3 DEF StateWhole
  <2>14. Late' BY <1>18, <2>2 DEF Late
  <2>15. LateWhole' BY <1>16, <2>3, <2>4, <2>5, <2>8, <2>9, <2>11, <2>12, <2>13 DEF LateWhole
  <2>16. HeaderInv' BY <2>14, <2>15 DEF HeaderInv
  <2> QED BY <1>9, <1>10, <1>11, <1>12, <1>13, <1>14, <1>15, <2>16 DEF CompilerInv
<1> QED BY <1>17, <1>18

-----------------------------------------------------------------------------
(***************************************************************************)
(* The output: what its steps share.                                       *)
(***************************************************************************)
\* A call that defines a type is made only while the output is written.
LEMMA LateNow ==
    ASSUME CompilerInv, NEW h, First(h), h.op \in Defining
    PROVE  /\ Late /\ LateWhole /\ files = {"c", "h"} /\ exit = "running" /\ ~errors
           /\ work \in Seq(Tasks) /\ work # <<>> /\ work[1] = h /\ h \in Tasks
           /\ 1 \in DOMAIN work /\ TaskWhole(h)
           /\ \A k \in DOMAIN work : work[k].op \in Defining \cup {"exit"}
           /\ \A x \in ToSet(work) : x.op \in Defining \cup {"exit"}
           /\ \A op, arg : Due(op, arg) => op \in Defining \cup {"exit"}
<1>1. work \in Seq(Tasks) /\ work # <<>> /\ work[1] = h /\ h \in Tasks /\ 1 \in DOMAIN work
  BY DEF CompilerInv, Typed, First
<1>2. ~Fresh BY <1>1 DEF Fresh
<1>3. Late /\ LateWhole BY <1>2 DEF CompilerInv, HeaderInv
<1>4. ~errors /\ \A k \in DOMAIN work : work[k].op \in Defining \cup {"exit"}
  BY <1>3 DEF LateWhole, Lately
<1>5. exit = "running" BY <1>1 DEF CompilerInv, TasksWhole
<1>6. h \in ToSet(work) BY <1>1, InWork
<1>7. TaskWhole(h) BY <1>6 DEF CompilerInv, TasksWhole
<1>8. \A x \in ToSet(work) : x.op \in Defining \cup {"exit"} BY <1>4 DEF ToSet
<1>9. \A op, arg : Due(op, arg) => op \in Defining \cup {"exit"} BY <1>4 DEF Due
<1> QED BY <1>1, <1>3, <1>4, <1>5, <1>7, <1>8, <1>9 DEF Late

\* Types only change in how far they have been defined.
SameTypes ==
    /\ doc' = doc /\ defs' = defs /\ TypeInfos' = TypeInfos
    /\ \A t \in TypeInfos : /\ infos'[t].schema = infos[t].schema
                            /\ infos'[t].base_name = infos[t].base_name
                            /\ infos'[t].links = infos[t].links

LEMMA SameTypesKept ==
    ASSUME SameTypes
    PROVE  /\ \A t \in TypeInfos : /\ (IsStruct(t))' = IsStruct(t)
                                   /\ (IsArray(t))' = IsArray(t)
                                   /\ (IsGenerated(t))' = IsGenerated(t)
                                   /\ (Extras(t))' = Extras(t)
                                   /\ (MemberTypes(t))' = MemberTypes(t)
                                   /\ (IsMain(t))' = IsMain(t)
                                   /\ (IsRoot(t))' = IsRoot(t)
           /\ (NamesClash)' = NamesClash
<1>1. ASSUME NEW t \in TypeInfos
      PROVE  /\ (IsStruct(t))' = IsStruct(t)
             /\ (IsArray(t))' = IsArray(t)
             /\ (IsGenerated(t))' = IsGenerated(t)
             /\ (Extras(t))' = Extras(t)
             /\ (MemberTypes(t))' = MemberTypes(t)
             /\ (IsMain(t))' = IsMain(t)
             /\ (IsRoot(t))' = IsRoot(t)
  <2>1. infos'[t].schema = infos[t].schema /\ infos'[t].base_name = infos[t].base_name
        /\ infos'[t].links = infos[t].links /\ doc' = doc /\ defs' = defs
    BY DEF SameTypes
  <2>2. (IsStruct(t))' = IsStruct(t) /\ (IsArray(t))' = IsArray(t)
    BY <2>1 DEF IsStruct, IsArray
  <2>3. (IsGenerated(t))' = IsGenerated(t) BY <2>2 DEF IsGenerated
  <2>4. (Extras(t))' = Extras(t) /\ (MemberTypes(t))' = MemberTypes(t)
    BY <2>1 DEF Extras, MemberTypes
  <2>5. (IsMain(t))' = IsMain(t) BY <2>1 DEF IsMain
  <2>6. (IsRoot(t))' = IsRoot(t) BY <2>1, <2>5 DEF IsRoot
  <2> QED BY <2>2, <2>3, <2>4, <2>5, <2>6
<1>2. (NamesClash)' = NamesClash BY DEF SameTypes, NamesClash
<1> QED BY <1>1, <1>2

\* Types and declarations apart, a step of the output keeps what there is.
LEMMA LateStep ==
    ASSUME CompilerInv, NEW h, First(h), h.op \in Defining,
           NEW ts \in Seq(Tasks), work' = ts \o Tail(work),
           \A x \in ToSet(ts) : x.op \in Defining /\ TaskWhole(x)',
           UNCHANGED <<exit, ret, errors, files>>, SameTypes,
           infos' \in Seq(TypeRecords), Len(infos') = Len(infos),
           header' \in Seq(Declarations),
           \A k \in DOMAIN header' : header'[k].type \in 0 .. Len(infos),
           \A name \in macros' : \E t \in TypeInfos : name = infos[t].base_name,
           LateWhole'
    PROVE  CompilerInv'
<1>1. /\ Late /\ LateWhole /\ files = {"c", "h"} /\ exit = "running" /\ ~errors
      /\ work \in Seq(Tasks) /\ work # <<>> /\ work[1] = h /\ h \in Tasks
      /\ \A x \in ToSet(work) : x.op \in Defining \cup {"exit"}
      /\ \A op, arg : Due(op, arg) => op \in Defining \cup {"exit"}
  BY LateNow
<1>2. /\ Typed /\ TypesWhole /\ Ordered /\ TasksWhole /\ DefsWhole /\ LinksWhole
      /\ DOMAIN defs = 1 .. Len(defs)
  BY DEF CompilerInv, Typed
<1>3. /\ work' \in Seq(Tasks) /\ ToSet(work') \subseteq ToSet(work) \cup ToSet(ts)
  BY <1>1, Neighbours
<1>4. \A x \in ToSet(work') : x.op \in Defining \cup {"exit"} BY <1>1, <1>3
<1>5. doc' = doc /\ defs' = defs /\ TypeInfos' = TypeInfos BY DEF SameTypes
<1>6. Keeps
  <2>1. \A t \in TypeInfos : /\ infos'[t].schema = infos[t].schema
                             /\ infos'[t].base_name = infos[t].base_name
                             /\ DOMAIN infos'[t].links = DOMAIN infos[t].links
    BY DEF SameTypes
  <2>2. Settled' = Settled BY <1>5 DEF Settled
  <2>3. \A d \in Settled : d \in Settled' /\ defs'[d] = defs[d] BY <1>5, <2>2
  <2> QED BY <1>5, <2>1, <2>3 DEF Keeps
<1>7. Typed' BY <1>2, <1>3, <1>5 DEF Typed
<1>8. TypesWhole'
  <2>1. Len(infos) \in Nat /\ Len(infos) >= 2 BY <1>2 DEF TypesWhole, Typed
  <2>2. 1 \in TypeInfos /\ 2 \in TypeInfos BY <2>1 DEF TypeInfos
  <2>3. infos'[1].schema = Scalar /\ infos'[2].schema = AnyValue
        /\ infos'[2].base_name = <<"eu_variant">>
    BY <1>2, <2>2 DEF SameTypes, TypesWhole
  <2>4. \A t \in TypeInfos :
           /\ Len(infos'[t].links) = Len(Subschemas(infos'[t].schema))
           /\ \A i \in DOMAIN infos'[t].links : infos'[t].links[i] \in 0 .. Len(infos')
           /\ infos'[t].base_name = Tag(infos'[t].schema, infos'[t].base_name)
    BY <1>2 DEF SameTypes, TypesWhole
  <2>5. \A name \in macros' : \E t \in TypeInfos' : name = infos'[t].base_name
    BY DEF SameTypes
  <2> QED BY <1>5, <2>1, <2>3, <2>4, <2>5 DEF TypesWhole
<1>9. Ordered'
  <2>1. \A k \in DOMAIN ts : ts[k].op \in Defining BY DEF ToSet
  <2> QED BY <1>1, <1>2, <2>1, OrderKept
<1>10. TasksWhole'
  <2>1. \A x \in ToSet(ts) : TaskWhole(x)' /\ x.op \notin Opening BY DEF Defining, Opening
  <2> QED BY <1>2, <1>6, <2>1, TasksKept
<1>11. Returned'
  <2>1. \A x : x.op \in Defining \cup {"exit"} => x.op \notin Awaits BY DEF Defining, Awaits
  <2>2. /\ \A x : First(x)' => x \in ToSet(work')
        /\ \A x, y : Adjacent(x, y)' => y \in ToSet(work')
    <3>1. work' # <<>> => 1 \in DOMAIN work' BY <1>3
    <3>2. \A k \in DOMAIN work' : work'[k] \in ToSet(work') BY DEF ToSet
    <3> QED BY <3>1, <3>2 DEF First, Adjacent
  <2>3. \A x \in Tasks : First(x)' => Ready(x)' BY <1>4, <2>1, <2>2 DEF Ready, Awaits
  <2>4. \A x, y \in Tasks : Adjacent(x, y)' => Follows(x, y)'
    BY <1>4, <2>1, <2>2 DEF Follows, Awaits
  <2> QED BY <2>3, <2>4 DEF Returned
<1>12. DefsWhole'
  <2>1. ASSUME NEW d \in DOMAIN defs PROVE DefWhole(d)'
    <3>1. DefWhole(d) BY <1>2 DEF DefsWhole
    <3>2. ~Due("alloc", d) /\ ~Due("resolved", d)
      <4>1. "alloc" \notin Defining \cup {"exit"} /\ "resolved" \notin Defining \cup {"exit"}
        BY DEF Defining
      <4> QED BY <1>1, <4>1, Zenon
    <3>3. defs[d].state \notin {"DEF_SCHEMA", "DEF_REF", "DEF_RESOLVING"}
      BY <1>1, <3>1, <3>2 DEF DefWhole
    <3>4. defs'[d] = defs[d] /\ DOMAIN defs' = 1 .. Len(defs) BY <1>2, <1>5
    <3> QED BY <1>1, <1>2, <1>6, <3>1, <3>3, <3>4, DefStays
  <2>2. \A k \in DOMAIN work' : work'[k] \in ToSet(work') BY DEF ToSet
  <2>3. \A k \in DOMAIN work' : work'[k].op \notin Allocating
    BY <1>4, <2>2 DEF Allocating, Defining
  <2>4. work' # <<>> => 1 \in DOMAIN work' BY <1>3
  <2> QED BY <1>5, <2>1, <2>3, <2>4 DEF DefsWhole, Allocating
<1>13. LinksWhole'
  <2>1. ASSUME NEW t \in TypeInfos, NEW i \in DOMAIN infos[t].links PROVE LinkWhole(t, i)'
    <3>1. LinkWhole(t, i) BY <1>2 DEF LinksWhole
    <3>2. infos'[t].links[i] = infos[t].links[i] /\ files # {} BY <1>1 DEF SameTypes
    <3> QED BY <1>6, <3>1, <3>2, LinkStays
  <2>2. \A t \in TypeInfos : DOMAIN infos'[t].links = DOMAIN infos[t].links BY DEF SameTypes
  <2> QED BY <1>5, <2>1, <2>2 DEF LinksWhole
<1>14. HeaderInv'
  <2>1. Late' BY <1>1 DEF Late
  <2> QED BY <2>1 DEF HeaderInv
<1> QED BY <1>7, <1>8, <1>9, <1>10, <1>11, <1>12, <1>13, <1>14 DEF CompilerInv

\* What a struct is linked to, when there has been no error.
LEMMA StructLinks ==
    ASSUME CompilerInv, Late, NEW t \in TypeInfos, IsStruct(t)
    PROVE  /\ Extras(t) \in TypeInfos
           /\ MemberTypes(t) \in Seq(TypeInfos)
           /\ ToSet(MemberTypes(t)) \subseteq ToSet(infos[t].links)
           /\ \A m \in ToSet(infos[t].links) :
                 m = NULL \/ m = Extras(t) \/ m \in ToSet(MemberTypes(t))
           /\ Extras(t) = variant_type \/ Extras(t) \in ToSet(infos[t].links)
<1>1. Typed /\ TypesWhole /\ LinksWhole BY DEF CompilerInv
<1>2. PICK l, n : l = infos[t].links /\ n = Len(l) OBVIOUS
<1>3. /\ l \in Seq(Nat) /\ n \in Nat /\ DOMAIN l = 1 .. n /\ n >= 1
      /\ \A i \in DOMAIN l : l[i] \in 0 .. Len(infos)
      /\ infos[t].schema \in AllSchemas /\ n = Len(Subschemas(infos[t].schema))
  BY <1>1, <1>2, InfoTyped
<1>4. Len(infos) \in Nat /\ 2 \in TypeInfos BY <1>1 DEF TypesWhole, Typed, TypeInfos
<1>5. PICK s : s = infos[t].schema OBVIOUS
<1>6. /\ s.is = "object" /\ s \in AllSchemas /\ n = Len(s.members) + 1
      /\ \A i \in 2 .. Len(s.members) + 1 : Subschemas(s)[i] \in Schemas
  BY <1>3, <1>5, SubschemasTyped DEF IsStruct
<1>7. ASSUME NEW i \in 2 .. n PROVE l[i] \in TypeInfos
  <2>1. i \in DOMAIN l BY <1>3
  <2>2. Part(t, i) \in Schemas BY <1>5, <1>6 DEF Part
  <2>3. Part(t, i) # None BY <2>2, SchemaShapes DEF AllSchemas
  <2>4. LinkWhole(t, i) BY <1>1, <1>2, <2>1 DEF LinksWhole
  <2>5. l[i] # NULL
    <3>1. files # {} BY DEF Late
    <3>2. infos[t].links[i] = NULL => Part(t, i) = None \/ files = {}
      BY <2>4, Zenon DEF LinkWhole
    <3>3. infos[t].links[i] # NULL BY <2>3, <3>1, <3>2, Zenon
    <3> QED BY <1>2, <3>3, Zenon
  <2>6. l[i] \in 0 .. Len(infos) BY <1>3, <2>1, Zenon
  <2>7. PICK u, m : u = l[i] /\ m = Len(infos) OBVIOUS
  <2>8. m \in Nat /\ u \in 0 .. m /\ u # 0 BY <1>4, <2>5, <2>6, <2>7, Zenon DEF NULL
  <2>9. u \in 1 .. m BY <2>8
  <2> QED BY <2>7, <2>9, Zenon DEF TypeInfos
<1>8. Extras(t) = (IF l[1] = NULL THEN variant_type ELSE l[1]) /\ MemberTypes(t) = Tail(l)
  BY <1>2 DEF Extras, MemberTypes
<1>9. 1 \in DOMAIN l BY <1>3
<1>10. Extras(t) \in TypeInfos
  <2>1. l[1] \in 0 .. Len(infos) BY <1>3, <1>9
  <2> QED BY <1>4, <1>8, <2>1 DEF TypeInfos, NULL, variant_type
<1>11. PICK r : r = Tail(l) OBVIOUS
<1>12. r \in Seq(Nat) /\ Len(r) = n - 1 /\ DOMAIN r = 1 .. n - 1
  BY <1>2, <1>3, <1>11
<1>13. \A i \in 1 .. n - 1 : r[i] = l[i + 1] BY <1>2, <1>3, <1>11
<1>14. \A i \in 1 .. n - 1 : i + 1 \in 2 .. n /\ i + 1 \in DOMAIN l BY <1>3
<1>15. \A i \in DOMAIN r : r[i] \in TypeInfos BY <1>7, <1>12, <1>13, <1>14
<1>16. r \in Seq(TypeInfos) BY <1>12, <1>15
<1>17. ToSet(r) \subseteq ToSet(l) BY <1>12, <1>13, <1>14 DEF ToSet
<1>18. ASSUME NEW m \in ToSet(l) PROVE m = NULL \/ m = Extras(t) \/ m \in ToSet(r)
  <2>1. PICK i \in DOMAIN l : m = l[i] BY DEF ToSet
  <2>2. CASE i = 1 BY <1>8, <2>1, <2>2
  <2>3. CASE i # 1
    <3>1. i - 1 \in 1 .. n - 1 /\ i - 1 + 1 = i BY <1>3, <2>1, <2>3
    <3>2. r[i - 1] = l[i] /\ i - 1 \in DOMAIN r BY <1>12, <1>13, <3>1
    <3> QED BY <2>1, <3>2 DEF ToSet
  <2> QED BY <2>2, <2>3
<1>19. Extras(t) = variant_type \/ Extras(t) \in ToSet(l) BY <1>8, <1>9 DEF ToSet
<1> QED BY <1>2, <1>8, <1>10, <1>11, <1>16, <1>17, <1>18, <1>19

\* What is due after a step was due before, or is new.
LEMMA LateDues ==
    ASSUME work \in Seq(Tasks), NEW h, First(h), NEW ts \in Seq(Tasks),
           work' = ts \o Tail(work)
    PROVE  \A op, arg : Due(op, arg)' =>
              Due(op, arg) \/ \E x \in ToSet(ts) : x.op = op /\ x.arg = arg
<1>1. ToSet(work') \subseteq ToSet(work) \cup ToSet(ts) BY Neighbours
<1>2. \A k \in DOMAIN work' : work'[k] \in ToSet(work') BY DEF ToSet
<1>3. \A x \in ToSet(work) : Due(x.op, x.arg) BY InWork
<1>4. ASSUME NEW op, NEW arg, Due(op, arg)'
      PROVE  Due(op, arg) \/ \E x \in ToSet(ts) : x.op = op /\ x.arg = arg
  <2>1. PICK x : x \in ToSet(work') /\ x.op = op /\ x.arg = arg BY <1>2, <1>4 DEF Due
  <2>2. CASE x \in ToSet(ts) BY <2>1, <2>2
  <2>3. CASE x \in ToSet(work) BY <1>3, <2>1, <2>3
  <2> QED BY <1>1, <2>1, <2>2, <2>3
<1> QED BY <1>4

\* The positions of what is left.
LEMMA LeftPositions ==
    \A m, j, k \in Nat : /\ j > 1 /\ j < k => m + j - 1 < m + k - 1
                         /\ j > m /\ k > m /\ j - m + 1 = k - m + 1 => j = k
OBVIOUS

\* The order of what is left stays.
LEMMA PrecedesStays ==
    ASSUME work \in Seq(Tasks), NEW h, First(h), NEW ts \in Seq(Tasks),
           work' = ts \o Tail(work), NEW m, NEW t, Precedes(m, t),
           ~(h.op = "define" /\ h.arg = m)
    PROVE  Precedes(m, t)'
<1>1. PICK j, k \in DOMAIN work : /\ j < k /\ work[j].op = "define" /\ work[j].arg = m
                                  /\ work[k].op = "emit" /\ work[k].arg = t
  BY DEF Precedes
<1>2. work # <<>> /\ work[1] = h BY DEF First
<1>3. j \in Nat /\ k \in Nat /\ j > 1 /\ k > 1
  <2>1. j # 1 BY <1>1, <1>2
  <2>2. j \in 1 .. Len(work) /\ k \in 1 .. Len(work) /\ Len(work) \in Nat OBVIOUS
  <2> QED BY <1>1, <2>1, <2>2
<1>4. /\ Len(ts) \in Nat
      /\ \A i \in DOMAIN work : i > 1 => /\ Len(ts) + i - 1 \in DOMAIN work'
                                         /\ work'[Len(ts) + i - 1] = work[i]
  <2>1. work \in Seq(Tasks) /\ work # <<>> /\ ts \in Seq(Tasks) /\ work' = ts \o Tail(work)
    BY <1>2
  <2> QED BY <2>1, Pushed, SMTT(60)
<1>5. PICK p, q : p = Len(ts) + j - 1 /\ q = Len(ts) + k - 1 OBVIOUS
<1>6. p \in DOMAIN work' /\ q \in DOMAIN work' /\ work'[p] = work[j] /\ work'[q] = work[k]
  BY <1>3, <1>4, <1>5, Zenon
<1>7. p < q BY <1>1, <1>3, <1>4, <1>5, LeftPositions
<1> QED BY <1>1, <1>6, <1>7 DEF Precedes

\* What is made once is left to be made once.
LEMMA UniqueLeft ==
    ASSUME work \in Seq(Tasks), NEW h, First(h), NEW ts \in Seq(Tasks),
           work' = ts \o Tail(work), Unique(work), Unique(ts),
           \A x \in ToSet(ts) : x.op \in {"emit", "defined"} => ~Due(x.op, x.arg)
    PROVE  Unique(work')
<1>1. work # <<>> BY DEF First
<1>2. PICK m : m = Len(ts) OBVIOUS
<1>3. /\ m \in Nat /\ work' \in Seq(Tasks)
      /\ \A k \in DOMAIN work' : k > m => /\ k - m + 1 \in DOMAIN work
                                          /\ work'[k] = work[k - m + 1]
      /\ \A k \in DOMAIN work' : k <= m => k \in DOMAIN ts
      /\ \A k \in DOMAIN ts : work'[k] = ts[k]
  <2>1. work \in Seq(Tasks) /\ work # <<>> /\ ts \in Seq(Tasks) /\ work' = ts \o Tail(work)
    BY <1>1
  <2> QED BY <1>2, <2>1, Pushed
<1>4. \A k \in DOMAIN work' : k \in Nat /\ (k <= m \/ k > m) BY <1>3
<1>5. \A k \in DOMAIN ts : ts[k] \in ToSet(ts) BY DEF ToSet
<1>6. ASSUME NEW j \in DOMAIN work', NEW k \in DOMAIN work',
             work'[j].op \in {"emit", "defined"}, work'[j].op = work'[k].op,
             work'[j].arg = work'[k].arg
      PROVE  j = k
  <2>1. CASE j <= m /\ k <= m
    <3>1. j \in DOMAIN ts /\ k \in DOMAIN ts /\ work'[j] = ts[j] /\ work'[k] = ts[k]
      BY <1>3, <2>1
    <3> QED BY <1>6, <3>1 DEF Unique
  <2>2. CASE j <= m /\ k > m
    <3>1. work'[j] = ts[j] /\ ts[j] \in ToSet(ts) BY <1>3, <1>5, <2>2
    <3>2. Due(work'[k].op, work'[k].arg) BY <1>3, <2>2 DEF Due
    <3> QED BY <1>6, <3>1, <3>2
  <2>3. CASE j > m /\ k <= m
    <3>1. work'[k] = ts[k] /\ ts[k] \in ToSet(ts) BY <1>3, <1>5, <2>3
    <3>2. Due(work'[j].op, work'[j].arg) BY <1>3, <2>3 DEF Due
    <3> QED BY <1>6, <3>1, <3>2
  <2>4. CASE j > m /\ k > m
    <3>1. PICK p, q : p = j - m + 1 /\ q = k - m + 1 OBVIOUS
    <3>2. /\ p \in DOMAIN work /\ q \in DOMAIN work
          /\ work'[j] = work[p] /\ work'[k] = work[q]
      BY <1>3, <2>4, <3>1, Zenon
    <3>3. p = q BY <1>6, <3>2 DEF Unique
    <3> QED BY <1>3, <1>4, <2>4, <3>1, <3>3, LeftPositions
  <2> QED BY <1>4, <2>1, <2>2, <2>3, <2>4
<1> QED BY <1>6, Zenon DEF Unique

\* What is made once is not due any more when it has been made.
LEMMA FirstOnly ==
    ASSUME work \in Seq(Tasks), NEW h, First(h), work' = <<>> \o Tail(work),
           Unique(work), h.op \in {"emit", "defined"}
    PROVE  ~Due(h.op, h.arg)'
<1>1. work # <<>> /\ work[1] = h /\ 1 \in DOMAIN work BY DEF First
<1>2. work' = Tail(work) BY <1>1, NothingPut
<1>3. PICK v : v = work' OBVIOUS
<1>4. \A k \in DOMAIN v : k + 1 \in DOMAIN work /\ k + 1 # 1 /\ v[k] = work[k + 1]
  BY <1>1, <1>2, <1>3, TailPositions
<1>5. ASSUME NEW k \in DOMAIN v, v[k].op = h.op, v[k].arg = h.arg PROVE FALSE
  <2>1. PICK i : i = k + 1 OBVIOUS
  <2>2. i \in DOMAIN work /\ i # 1 /\ v[k] = work[i] BY <1>4, <2>1, Zenon
  <2> QED BY <1>1, <1>5, <2>2 DEF Unique
<1> QED BY <1>3, <1>5 DEF Due

-----------------------------------------------------------------------------
(***************************************************************************)
(* The output: that what comes next is ready for it.                       *)
(***************************************************************************)

\* What follows a call does so as long as types stay the same.
LEMMA FollowingStays ==
    ASSUME SameTypes, NEW x, NEW y, TaskWhole(y), Following(x, y)
    PROVE  Following(x, y)'
<1>1. y.op = "emit" => y.arg \in TypeInfos BY DEF TaskWhole
<1>2. y.op = "emit" => (IsStruct(y.arg))' = IsStruct(y.arg) /\ (Extras(y.arg))' = Extras(y.arg)
  BY <1>1, SameTypesKept
<1> QED BY <1>2 DEF Following

\* A call that is followed by what is ready is done.
LEMMA ChainedNext ==
    ASSUME CompilerInv, NEW h, First(h), h.op \in Defining,
           work' = <<>> \o Tail(work), SameTypes,
           \A y \in Tasks : Adjacent(h, y) /\ TaskWhole(y) /\ Following(h, y) => Readied(y)'
    PROVE  Chained'
<1>1. LateWhole /\ work \in Seq(Tasks) /\ work # <<>> /\ 1 \in DOMAIN work BY LateNow
<1>2. work' = Tail(work) BY <1>1, NothingPut
<1>3. /\ \A x : First(x)' => Adjacent(h, x)
      /\ \A x, y : Adjacent(x, y)' => Adjacent(x, y)
  BY <1>1, <1>2, NeighboursLeft
<1>4. \A x, y : Adjacent(x, y) => y \in Tasks /\ x \in Tasks /\ y \in ToSet(work)
  BY <1>1, InWork
<1>5. \A x \in ToSet(work) : TaskWhole(x) BY DEF CompilerInv, TasksWhole
<1>6. \A x, y \in Tasks : Adjacent(x, y) => Following(x, y) BY <1>1 DEF LateWhole, Chained
<1>7. \A x \in Tasks : First(x)' => Readied(x)'
  <2>1. h \in Tasks BY LateNow
  <2> QED BY <1>3, <1>4, <1>5, <1>6, <2>1, Zenon
<1>8. ASSUME NEW x \in Tasks, NEW y \in Tasks, Adjacent(x, y)' PROVE Following(x, y)'
  <2>1. Following(x, y) /\ TaskWhole(y) BY <1>3, <1>4, <1>5, <1>6, <1>8
  <2> QED BY <2>1, FollowingStays
<1>9. PICK v : v = work' OBVIOUS
<1>10. ASSUME NEW k \in DOMAIN v, k > 1, v[k].op = "emit_members", v[k - 1].op = "define"
       PROVE  FALSE
  <2>1. /\ v \in Seq(Tasks)
        /\ \A i \in DOMAIN v : i \in Nat /\ i + 1 \in DOMAIN work /\ v[i] = work[i + 1]
    BY <1>1, <1>2, <1>9, TailPositions
  <2>2. k \in Nat /\ k - 1 \in DOMAIN v /\ k - 1 + 1 = k BY <1>10, <2>1
  <2>3. PICK i : i = k + 1 OBVIOUS
  <2>4. i \in DOMAIN work /\ v[k] = work[i] /\ i > 2 /\ i - 1 = k BY <1>10, <2>1, <2>2, <2>3
  <2>5. v[k - 1] = work[k] BY <2>1, <2>2
  <2>6. work[i].op = "emit_members" /\ work[i - 1].op = "define" BY <1>10, <2>4, <2>5
  <2>7. i = 2 BY <1>1, <2>4, <2>6 DEF LateWhole, Chained
  <2> QED BY <2>4, <2>7
<1> QED BY <1>7, <1>8, <1>9, <1>10 DEF Chained

\* A call that makes others is done when they can follow one another.
LEMMA ChainedPushed ==
    ASSUME CompilerInv, NEW h, First(h), h.op \in Defining,
           NEW ts \in Seq(Tasks), ts # <<>>, work' = ts \o Tail(work), SameTypes,
           Readied(ts[1])',
           \A k \in DOMAIN ts : k > 1 =>
              /\ Following(ts[k - 1], ts[k])'
              /\ ts[k].op = "emit_members" /\ ts[k - 1].op = "define"
                 => k = 2 /\ ~infos'[ts[k].arg].named,
           \A y \in Tasks : Adjacent(h, y) /\ TaskWhole(y) /\ Following(h, y) =>
              /\ Following(ts[Len(ts)], y)'
              /\ ts[Len(ts)].op = "define" => y.op # "emit_members"
    PROVE  Chained'
<1>1. LateWhole /\ work \in Seq(Tasks) /\ work # <<>> /\ 1 \in DOMAIN work /\ h \in Tasks
      /\ work[1] = h
  BY LateNow
<1>2. /\ work' \in Seq(Tasks)
      /\ \A x : First(x)' => x = ts[1]
      /\ \A x, y : Adjacent(x, y)' =>
            \/ Adjacent(x, y)
            \/ \E k \in DOMAIN ts : k > 1 /\ ts[k - 1] = x /\ ts[k] = y
            \/ x = ts[Len(ts)] /\ Adjacent(h, y)
  <2>1. work \in Seq(Tasks) /\ First(h) /\ ts \in Seq(Tasks) /\ work' = ts \o Tail(work)
    BY <1>1
  <2>2. /\ work' \in Seq(Tasks)
        /\ \A x : First(x)' => IF ts # <<>> THEN x = ts[1] ELSE Adjacent(h, x)
        /\ \A x, y : Adjacent(x, y)' =>
              \/ Adjacent(x, y)
              \/ \E k \in DOMAIN ts : k > 1 /\ ts[k - 1] = x /\ ts[k] = y
              \/ ts # <<>> /\ x = ts[Len(ts)] /\ Adjacent(h, y)
    BY <2>1, Neighbours, ZenonT(60)
  <2> QED BY <2>2, Zenon
<1>3. \A x, y : Adjacent(x, y) => y \in Tasks /\ x \in Tasks /\ y \in ToSet(work)
  BY <1>1, InWork
<1>4. \A x \in ToSet(work) : TaskWhole(x) BY DEF CompilerInv, TasksWhole
<1>5. \A x, y \in Tasks : Adjacent(x, y) => Following(x, y) BY <1>1 DEF LateWhole, Chained
<1>6. ASSUME NEW x \in Tasks, NEW y \in Tasks, Adjacent(x, y)' PROVE Following(x, y)'
  <2>1. CASE Adjacent(x, y)
    <3>1. Following(x, y) /\ TaskWhole(y) BY <1>3, <1>4, <1>5, <2>1
    <3> QED BY <3>1, FollowingStays
  <2>2. CASE \E k \in DOMAIN ts : k > 1 /\ ts[k - 1] = x /\ ts[k] = y BY <2>2
  <2>3. CASE x = ts[Len(ts)] /\ Adjacent(h, y)
    <3>1. Following(h, y) /\ TaskWhole(y) BY <1>1, <1>3, <1>4, <1>5, <2>3
    <3> QED BY <2>3, <3>1
  <2>4. \/ Adjacent(x, y)
        \/ \E k \in DOMAIN ts : k > 1 /\ ts[k - 1] = x /\ ts[k] = y
        \/ x = ts[Len(ts)] /\ Adjacent(h, y)
    BY <1>2, <1>6
  <2> QED BY <2>1, <2>2, <2>3, <2>4, Zenon
<1>7. PICK m, v : m = Len(ts) /\ v = work' OBVIOUS
<1>8. /\ m \in Nat /\ v \in Seq(Tasks) /\ DOMAIN v = 1 .. Len(v) /\ Len(v) \in Nat
      /\ \A k \in DOMAIN v : k > m => /\ k - m + 1 \in DOMAIN work /\ k - m + 1 > 1
                                      /\ v[k] = work[k - m + 1]
      /\ \A k \in DOMAIN v : k <= m => k \in DOMAIN ts
      /\ \A k \in DOMAIN ts : v[k] = ts[k]
      /\ m >= 1 /\ DOMAIN ts = 1 .. m
  <2>1. work \in Seq(Tasks) /\ work # <<>> /\ ts \in Seq(Tasks) /\ work' = ts \o Tail(work)
    BY <1>1
  <2>2. ts # <<>> => Len(ts) >= 1 OBVIOUS
  <2> QED BY <1>7, <2>1, <2>2, Pushed
<1>9. ASSUME NEW k \in DOMAIN v, k > 1, v[k].op = "emit_members", v[k - 1].op = "define"
      PROVE  k = 2 /\ ~infos'[v[k].arg].named
  <2>1. k \in Nat /\ k - 1 \in DOMAIN v BY <1>8, <1>9
  <2>2. CASE k <= m
    <3>1. k \in DOMAIN ts /\ k - 1 \in DOMAIN ts /\ v[k] = ts[k] /\ v[k - 1] = ts[k - 1]
      BY <1>8, <1>9, <2>1, <2>2
    <3> QED BY <1>9, <3>1
  <2>3. CASE k = m + 1
    <3>1. m \in DOMAIN ts /\ v[k - 1] = ts[m] BY <1>8, <2>3
    <3>2. v[k] = work[2] /\ 2 \in DOMAIN work
      <4>1. PICK i : i = k - m + 1 OBVIOUS
      <4>2. k > m /\ i = 2 BY <1>8, <2>3, <4>1
      <4>3. i \in DOMAIN work /\ v[k] = work[i] BY <1>8, <4>1, <4>2, Zenon
      <4> QED BY <4>2, <4>3
    <3>3. Adjacent(h, work[2])
      <4>1. 2 > 1 /\ work[2 - 1] = h BY <1>1
      <4> QED BY <3>2, <4>1, Zenon DEF Adjacent
    <3>4. work[2] \in Tasks /\ TaskWhole(work[2]) /\ Following(h, work[2])
      BY <1>1, <1>3, <1>4, <1>5, <3>3
    <3>5. work[2].op = "emit_members" /\ ts[Len(ts)].op = "define" BY <1>7, <1>9, <3>1, <3>2
    <3> QED BY <3>3, <3>4, <3>5, Zenon
  <2>4. CASE k > m + 1
    <3>1. PICK i : i = k - m + 1 OBVIOUS
    <3>2. k > m /\ k - 1 > m /\ k - 1 - m + 1 = i - 1 /\ i > 2 BY <1>8, <2>1, <2>4, <3>1
    <3>3. i \in DOMAIN work /\ v[k] = work[i] BY <1>8, <3>1, <3>2, Zenon
    <3>4. PICK j : j = k - 1 OBVIOUS
    <3>5. j \in DOMAIN v /\ j > m /\ j - m + 1 = i - 1 /\ v[j].op = "define"
      BY <1>9, <2>1, <3>2, <3>4
    <3>6. v[j] = work[j - m + 1] BY <1>8, <3>5, Zenon
    <3>7. work[i - 1].op = "define" /\ work[i].op = "emit_members" BY <1>9, <3>3, <3>5, <3>6
    <3>8. i = 2 BY <1>1, <3>2, <3>3, <3>7 DEF LateWhole, Chained
    <3> QED BY <3>2, <3>8
  <2> QED BY <1>8, <2>1, <2>2, <2>3, <2>4
<1>10. \A x \in Tasks : First(x)' => Readied(x)' BY <1>2
<1>11. \A k \in DOMAIN work' : k > 1 /\ work'[k].op = "emit_members" /\ work'[k - 1].op = "define"
          => k = 2 /\ ~infos'[work'[k].arg].named
  BY <1>7, <1>9
<1> QED BY <1>6, <1>10, <1>11, Zenon DEF Chained

\* Calls are made that lead to definitions, and nothing is declared.
LEMMA LateQuiet ==
    ASSUME CompilerInv, NEW h, First(h), h.op \in {"define_definition", "define", "members"},
           NEW ts \in Seq(Tasks), work' = ts \o Tail(work),
           \A x \in ToSet(ts) : x.op \in {"define", "emit_members"} /\ TaskWhole(x),
           UNCHANGED <<doc, defs, infos, exit, ret, errors, files, header, macros>>,
           Chained',
           \A x \in ToSet(ts) : x.op = "define" /\ IsGenerated(x.arg) => Wanted(x.arg),
           h.op = "define" => infos[h.arg].defined # "NOT_DEFINED",
           \A t \in TypeInfos :
              /\ infos[t].defined = "NOT_DEFINED"
              /\ \/ h.op = "members" /\ h.arg = t
                 \/ /\ h.op = "define_definition" /\ defs[h.arg].state = "DEF_SCHEMA_TYPE"
                    /\ defs[h.arg].type = t
              => Due("define", t)'
    PROVE  CompilerInv'
<1>1. h.op \in Defining BY DEF Defining
<1>2. /\ Late /\ LateWhole /\ ~errors /\ exit = "running" /\ work \in Seq(Tasks)
      /\ work # <<>> /\ work[1] = h /\ \A k \in DOMAIN work : work[k].op \in Defining \cup {"exit"}
  BY <1>1, LateNow
<1>3. /\ Lately /\ Chained /\ Once /\ HeaderTyped /\ HeaderComplete /\ AllWanted /\ MembersFirst
      /\ \A t \in TypeInfos : StateWhole(t)
  BY <1>2 DEF LateWhole
<1>4. SameTypes /\ TypeInfos' = TypeInfos BY DEF SameTypes, TypeInfos
<1>5. \A op, arg : Due(op, arg)' =>
              Due(op, arg) \/ \E x \in ToSet(ts) : x.op = op /\ x.arg = arg
  BY <1>2, LateDues
<1>6. ASSUME NEW op, NEW arg, Due(op, arg), h.op # op \/ h.arg # arg PROVE Due(op, arg)'
  BY <1>2, <1>6, DueStays
<1>7. \A what, t : (Emitted(what, t))' = Emitted(what, t)
      /\ \A k : (Complete(k))' = Complete(k)
  BY DEF Emitted, Declares, Complete, IsStruct, IsArray, IsGenerated, Extras,
         MemberTypes, Before
<1>8. \A t : (Wanted(t))' = Wanted(t) /\ (IsGenerated(t))' = IsGenerated(t)
             /\ (IsStruct(t))' = IsStruct(t) /\ (IsArray(t))' = IsArray(t)
             /\ (Extras(t))' = Extras(t) /\ (MemberTypes(t))' = MemberTypes(t)
  BY DEF Wanted, IsRoot, IsMain, IsStruct, TypeInfos, IsGenerated, IsArray, Extras, MemberTypes
<1>9. (NamesClash)' = NamesClash BY DEF NamesClash, TypeInfos
<1>10. Lately'
  <2>1. \A x \in ToSet(ts) : x.op \in Defining BY DEF Defining
  <2>2. ToSet(work') \subseteq ToSet(work) \cup ToSet(ts) BY <1>2, Neighbours
  <2>3. \A x \in ToSet(work) : x.op \in Defining \cup {"exit"} BY <1>1, LateNow
  <2>4. \A k \in DOMAIN work' : work'[k] \in ToSet(work') BY DEF ToSet
  <2> QED BY <1>2, <2>1, <2>2, <2>3, <2>4 DEF Lately
<1>11. Once'
  <2>1. Unique(ts)
    <3>1. \A k \in DOMAIN ts : ts[k] \in ToSet(ts) BY DEF ToSet
    <3> QED BY <3>1 DEF Unique
  <2>2. Unique(work') BY <1>2, <1>3, <2>1, UniqueLeft DEF Once
  <2>3. \A t \in TypeInfos : (Due("emit", t)' => Due("emit", t))
                             /\ (Due("defined", t)' => Due("defined", t))
    BY <1>5
  <2>4. \A t \in TypeInfos : /\ Due("emit", t) => ~Emitted("struct", t)
                             /\ Due("emit", t) \/ Due("defined", t)
                                => infos[t].defined = "DEFINING"
    BY <1>3 DEF Once
  <2>5. \A t \in TypeInfos' : /\ Due("emit", t)' => ~Emitted("struct", t)'
                              /\ Due("emit", t)' \/ Due("defined", t)'
                                 => infos'[t].defined = "DEFINING"
    BY <1>4, <1>7, <2>3, <2>4
  <2> QED BY <2>2, <2>5 DEF Once
<1>12. HeaderTyped' BY <1>3, <1>4, <1>7, <1>8 DEF HeaderTyped
<1>13. HeaderComplete' BY <1>3, <1>7, <1>9 DEF HeaderComplete
<1>14. AllWanted'
  <2>1. \A t \in TypeInfos : IsGenerated(t) /\ infos[t].defined # "NOT_DEFINED" => Wanted(t)
    BY <1>3 DEF AllWanted
  <2>2. \A t \in TypeInfos : IsGenerated(t) /\ (Due("define", t) \/ Due("members", t))' => Wanted(t)
    BY <1>3, <1>5 DEF AllWanted
  <2>3. ASSUME ~NamesClash, NEW t \in TypeInfos, IsGenerated(t), Wanted(t),
               infos[t].defined = "NOT_DEFINED"
        PROVE  WillDefine(t)'
    <3>1. WillDefine(t) BY <1>3, <2>3 DEF AllWanted
    <3>2. CASE Due("define", t)
      <4>1. Due("define", t)' BY <1>6, <2>3, <3>2
      <4> QED BY <4>1 DEF WillDefine
    <3>3. CASE Due("members", t)
      <4>1. Due("members", t)' \/ Due("define", t)' BY <1>6, <2>3, <3>3
      <4> QED BY <4>1 DEF WillDefine
    <3>4. CASE \E d \in DOMAIN defs : /\ Due("define_definition", d)
                                      /\ defs[d].state = "DEF_SCHEMA_TYPE" /\ defs[d].type = t
      <4>1. PICK d \in DOMAIN defs : /\ Due("define_definition", d)
                                     /\ defs[d].state = "DEF_SCHEMA_TYPE" /\ defs[d].type = t
        BY <3>4
      <4>2. Due("define_definition", d)' \/ Due("define", t)' BY <1>6, <2>3, <4>1
      <4> QED BY <4>1, <4>2 DEF WillDefine
    <3> QED BY <3>1, <3>2, <3>3, <3>4 DEF WillDefine
  <2> QED BY <1>4, <1>8, <1>9, <2>1, <2>2, <2>3 DEF AllWanted
<1>15. MembersFirst'
  <2>1. ASSUME NEW t \in TypeInfos, IsStruct(t), Due("emit", t)',
               NEW m \in ToSet(MemberTypes(t)), infos[m].defined = "NOT_DEFINED"
        PROVE  Precedes(m, t)'
    <3>1. Due("emit", t) BY <1>5, <2>1
    <3>2. Precedes(m, t) BY <1>3, <2>1, <3>1 DEF MembersFirst
    <3> QED BY <1>2, <2>1, <3>2, PrecedesStays, SMTT(60)
  <2> QED BY <1>4, <1>8, <2>1 DEF MembersFirst
<1>16. ASSUME NEW t \in TypeInfos PROVE StateWhole(t)'
  <2>1. StateWhole(t) BY <1>3
  <2>2. Due("defined", t) => Due("defined", t)' BY <1>6
  <2>3. First([op |-> "emit", arg |-> t]) => FALSE BY DEF First
  <2> QED BY <1>7, <1>8, <1>9, <2>1, <2>2, <2>3 DEF StateWhole
<1>17. LateWhole'
  BY <1>4, <1>10, <1>11, <1>12, <1>13, <1>14, <1>15, <1>16 DEF LateWhole
<1>18. /\ infos' \in Seq(TypeRecords) /\ header' \in Seq(Declarations)
       /\ \A k \in DOMAIN header' : header'[k].type \in 0 .. Len(infos)
       /\ \A name \in macros' : \E t \in TypeInfos : name = infos[t].base_name
  BY DEF CompilerInv, Typed, TypesWhole
<1>19. \A x \in ToSet(ts) : x.op \in Defining /\ TaskWhole(x)'
  BY DEF Defining, TaskWhole, IsGenerated, IsStruct, IsArray, TypeInfos
<1> QED BY <1>1, <1>4, <1>17, <1>18, <1>19, LateStep

\* A definition that is none of a type, or whose type is next.
LEMMA DefineDefinitionStep == ASSUME CompilerInv, DefineDefinition PROVE CompilerInv'
<1>1. PICK h \in Tasks : /\ First(h) /\ h.op = "define_definition" /\ TaskWhole(h)
                         /\ h = Head(work)
  BY HeadWhole DEF DefineDefinition
<1>2. UNCHANGED <<doc, defs, infos, exit, ret, errors, files, header, macros>>
  BY DEF DefineDefinition, KeepsTypes, KeepsOutput, NoError, Then
<1>3. PICK d : d = h.arg OBVIOUS
<1>4. work' = (IF defs[d].state = "DEF_SCHEMA_TYPE" THEN Task("define", defs[d].type)
               ELSE <<>>) \o Tail(work)
  BY <1>1, <1>3, Zenon DEF DefineDefinition, Then, Arg
<1>5. h.op \in Defining BY <1>1 DEF Defining
<1>6. /\ Late /\ LateWhole /\ ~errors /\ work \in Seq(Tasks) /\ d \in DOMAIN defs
      /\ SameTypes /\ NULL \notin TypeInfos
  BY <1>1, <1>2, <1>3, <1>5, LateNow DEF TaskWhole, SameTypes, TypeInfos, NULL
<1>7. \A y : Following(h, y) => y.op \notin {"defined", "emit", "emit_members"}
  BY <1>1 DEF Following
<1>8. CASE defs[d].state # "DEF_SCHEMA_TYPE"
  <2>1. work' = <<>> \o Tail(work) BY <1>4, <1>8
  <2>2. \A y : Following(h, y) => Readied(y)' BY <1>7 DEF Readied
  <2>3. Chained' BY <1>1, <1>5, <1>6, <2>1, <2>2, ChainedNext
  <2> QED BY <1>1, <1>2, <1>3, <1>8, <2>1, <2>3, NoTask, LateQuiet
<1>9. CASE defs[d].state = "DEF_SCHEMA_TYPE"
  <2>1. PICK t : t = defs[d].type OBVIOUS
  <2>2. t \in TypeInfos
    <3>1. DefWhole(d) BY <1>6 DEF CompilerInv, DefsWhole
    <3>2. d \in Settled BY <1>6, <1>9 DEF Settled
    <3>3. Fits(doc.defs[d], t) BY <2>1, <3>1, <3>2 DEF DefWhole
    <3> QED BY <1>6, <3>3 DEF Fits
  <2>3. Wanted(t) BY <1>6, <2>1 DEF Wanted, IsRoot
  <2>4. PICK x : x = [op |-> "define", arg |-> t] OBVIOUS
  <2>5. t \in Nat BY <2>2 DEF TypeInfos
  <2>6. PICK ts : ts = Task("define", t) OBVIOUS
  <2>7. /\ ts \in Seq(Tasks) /\ ts # <<>> /\ Len(ts) = 1 /\ DOMAIN ts = {1}
        /\ ts[1] = x /\ \A z \in ToSet(ts) : z = x
    BY <2>4, <2>5, <2>6, OneTask DEF Ops, Defining
  <2>8. work' = ts \o Tail(work) BY <1>4, <1>9, <2>1, <2>6
  <2>9. Readied(x)' BY <2>4 DEF Readied
  <2>10. \A y : Following(h, y) => Following(x, y)' /\ y.op # "emit_members"
    BY <1>7, <2>4 DEF Following
  <2>11. \A k \in DOMAIN ts : ~(k > 1) BY <2>7
  <2>12. Chained'
    BY <1>1, <1>5, <1>6, <2>7, <2>8, <2>9, <2>10, <2>11, ChainedPushed
  <2>13. TaskWhole(x) BY <2>2, <2>4 DEF TaskWhole, Allocating
  <2>14. Due("define", t)'
    <3>1. 1 \in DOMAIN ts /\ ts[1].op = "define" /\ ts[1].arg = t BY <2>4, <2>7
    <3>2. work # <<>> BY <1>1 DEF First
    <3> QED BY <1>6, <2>7, <2>8, <3>1, <3>2, DueNew
  <2>15. \A z \in ToSet(ts) : /\ z.op \in {"define", "emit_members"} /\ TaskWhole(z)
                              /\ z.op = "define" /\ IsGenerated(z.arg) => Wanted(z.arg)
    BY <2>3, <2>4, <2>7, <2>13
  <2> QED BY <1>1, <1>2, <1>3, <2>1, <2>7, <2>8, <2>12, <2>14, <2>15, LateQuiet
<1> QED BY <1>8, <1>9

\* The type has been defined, or its definition is under way.
LEMMA DefinedAlready ==
    ASSUME CompilerInv, NEW h, First(h), h.op = "define",
           infos[h.arg].defined # "NOT_DEFINED", work' = <<>> \o Tail(work),
           UNCHANGED <<doc, defs, infos, exit, ret, errors, files, header, macros>>
    PROVE  CompilerInv'
<1>1. h.op \in Defining BY DEF Defining
<1>2. LateWhole /\ work \in Seq(Tasks) /\ work # <<>> /\ work[1] = h /\ 1 \in DOMAIN work
  BY <1>1, LateNow
<1>3. SameTypes BY DEF SameTypes, TypeInfos
<1>4. ASSUME NEW y \in Tasks, Adjacent(h, y), Following(h, y) PROVE Readied(y)'
  <2>1. y.op \notin {"defined", "emit"} BY <1>4 DEF Following
  <2>2. ASSUME y.op = "emit_members"
        PROVE  infos[y.arg].defined # "NOT_DEFINED" /\ ~infos[y.arg].named
    <3>1. y.arg = h.arg BY <1>4, <2>2 DEF Following
    <3>2. PICK k \in DOMAIN work : k > 1 /\ work[k - 1] = h /\ work[k] = y
      BY <1>4 DEF Adjacent
    <3>3. ~infos[work[k].arg].named BY <1>2, <2>2, <3>2 DEF LateWhole, Chained
    <3> QED BY <3>1, <3>2, <3>3
  <2> QED BY <2>1, <2>2 DEF Readied
<1>5. Chained' BY <1>1, <1>3, <1>4, ChainedNext
<1> QED BY <1>5, NoTask, LateQuiet

\* The *_members of a type is there, or its type is defined before it.
LEMMA DefineMembersStructStep == ASSUME CompilerInv, DefineMembersStruct PROVE CompilerInv'
<1>1. PICK h \in Tasks : First(h) /\ h.op = "members" /\ TaskWhole(h) /\ h = Head(work)
  BY HeadWhole DEF DefineMembersStruct
<1>2. UNCHANGED <<doc, defs, infos, exit, ret, errors, files, header, macros>>
  BY DEF DefineMembersStruct, KeepsTypes, KeepsOutput, NoError, Then
<1>3. PICK t : t = h.arg OBVIOUS
<1>4. work' = (IF infos[t].named THEN <<>> ELSE Task("define", t) \o Task("emit_members", t))
              \o Tail(work)
  BY <1>1, <1>3, Zenon DEF DefineMembersStruct, Then, Arg
<1>5. h.op \in Defining BY <1>1 DEF Defining
<1>6. /\ Late /\ LateWhole /\ ~errors /\ work \in Seq(Tasks) /\ work # <<>> /\ t \in TypeInfos
      /\ SameTypes /\ work[1] = h /\ 1 \in DOMAIN work
  BY <1>1, <1>2, <1>3, <1>5, LateNow DEF TaskWhole, SameTypes, TypeInfos
<1>7. \A y : Following(h, y) => /\ y.op \notin {"defined", "emit_members"}
                                /\ y.op = "emit" => IsStruct(y.arg) /\ Extras(y.arg) = t
  BY <1>1, <1>3 DEF Following
<1>8. StateWhole(t) BY <1>6 DEF LateWhole
<1>9. CASE infos[t].named
  <2>1. work' = <<>> \o Tail(work) BY <1>4, <1>9
  <2>2. ASSUME NEW y \in Tasks, TaskWhole(y), Following(h, y) PROVE Readied(y)'
    <3>1. y.op = "emit" => (Extras(y.arg))' = Extras(y.arg) BY <1>2 DEF Extras
    <3> QED BY <1>2, <1>7, <1>9, <2>2, <3>1 DEF Readied
  <2>3. Chained' BY <1>1, <1>5, <1>6, <2>1, <2>2, ChainedNext
  <2>4. infos[t].defined # "NOT_DEFINED" BY <1>8, <1>9 DEF StateWhole
  <2> QED BY <1>1, <1>2, <1>3, <2>1, <2>3, <2>4, NoTask, LateQuiet
<1>10. CASE ~infos[t].named
  <2>1. PICK x, y : x = [op |-> "define", arg |-> t] /\ y = [op |-> "emit_members", arg |-> t]
    OBVIOUS
  <2>2. t \in Nat BY <1>6 DEF TypeInfos
  <2>3. x \in Tasks /\ y \in Tasks BY <2>1, <2>2 DEF Tasks, Ops, Defining
  <2>4. PICK ts : ts = Both(x, y) OBVIOUS
  <2>5. /\ ts \in Seq(Tasks) /\ ts # <<>> /\ Len(ts) = 2 /\ DOMAIN ts = {1, 2}
        /\ ts[1] = x /\ ts[2] = y /\ ts[Len(ts)] = y /\ ToSet(ts) = {x, y}
    BY <2>3, <2>4, TwoTasks, ZenonT(60)
  <2>6. work' = ts \o Tail(work)
    <3>1. Task("define", t) \o Task("emit_members", t) = ts BY <2>1, <2>4 DEF Task, Both
    <3> QED BY <1>4, <1>10, <3>1
  <2>7. Readied(x)' BY <2>1 DEF Readied
  <2>8. Following(x, y)' /\ ~infos'[y.arg].named BY <1>2, <1>10, <2>1 DEF Following
  <2>9. ASSUME NEW z \in Tasks, Following(h, z) PROVE Following(y, z)'
    <3>1. z.op = "emit" => /\ (Extras(z.arg))' = Extras(z.arg)
                           /\ (IsStruct(z.arg))' = IsStruct(z.arg)
      BY <1>2 DEF Extras, IsStruct
    <3> QED BY <1>7, <2>1, <2>9, <3>1 DEF Following
  <2>10. \A k \in DOMAIN ts : k > 1 => k = 2 /\ k - 1 = 1 BY <2>5
  <2>11. \A k \in DOMAIN ts : k > 1 =>
            /\ Following(ts[k - 1], ts[k])'
            /\ ts[k].op = "emit_members" /\ ts[k - 1].op = "define"
               => k = 2 /\ ~infos'[ts[k].arg].named
    BY <2>5, <2>8, <2>10
  <2>12. ts[Len(ts)].op # "define" BY <2>1, <2>5
  <2>13. Chained'
    BY <1>1, <1>5, <1>6, <2>5, <2>6, <2>7, <2>9, <2>11, <2>12, ChainedPushed
  <2>14. Due("define", t)'
    <3>1. 1 \in DOMAIN ts /\ ts[1].op = "define" /\ ts[1].arg = t BY <2>1, <2>5
    <3> QED BY <1>6, <2>5, <2>6, <3>1, DueNew
  <2>15. IsGenerated(t) => Wanted(t)
    <3>1. Due("members", t) BY <1>1, <1>3, <1>6 DEF Due
    <3> QED BY <1>6, <3>1 DEF LateWhole, AllWanted
  <2>16. \A z \in ToSet(ts) : /\ z.op \in {"define", "emit_members"} /\ TaskWhole(z)
                              /\ z.op = "define" /\ IsGenerated(z.arg) => Wanted(z.arg)
    BY <1>6, <2>1, <2>5, <2>15 DEF TaskWhole, Allocating
  <2> QED BY <1>1, <1>2, <1>3, <2>5, <2>6, <2>13, <2>14, <2>16, LateQuiet, ZenonT(60)
<1> QED BY <1>9, <1>10

-----------------------------------------------------------------------------
(***************************************************************************)
(* The output: declarations.                                               *)
(***************************************************************************)

\* Declarations are added at the end, and those before stay what they are.
Grows(b, a, ds) ==
    /\ b \in Seq(Declarations) /\ Len(a) \in Nat
    /\ \A k \in DOMAIN a : k \in DOMAIN b /\ b[k] = a[k] /\ k \in Nat
    /\ \A k \in DOMAIN b : k \notin DOMAIN a =>
          k > Len(a) /\ \E i \in DOMAIN ds : k = Len(a) + i /\ b[k] = ds[i]
    /\ \A i \in DOMAIN ds : Len(a) + i \in DOMAIN b /\ b[Len(a) + i] = ds[i]

LEMMA Appended ==
    ASSUME NEW a \in Seq(Declarations), NEW ds \in Seq(Declarations)
    PROVE  Grows(a \o ds, a, ds)
<1>0. PICK b : b = a \o ds OBVIOUS
<1>1. /\ Len(a) \in Nat /\ Len(ds) \in Nat /\ b \in Seq(Declarations)
      /\ DOMAIN a = 1 .. Len(a) /\ DOMAIN ds = 1 .. Len(ds)
      /\ DOMAIN b = 1 .. Len(a) + Len(ds)
  BY <1>0
<1>2. \A k \in DOMAIN b : b[k] = IF k <= Len(a) THEN a[k] ELSE ds[k - Len(a)]
  BY <1>0, <1>1
<1>3. PICK m, n : m = Len(a) /\ n = Len(ds) OBVIOUS
<1>4. m \in Nat /\ n \in Nat /\ DOMAIN a = 1 .. m /\ DOMAIN ds = 1 .. n /\ DOMAIN b = 1 .. m + n
      /\ \A k \in DOMAIN b : b[k] = IF k <= m THEN a[k] ELSE ds[k - m]
  BY <1>1, <1>2, <1>3
<1>5. ASSUME NEW k \in DOMAIN a PROVE k \in DOMAIN b /\ b[k] = a[k] /\ k \in Nat
  <2>1. k \in 1 .. m + n /\ k <= m /\ k \in Nat BY <1>4
  <2> QED BY <1>4, <2>1
<1>6. ASSUME NEW k \in DOMAIN b, k \notin DOMAIN a
      PROVE  k > m /\ \E i \in DOMAIN ds : k = m + i /\ b[k] = ds[i]
  <2>1. k \in Nat /\ k > m /\ ~(k <= m) /\ k - m \in 1 .. n /\ k = m + (k - m)
    BY <1>4, <1>6
  <2>2. b[k] = ds[k - m] BY <1>4, <2>1
  <2> QED BY <1>4, <2>1, <2>2
<1>7. ASSUME NEW i \in DOMAIN ds PROVE m + i \in DOMAIN b /\ b[m + i] = ds[i]
  <2>1. m + i \in 1 .. m + n /\ ~(m + i <= m) /\ m + i - m = i BY <1>4
  <2> QED BY <1>4, <2>1
<1>8. Grows(b, a, ds) BY <1>1, <1>3, <1>5, <1>6, <1>7, Zenon DEF Grows
<1> QED BY <1>0, <1>8

\* What is declared is there, and before all that is declared later.
LEMMA HeaderGrown ==
    ASSUME header \in Seq(Declarations), NEW ds \in Seq(Declarations), header' = header \o ds
    PROVE  /\ header' \in Seq(Declarations)
           /\ \A k \in DOMAIN header : k \in DOMAIN header' /\ header'[k] = header[k]
           /\ \A k \in DOMAIN header' : k \notin DOMAIN header =>
                 /\ \E i \in DOMAIN ds : k = Len(header) + i /\ header'[k] = ds[i]
                 /\ \A what, t : Emitted(what, t) => Before(k, what, t)'
           /\ \A k \in DOMAIN header : \A what, t : Before(k, what, t) => Before(k, what, t)'
           /\ \A what, t : Emitted(what, t)' <=>
                 \/ Emitted(what, t)
                 \/ \E i \in DOMAIN ds : ds[i].what = what /\ ds[i].type = t
<1>1. PICK m, v : m = Len(header) /\ v = header' OBVIOUS
<1>2. /\ v \in Seq(Declarations) /\ m \in Nat
      /\ \A k \in DOMAIN header : k \in DOMAIN v /\ v[k] = header[k] /\ k \in Nat
      /\ \A k \in DOMAIN v : k \notin DOMAIN header =>
            k > m /\ \E i \in DOMAIN ds : k = m + i /\ v[k] = ds[i]
      /\ \A i \in DOMAIN ds : m + i \in DOMAIN v /\ v[m + i] = ds[i]
      /\ DOMAIN header = 1 .. m
  <2>1. DOMAIN header = 1 .. m BY <1>1
  <2>2. Grows(header \o ds, header, ds) BY Appended, Zenon
  <2>3. Grows(v, header, ds) BY <1>1, <2>2, Zenon
  <2> QED BY <1>1, <2>1, <2>3, Zenon DEF Grows
<1>3. ASSUME NEW k \in DOMAIN v, k \notin DOMAIN header, NEW what, NEW t, Emitted(what, t)
      PROVE  Before(k, what, t)'
  <2>1. PICK j \in DOMAIN header : header[j].what = what /\ header[j].type = t
    BY <1>3 DEF Emitted, Declares
  <2>2. k > m /\ k \in Nat /\ j \in 1 .. m /\ v[j] = header[j] BY <1>2, <1>3
  <2>3. j \in 1 .. k - 1 BY <1>2, <2>2
  <2> QED BY <1>1, <2>1, <2>2, <2>3 DEF Before, Declares
<1>4. ASSUME NEW k \in DOMAIN header, NEW what, NEW t, Before(k, what, t)
      PROVE  Before(k, what, t)'
  <2>1. PICK j \in 1 .. k - 1 : header[j].what = what /\ header[j].type = t
    BY <1>4 DEF Before, Declares
  <2>2. j \in DOMAIN header BY <1>2
  <2>3. header'[j] = header[j] BY <1>1, <1>2, <2>2
  <2> QED BY <2>1, <2>3 DEF Before, Declares
<1>5. ASSUME NEW what, NEW t
      PROVE  Emitted(what, t)' <=> \/ Emitted(what, t)
                                   \/ \E i \in DOMAIN ds : ds[i].what = what /\ ds[i].type = t
  <2>1. Emitted(what, t)' <=> \E k \in DOMAIN v : v[k].what = what /\ v[k].type = t
    BY <1>1 DEF Emitted, Declares
  <2>2. Emitted(what, t) <=> \E k \in DOMAIN header : header[k].what = what /\ header[k].type = t
    BY DEF Emitted, Declares
  <2>3. ASSUME NEW k \in DOMAIN v, v[k].what = what, v[k].type = t
        PROVE  \/ Emitted(what, t)
               \/ \E i \in DOMAIN ds : ds[i].what = what /\ ds[i].type = t
    <3>1. CASE k \in DOMAIN header BY <1>2, <2>2, <2>3, <3>1
    <3>2. CASE k \notin DOMAIN header BY <1>2, <2>3, <3>2
    <3> QED BY <3>1, <3>2
  <2>4. ASSUME Emitted(what, t) PROVE \E k \in DOMAIN v : v[k].what = what /\ v[k].type = t
    BY <1>2, <2>2, <2>4
  <2>5. ASSUME NEW i \in DOMAIN ds, ds[i].what = what, ds[i].type = t
        PROVE  \E k \in DOMAIN v : v[k].what = what /\ v[k].type = t
    <3>1. PICK k : k = m + i OBVIOUS
    <3>2. k \in DOMAIN v /\ v[k] = ds[i] BY <1>2, <3>1, Zenon
    <3> QED BY <2>5, <3>2
  <2> QED BY <2>1, <2>3, <2>4, <2>5, Zenon
<1> QED BY <1>1, <1>2, <1>3, <1>4, <1>5

\* What may be declared next.
CanDeclare(x) ==
    /\ x.type \in TypeInfos /\ x.name = infos[x.type].base_name
    /\ ~Emitted(x.what, x.type)
    /\ x.what = "struct" => IsGenerated(x.type)
    /\ ~NamesClash =>
          /\ x.what = "struct" /\ IsStruct(x.type) =>
                /\ \A m \in ToSet(MemberTypes(x.type)) : IsArray(m) => Emitted("struct", m)
                /\ Extras(x.type) # variant_type => Emitted("members", Extras(x.type))
          /\ x.what = "member" /\ IsGenerated(x.type) => Emitted("struct", x.type)

\* The header stays whole when that is declared.
LEMMA HeaderStep ==
    ASSUME CompilerInv, Late, SameTypes, NEW ds \in Seq(Declarations), header' = header \o ds,
           \A i \in DOMAIN ds : CanDeclare(ds[i]),
           \A i, j \in DOMAIN ds : ds[i].what = ds[j].what /\ ds[i].type = ds[j].type => i = j,
           \A name \in macros' : name \in macros \/
              \E i \in DOMAIN ds : ds[i].what = "member" /\ name = infos[ds[i].type].base_name
    PROVE  HeaderTyped' /\ HeaderComplete'
<1>1. /\ header \in Seq(Declarations) /\ TypesWhole /\ HeaderTyped /\ HeaderComplete
      /\ TypeInfos' = TypeInfos
  BY DEF CompilerInv, Typed, HeaderInv, LateWhole, SameTypes
<1>2. /\ header' \in Seq(Declarations)
      /\ \A k \in DOMAIN header : k \in DOMAIN header' /\ header'[k] = header[k]
      /\ \A k \in DOMAIN header' : k \notin DOMAIN header =>
            /\ \E i \in DOMAIN ds : k = Len(header) + i /\ header'[k] = ds[i]
            /\ \A what, t : Emitted(what, t) => Before(k, what, t)'
      /\ \A k \in DOMAIN header : \A what, t : Before(k, what, t) => Before(k, what, t)'
      /\ \A what, t : Emitted(what, t)' <=>
            \/ Emitted(what, t)
            \/ \E i \in DOMAIN ds : ds[i].what = what /\ ds[i].type = t
  BY <1>1, HeaderGrown
<1>3. PICK n, v : n = Len(header) /\ v = header' OBVIOUS
<1>4. /\ n \in Nat /\ v \in Seq(Declarations) /\ DOMAIN v = 1 .. Len(v) /\ Len(v) \in Nat
      /\ 1 \in DOMAIN header /\ 1 \in DOMAIN v /\ v[1] = Included[1]
      /\ \A k \in DOMAIN header : v[k] = header[k]
      /\ \A k \in DOMAIN v : k \notin DOMAIN header =>
            \E i \in DOMAIN ds : k = n + i /\ v[k] = ds[i]
  BY <1>1, <1>2, <1>3 DEF HeaderTyped
<1>5. /\ \A t \in TypeInfos :
            /\ (IsStruct(t))' = IsStruct(t) /\ (IsArray(t))' = IsArray(t)
            /\ (IsGenerated(t))' = IsGenerated(t)
            /\ (Extras(t))' = Extras(t) /\ (MemberTypes(t))' = MemberTypes(t)
            /\ infos'[t].base_name = infos[t].base_name
      /\ (NamesClash)' = NamesClash
  BY SameTypesKept DEF SameTypes
<1>6. ASSUME NEW k \in DOMAIN v, k > 1
      PROVE  /\ v[k].type \in TypeInfos /\ v[k].name = infos[v[k].type].base_name
             /\ v[k].what = "struct" => IsGenerated(v[k].type)
  <2>1. CASE k \in DOMAIN header BY <1>1, <1>4, <1>6, <2>1 DEF HeaderTyped
  <2>2. CASE k \notin DOMAIN header
    <3>1. PICK i \in DOMAIN ds : v[k] = ds[i] BY <1>4, <2>2
    <3> QED BY <3>1 DEF CanDeclare
  <2> QED BY <2>1, <2>2
<1>7. ASSUME NEW j \in DOMAIN v, NEW k \in DOMAIN v, v[j].what = v[k].what, v[j].type = v[k].type
      PROVE  j = k
  <2>1. ASSUME NEW p \in DOMAIN header, NEW i \in DOMAIN ds,
               header[p].what = ds[i].what, header[p].type = ds[i].type
        PROVE  FALSE
    <3>1. Emitted(ds[i].what, ds[i].type) BY <2>1 DEF Emitted, Declares
    <3> QED BY <3>1 DEF CanDeclare
  <2>2. CASE j \in DOMAIN header /\ k \in DOMAIN header
    <3>1. v[j] = header[j] /\ v[k] = header[k] BY <1>4, <2>2
    <3> QED BY <1>1, <1>7, <2>2, <3>1 DEF HeaderTyped
  <2>3. CASE j \in DOMAIN header /\ k \notin DOMAIN header
    <3>1. PICK i \in DOMAIN ds : v[k] = ds[i] BY <1>4, <2>3
    <3>2. v[j] = header[j] BY <1>4, <2>3
    <3> QED BY <1>7, <2>1, <2>3, <3>1, <3>2
  <2>4. CASE j \notin DOMAIN header /\ k \in DOMAIN header
    <3>1. PICK i \in DOMAIN ds : v[j] = ds[i] BY <1>4, <2>4
    <3> QED BY <1>4, <1>7, <2>1, <2>4, <3>1
  <2>5. CASE j \notin DOMAIN header /\ k \notin DOMAIN header
    <3>1. PICK p \in DOMAIN ds : j = n + p /\ v[j] = ds[p] BY <1>4, <2>5
    <3>2. PICK q \in DOMAIN ds : k = n + q /\ v[k] = ds[q] BY <1>4, <2>5
    <3>3. p = q BY <1>7, <3>1, <3>2
    <3> QED BY <3>1, <3>2, <3>3
  <2> QED BY <2>2, <2>3, <2>4, <2>5
<1>8. ASSUME NEW name \in macros'
      PROVE  \/ name = <<"eu_variant">>
             \/ \E t \in TypeInfos : name = infos[t].base_name /\ Emitted("member", t)'
  <2>1. CASE name \in macros
    <3>1. \/ name = <<"eu_variant">>
          \/ \E t \in TypeInfos : name = infos[t].base_name /\ Emitted("member", t)
      BY <1>1, <2>1 DEF HeaderTyped
    <3> QED BY <1>2, <3>1
  <2>2. CASE \E i \in DOMAIN ds : ds[i].what = "member" /\ name = infos[ds[i].type].base_name
    <3>1. PICK i \in DOMAIN ds : ds[i].what = "member" /\ name = infos[ds[i].type].base_name
      BY <2>2
    <3>2. ds[i].type \in TypeInfos BY DEF CanDeclare
    <3>3. Emitted("member", ds[i].type)' BY <1>2, <3>1
    <3> QED BY <3>1, <3>2, <3>3
  <2> QED BY <2>1, <2>2
<1>9. HeaderTyped'
  <2>1. Len(v) >= 1 BY <1>4
  <2>2. ASSUME NEW k \in DOMAIN v, k > 1
        PROVE  /\ v[k].type \in TypeInfos'
               /\ v[k].name = infos'[v[k].type].base_name
               /\ v[k].what = "struct" => IsGenerated(v[k].type)'
    <3>1. PICK t : t = v[k].type OBVIOUS
    <3>2. t \in TypeInfos /\ v[k].name = infos[t].base_name
          /\ (v[k].what = "struct" => IsGenerated(t))
      BY <1>6, <2>2, <3>1
    <3>3. infos'[t].base_name = infos[t].base_name /\ (IsGenerated(t))' = IsGenerated(t)
      BY <1>5, <3>2
    <3> QED BY <1>1, <3>1, <3>2, <3>3
  <2>3. \A name \in macros' :
           \/ name = <<"eu_variant">>
           \/ \E t \in TypeInfos' : name = infos'[t].base_name /\ Emitted("member", t)'
    BY <1>1, <1>5, <1>8
  <2>4. Included' = Included BY DEF Included
  <2>5. \A j, k \in DOMAIN v : v[j].what = v[k].what /\ v[j].type = v[k].type => j = k
    BY <1>7
  <2> QED BY <1>3, <1>4, <2>1, <2>2, <2>3, <2>4, <2>5, Zenon DEF HeaderTyped
<1>10. ASSUME ~NamesClash, NEW k \in DOMAIN v PROVE Complete(k)'
  <2>1. PICK t : t = v[k].type OBVIOUS
  <2>2. CASE k = 1
    <3>1. v[k].what = "struct" /\ t = NULL BY <1>4, <2>1, <2>2, IncludedTyped DEF NULL
    <3> QED BY <1>3, <2>1, <3>1 DEF Complete
  <2>3. CASE k # 1 /\ k \in DOMAIN header
    <3>1. t \in TypeInfos BY <1>4, <1>6, <2>1, <2>3
    <3>2. Complete(k) BY <1>1, <1>10, <2>3 DEF HeaderComplete
    <3>3. v[k] = header[k] /\ header'[k] = header[k] BY <1>3, <1>4, <2>3
    <3>4. \A what, u : Before(k, what, u) => Before(k, what, u)' BY <1>2, <2>3
    <3>5. CASE header[k].what = "struct" /\ IsStruct(t)
      <4>1. t # NULL BY <3>1 DEF TypeInfos, NULL
      <4>2. /\ \A m \in ToSet(MemberTypes(t)) : IsArray(m) => Before(k, "struct", m)
            /\ Extras(t) # variant_type => Before(k, "members", Extras(t))
        BY <2>1, <3>2, <3>3, <3>5, <4>1 DEF Complete
      <4>3. \A m \in ToSet(MemberTypes(t)) : m \in TypeInfos
        BY <3>1, <3>5, StructLinks DEF ToSet
      <4> QED BY <1>5, <2>1, <3>1, <3>3, <3>4, <3>5, <4>1, <4>2, <4>3 DEF Complete
    <3>6. CASE header[k].what = "member"
      <4>1. IsGenerated(t) => Before(k, "struct", t) BY <2>1, <3>2, <3>3, <3>6 DEF Complete
      <4> QED BY <1>5, <2>1, <3>1, <3>3, <3>4, <3>6, <4>1 DEF Complete
    <3>7. CASE ~(header[k].what = "struct" /\ IsStruct(t)) /\ header[k].what # "member"
      BY <1>5, <2>1, <3>1, <3>3, <3>7 DEF Complete
    <3> QED BY <3>5, <3>6, <3>7
  <2>4. CASE k \notin DOMAIN header
    <3>1. PICK i \in DOMAIN ds : v[k] = ds[i] BY <1>4, <2>4
    <3>2. t \in TypeInfos /\ CanDeclare(ds[i]) /\ header'[k] = ds[i] BY <1>3, <2>1, <3>1 DEF CanDeclare
    <3>3. \A what, u : Emitted(what, u) => Before(k, what, u)' BY <1>2, <1>3, <2>4
    <3>4. CASE ds[i].what = "struct" /\ IsStruct(t)
      <4>1. t # NULL BY <3>2 DEF TypeInfos, NULL
      <4>2. /\ \A m \in ToSet(MemberTypes(t)) : IsArray(m) => Emitted("struct", m)
            /\ Extras(t) # variant_type => Emitted("members", Extras(t))
        BY <1>10, <2>1, <3>1, <3>2, <3>4 DEF CanDeclare
      <4>3. \A m \in ToSet(MemberTypes(t)) : m \in TypeInfos
        BY <3>2, <3>4, StructLinks DEF ToSet
      <4> QED BY <1>5, <2>1, <3>1, <3>2, <3>3, <3>4, <4>1, <4>2, <4>3 DEF Complete
    <3>5. CASE ds[i].what = "member"
      <4>1. IsGenerated(t) => Emitted("struct", t) BY <1>10, <2>1, <3>1, <3>2, <3>5 DEF CanDeclare
      <4> QED BY <1>5, <2>1, <3>1, <3>2, <3>3, <3>5, <4>1 DEF Complete
    <3>6. CASE ~(ds[i].what = "struct" /\ IsStruct(t)) /\ ds[i].what # "member"
      BY <1>5, <2>1, <3>1, <3>2, <3>6 DEF Complete
    <3> QED BY <3>4, <3>5, <3>6
  <2> QED BY <1>4, <2>2, <2>3, <2>4
<1>11. HeaderComplete'
  <2>1. ASSUME ~NamesClash', NEW k \in DOMAIN v PROVE Complete(k)'
    <3>1. ~NamesClash BY <1>5, <2>1
    <3> QED BY <1>10, <3>1
  <2> QED BY <1>3, <2>1 DEF HeaderComplete
<1> QED BY <1>9, <1>11

\* A declaration has been made, and no more calls.
LEMMA LateDeclared ==
    ASSUME CompilerInv, NEW h, First(h), h.op \in {"emit", "defined", "emit_members"},
           work' = <<>> \o Tail(work),
           UNCHANGED <<exit, ret, errors, files>>, SameTypes,
           infos' \in Seq(TypeRecords), Len(infos') = Len(infos),
           \A t \in TypeInfos : infos'[t].defined = "NOT_DEFINED"
                                <=> infos[t].defined = "NOT_DEFINED",
           header' \in Seq(Declarations), Chained', HeaderTyped', HeaderComplete',
           \A t \in TypeInfos : /\ Due("emit", t)' => ~Emitted("struct", t)'
                                /\ Due("emit", t)' \/ Due("defined", t)'
                                   => infos'[t].defined = "DEFINING",
           \A name \in macros' : \E t \in TypeInfos : name = infos[t].base_name,
           \A t \in TypeInfos : StateWhole(t)'
    PROVE  CompilerInv'
<1>1. h.op \in Defining BY DEF Defining
<1>2. /\ Late /\ LateWhole /\ ~errors /\ exit = "running" /\ work \in Seq(Tasks)
      /\ work # <<>> /\ work[1] = h
  BY <1>1, LateNow
<1>3. Lately /\ Once /\ AllWanted /\ MembersFirst BY <1>2 DEF LateWhole
<1>4. TypeInfos' = TypeInfos /\ doc' = doc /\ defs' = defs BY DEF SameTypes
<1>5. /\ \A t \in TypeInfos :
            /\ (IsStruct(t))' = IsStruct(t) /\ (IsGenerated(t))' = IsGenerated(t)
            /\ (MemberTypes(t))' = MemberTypes(t) /\ (IsRoot(t))' = IsRoot(t)
            /\ infos'[t].links = infos[t].links
      /\ (NamesClash)' = NamesClash
  BY SameTypesKept DEF SameTypes
<1>6. \A op, arg : Due(op, arg)' => Due(op, arg)
  <2>1. \A op, arg : Due(op, arg)' =>
              Due(op, arg) \/ \E x \in ToSet(<<>>) : x.op = op /\ x.arg = arg
    BY <1>2, NoTask, LateDues
  <2> QED BY <2>1, NoTask
<1>7. ASSUME NEW op, NEW arg, Due(op, arg), h.op # op PROVE Due(op, arg)'
  BY <1>2, <1>7, NoTask, DueStays
<1>8. Lately'
  <2>1. ToSet(work') \subseteq ToSet(work) \cup ToSet(<<>>) BY <1>2, NoTask, Neighbours
  <2>2. \A x \in ToSet(work) : x.op \in Defining \cup {"exit"} BY <1>1, LateNow
  <2>3. \A k \in DOMAIN work' : work'[k] \in ToSet(work') BY DEF ToSet
  <2> QED BY <1>2, <2>1, <2>2, <2>3, NoTask DEF Lately
<1>9. Once'
  <2>1. Unique(<<>>) BY NoTask DEF Unique
  <2>2. Unique(work') BY <1>2, <1>3, <2>1, NoTask, UniqueLeft DEF Once
  <2> QED BY <1>4, <2>2 DEF Once
<1>10. \A t \in TypeInfos : (Wanted(t))' <=> Wanted(t) BY <1>4, <1>5 DEF Wanted
<1>11. AllWanted'
  <2>1. \A t \in TypeInfos : IsGenerated(t) /\ infos[t].defined # "NOT_DEFINED" => Wanted(t)
    BY <1>3 DEF AllWanted
  <2>2. \A t \in TypeInfos : IsGenerated(t) /\ (Due("define", t) \/ Due("members", t))' => Wanted(t)
    BY <1>3, <1>6 DEF AllWanted
  <2>3. ASSUME NEW t \in TypeInfos, WillDefine(t) PROVE WillDefine(t)'
    BY <1>4, <1>7, <2>3 DEF WillDefine
  <2>4. ~NamesClash => \A t \in TypeInfos : IsGenerated(t) /\ Wanted(t)
           => infos[t].defined # "NOT_DEFINED" \/ WillDefine(t)'
    BY <1>3, <2>3 DEF AllWanted
  <2> QED BY <1>4, <1>5, <1>10, <2>1, <2>2, <2>4 DEF AllWanted
<1>12. MembersFirst'
  <2>1. ASSUME NEW t \in TypeInfos, IsStruct(t), Due("emit", t)',
               NEW m \in ToSet(MemberTypes(t)), infos'[m].defined = "NOT_DEFINED"
        PROVE  Precedes(m, t)'
    <3>1. Due("emit", t) BY <1>6, <2>1
    <3>2. m \in TypeInfos BY <1>2, <2>1, StructLinks DEF ToSet
    <3>3. Precedes(m, t) BY <1>3, <2>1, <3>1, <3>2 DEF MembersFirst
    <3> QED BY <1>2, <3>3, NoTask, PrecedesStays
  <2> QED BY <1>4, <1>5, <2>1 DEF MembersFirst
<1>13. LateWhole' BY <1>4, <1>8, <1>9, <1>11, <1>12 DEF LateWhole
<1>14. \A k \in DOMAIN header' : header'[k].type \in 0 .. Len(infos)
  <2>1. HeaderTyped' OBVIOUS
  <2>2. PICK v : v = header' OBVIOUS
  <2>3. \A k \in DOMAIN v : k > 1 => v[k].type \in TypeInfos
    BY <1>4, <2>1, <2>2 DEF HeaderTyped
  <2>4. v \in Seq(Declarations) BY <2>2
  <2>5. \A k \in DOMAIN v : k = 1 \/ k > 1 BY <2>4
  <2>6. v[1].type = 0 BY <2>1, <2>2, IncludedTyped DEF HeaderTyped, Included
  <2>7. Len(infos) \in Nat BY DEF CompilerInv, Typed
  <2>8. \A k \in DOMAIN v : v[k].type = 0 \/ v[k].type \in 1 .. Len(infos)
    BY <2>3, <2>5, <2>6 DEF TypeInfos
  <2>9. 0 \in 0 .. Len(infos) /\ \A t \in 1 .. Len(infos) : t \in 0 .. Len(infos) BY <2>7
  <2> QED BY <2>2, <2>8, <2>9, Zenon
<1> QED BY <1>1, <1>13, <1>14, NoTask, LateStep

\* The struct of a type is declared.
LEMMA EmitStep == ASSUME CompilerInv, Emit PROVE CompilerInv'
<1>1. PICK h \in Tasks : First(h) /\ h.op = "emit" /\ TaskWhole(h) /\ h = Head(work)
  BY HeadWhole DEF Emit
<1>2. PICK t : t = h.arg OBVIOUS
<1>3. UNCHANGED <<doc, defs, infos, exit, ret, errors, files, macros>>
  BY DEF Emit, KeepsTypes, NoError, Then
<1>4. work' = <<>> \o Tail(work) BY Zenon DEF Emit, Then
<1>5. h.op \in Defining BY <1>1 DEF Defining
<1>6. /\ Late /\ LateWhole /\ ~errors /\ work \in Seq(Tasks) /\ work # <<>>
      /\ work[1] = h /\ 1 \in DOMAIN work
      /\ t \in TypeInfos /\ IsGenerated(t)
  BY <1>1, <1>2, <1>5, LateNow DEF TaskWhole
<1>7. /\ Typed /\ TypesWhole /\ Chained /\ Once /\ HeaderTyped /\ MembersFirst
      /\ \A u \in TypeInfos : StateWhole(u)
  BY <1>6 DEF CompilerInv, LateWhole
<1>8. SameTypes BY <1>3 DEF SameTypes, TypeInfos
<1>9. PICK x : x = [what |-> "struct", name |-> infos[t].base_name, type |-> t] OBVIOUS
<1>10. PICK ds : ds = <<x>> OBVIOUS
<1>11. header' = header \o ds
  <2>1. header' = Append(header, x) BY <1>1, <1>2, <1>9, Zenon DEF Emit, Declared, Arg
  <2>2. header \in Seq(Declarations) BY <1>7 DEF Typed
  <2> QED BY <1>10, <2>1, <2>2
<1>12. x \in Declarations
  <2>1. infos[t].base_name \in Names /\ t \in Nat BY <1>6, <1>7, InfoTyped
  <2> QED BY <1>9, <2>1 DEF Declarations
<1>13. ds \in Seq(Declarations) /\ DOMAIN ds = {1} /\ ds[1] = x BY <1>10, <1>12
<1>14. Due("emit", t) BY <1>1, <1>2, <1>6 DEF Due
<1>15. ~Emitted("struct", t) /\ infos[t].defined = "DEFINING" BY <1>6, <1>7, <1>14 DEF Once
<1>16. IsStruct(t) => infos[Extras(t)].named BY <1>1, <1>2, <1>7 DEF Chained, Readied
<1>17. CanDeclare(x)
  <2>1. ASSUME IsStruct(t), NEW m \in ToSet(MemberTypes(t)), IsArray(m)
        PROVE  Emitted("struct", m)
    <3>1. m \in TypeInfos BY <1>6, <2>1, StructLinks DEF ToSet
    <3>2. ~Precedes(m, t)
      <4>1. ASSUME Precedes(m, t) PROVE FALSE
        <5>1. PICK j, k \in DOMAIN work : j < k /\ work[k].op = "emit" /\ work[k].arg = t
          BY <4>1 DEF Precedes
        <5>2. k = 1 BY <1>1, <1>2, <1>6, <1>7, <5>1 DEF Once, Unique
        <5>3. j \in 1 .. Len(work) BY <1>6
        <5> QED BY <5>1, <5>2, <5>3
      <4> QED BY <4>1
    <3>3. infos[m].defined # "NOT_DEFINED" BY <1>6, <1>7, <1>14, <2>1, <3>2 DEF MembersFirst
    <3>4. infos[m].defined \in {"NOT_DEFINED", "DEFINING", "DEFINED"}
      BY <1>7, <3>1, InfoTyped DEF TypeRecords
    <3>5. ~First([op |-> "emit", arg |-> m])
      <4>1. m # t BY <2>1 DEF IsStruct, IsArray
      <4> QED BY <1>2, <1>6, <4>1 DEF First
    <3>6. IsGenerated(m) /\ StateWhole(m) BY <1>7, <2>1, <3>1 DEF IsGenerated
    <3> QED BY <2>1, <3>3, <3>4, <3>5, <3>6 DEF StateWhole
  <2>2. ASSUME IsStruct(t), ~NamesClash, Extras(t) # variant_type
        PROVE  Emitted("members", Extras(t))
    <3>1. Extras(t) \in TypeInfos BY <1>6, <2>2, StructLinks
    <3>2. StateWhole(Extras(t)) BY <1>7, <3>1
    <3> QED BY <1>16, <2>2, <3>2 DEF StateWhole
  <2> QED BY <1>6, <1>9, <1>15, <2>1, <2>2 DEF CanDeclare
<1>18. HeaderTyped' /\ HeaderComplete'
  <2>1. \A i \in DOMAIN ds : CanDeclare(ds[i]) BY <1>13, <1>17
  <2>2. \A i, j \in DOMAIN ds : i = j BY <1>13
  <2>3. \A name \in macros' : name \in macros BY <1>3
  <2> QED BY <1>6, <1>8, <1>11, <1>13, <2>1, <2>2, <2>3, HeaderStep
<1>19. /\ header' \in Seq(Declarations)
       /\ \A what, u : Emitted(what, u)' <=> Emitted(what, u) \/ (what = "struct" /\ u = t)
  <2>1. header \in Seq(Declarations) BY <1>7 DEF Typed
  <2>2. /\ header' \in Seq(Declarations)
        /\ \A what, u : Emitted(what, u)' <=>
              \/ Emitted(what, u)
              \/ \E i \in DOMAIN ds : ds[i].what = what /\ ds[i].type = u
    BY <1>11, <1>13, <2>1, HeaderGrown
  <2>3. x.what = "struct" /\ x.type = t BY <1>9
  <2>4. \A what, u : (\E i \in DOMAIN ds : ds[i].what = what /\ ds[i].type = u)
                     <=> what = "struct" /\ u = t
    BY <1>13, <2>3
  <2> QED BY <2>2, <2>4, ZenonT(60)
<1>20. Chained'
  <2>1. ASSUME NEW y \in Tasks, Following(h, y) PROVE Readied(y)'
    <3>1. y.op \notin {"emit", "emit_members"} /\ (y.op = "defined" => y.arg = t)
      BY <1>1, <1>2, <2>1 DEF Following
    <3>2. y.op = "defined" => Emitted("struct", y.arg)' BY <1>19, <3>1
    <3> QED BY <3>1, <3>2 DEF Readied
  <2> QED BY <1>1, <1>4, <1>5, <1>8, <2>1, ChainedNext
<1>21. ~Due("emit", t)'
  <2>1. Unique(work) BY <1>7 DEF Once
  <2>2. ~Due(h.op, h.arg)' BY <1>1, <1>4, <1>6, <2>1, FirstOnly
  <2> QED BY <1>1, <1>2, <2>2
<1>22. \A op, arg : Due(op, arg)' => Due(op, arg)
  <2>1. \A op, arg : Due(op, arg)' =>
              Due(op, arg) \/ \E z \in ToSet(<<>>) : z.op = op /\ z.arg = arg
    BY <1>1, <1>4, <1>6, NoTask, LateDues
  <2> QED BY <2>1, NoTask
<1>23. \A u \in TypeInfos : /\ Due("emit", u)' => ~Emitted("struct", u)'
                            /\ Due("emit", u)' \/ Due("defined", u)'
                               => infos'[u].defined = "DEFINING"
  BY <1>3, <1>7, <1>19, <1>21, <1>22 DEF Once
<1>24. ASSUME NEW u \in TypeInfos PROVE StateWhole(u)'
  <2>1. StateWhole(u) BY <1>7
  <2>2. Due("defined", u) => Due("defined", u)'
    <3>1. ASSUME Due("defined", u) PROVE Due("defined", u)'
      BY <1>1, <1>4, <1>6, <3>1, NoTask, DueStays
    <3> QED BY <3>1
  <2>3. First([op |-> "emit", arg |-> u]) => u = t BY <1>2, <1>6 DEF First
  <2>4. /\ (IsStruct(u))' = IsStruct(u) /\ (IsArray(u))' = IsArray(u)
        /\ (IsGenerated(u))' = IsGenerated(u) /\ (Extras(u))' = Extras(u)
        /\ (NamesClash)' = NamesClash
    BY <1>8, SameTypesKept
  <2>5. /\ Emitted("struct", u)' <=> Emitted("struct", u) \/ u = t
        /\ Emitted("member", u)' <=> Emitted("member", u)
        /\ Emitted("members", u)' <=> Emitted("members", u)
    BY <1>19
  <2>6. infos'[u] = infos[u] /\ infos'[Extras(u)] = infos[Extras(u)] BY <1>3
  <2>7. CASE u = t
    BY <1>3, <1>15, <1>16, <2>1, <2>2, <2>4, <2>5, <2>6, <2>7 DEF StateWhole
  <2>8. CASE u # t
    BY <1>3, <2>1, <2>2, <2>3, <2>4, <2>5, <2>6, <2>8 DEF StateWhole
  <2> QED BY <2>7, <2>8
<1>25. /\ infos' \in Seq(TypeRecords) /\ Len(infos') = Len(infos)
       /\ \A u \in TypeInfos : infos'[u].defined = "NOT_DEFINED"
                               <=> infos[u].defined = "NOT_DEFINED"
       /\ \A name \in macros' : \E u \in TypeInfos : name = infos[u].base_name
  BY <1>3, <1>7 DEF Typed, TypesWhole
<1> QED BY <1>1, <1>3, <1>4, <1>8, <1>18, <1>19, <1>20, <1>23, <1>24, <1>25, LateDeclared

\* How far a type has been defined is marked in its type_info.
LEMMA Marked ==
    ASSUME Typed, NEW t \in TypeInfos, NEW r \in TypeRecords,
           r.schema = infos[t].schema, r.base_name = infos[t].base_name,
           r.links = infos[t].links, infos' = [infos EXCEPT ![t] = r],
           doc' = doc, defs' = defs
    PROVE  /\ infos' \in Seq(TypeRecords) /\ Len(infos') = Len(infos) /\ SameTypes
           /\ infos'[t] = r /\ \A u \in TypeInfos : u # t => infos'[u] = infos[u]
<1>1. infos \in Seq(TypeRecords) /\ t \in DOMAIN infos /\ DOMAIN infos = 1 .. Len(infos)
  BY DEF Typed, TypeInfos
<1>2. infos' \in Seq(TypeRecords) /\ Len(infos') = Len(infos) BY <1>1
<1>3. infos'[t] = r /\ \A u \in TypeInfos : u # t => infos'[u] = infos[u]
  BY <1>1 DEF TypeInfos
<1>4. SameTypes
  <2>1. TypeInfos' = TypeInfos BY <1>2 DEF TypeInfos
  <2>2. ASSUME NEW u \in TypeInfos
        PROVE  /\ infos'[u].schema = infos[u].schema /\ infos'[u].base_name = infos[u].base_name
               /\ infos'[u].links = infos[u].links
    <3>1. CASE u = t BY <1>3, <3>1
    <3>2. CASE u # t BY <1>3, <3>2
    <3> QED BY <3>1, <3>2
  <2> QED BY <2>1, <2>2 DEF SameTypes
<1> QED BY <1>2, <1>3, <1>4

\* What is between #ifndef and #endif is declared once.
LEMMA GuardedOnce ==
    ASSUME header \in Seq(Declarations), NEW t, NEW d \in Seq(Declarations), Guarded(t, d)
    PROVE  \E ds \in Seq(Declarations) :
              /\ header' = header \o ds /\ files' = files
              /\ infos[t].base_name \in macros => ds = <<>> /\ macros' = macros
              /\ infos[t].base_name \notin macros =>
                    /\ ds = d
                    /\ Declared("member", t) \in ToSet(d)
                       => macros' = macros \cup {infos[t].base_name}
                    /\ Declared("member", t) \notin ToSet(d) => macros' = macros
<1>1. CASE infos[t].base_name \in macros
  <2>1. header' = header /\ macros' = macros /\ files' = files BY <1>1, Zenon DEF Guarded
  <2>2. header = header \o <<>> /\ <<>> \in Seq(Declarations) OBVIOUS
  <2> QED BY <1>1, <2>1, <2>2
<1>2. CASE infos[t].base_name \notin macros
  <2>1. /\ header' = header \o d /\ files' = files
        /\ macros' = IF Declared("member", t) \in ToSet(d)
                     THEN macros \cup {infos[t].base_name} ELSE macros
    BY <1>2, Zenon DEF Guarded
  <2> QED BY <1>2, <2>1, Zenon
<1> QED BY <1>1, <1>2

\* The definition of a type ends: its *_member is declared, if it is needed.
LEMMA DefinedStep == ASSUME CompilerInv, Defined PROVE CompilerInv'
<1>1. PICK h \in Tasks : First(h) /\ h.op = "defined" /\ TaskWhole(h) /\ h = Head(work)
  BY HeadWhole DEF Defined
<1>2. PICK t : t = h.arg OBVIOUS
<1>3. UNCHANGED <<doc, defs, exit, ret, errors>> BY DEF Defined, NoError, Then
<1>4. work' = <<>> \o Tail(work) BY Zenon DEF Defined, Then
<1>5. h.op \in Defining BY <1>1 DEF Defining
<1>6. /\ Late /\ LateWhole /\ ~errors /\ work \in Seq(Tasks) /\ work # <<>>
      /\ work[1] = h /\ 1 \in DOMAIN work
      /\ t \in TypeInfos /\ IsGenerated(t)
  BY <1>1, <1>2, <1>5, LateNow DEF TaskWhole
<1>7. /\ Typed /\ TypesWhole /\ Chained /\ Once /\ HeaderTyped
      /\ \A u \in TypeInfos : StateWhole(u)
      /\ header \in Seq(Declarations)
  BY <1>6 DEF CompilerInv, LateWhole, Typed
<1>8. PICK r : r = [infos[t] EXCEPT !.defined = "DEFINED"] OBVIOUS
<1>9. /\ r \in TypeRecords /\ r.schema = infos[t].schema /\ r.base_name = infos[t].base_name
      /\ r.links = infos[t].links /\ r.named = infos[t].named /\ r.defined = "DEFINED"
  <2>1. infos[t] \in TypeRecords BY <1>6, <1>7, InfoTyped
  <2> QED BY <1>8, <2>1 DEF TypeRecords
<1>10. infos' = [infos EXCEPT ![t] = r] BY <1>1, <1>2, <1>8 DEF Defined, Arg
<1>11. /\ infos' \in Seq(TypeRecords) /\ Len(infos') = Len(infos) /\ SameTypes
       /\ infos'[t] = r /\ \A u \in TypeInfos : u # t => infos'[u] = infos[u]
  BY <1>3, <1>6, <1>7, <1>9, <1>10, Marked
<1>12. PICK x : x = [what |-> "member", name |-> infos[t].base_name, type |-> t] OBVIOUS
<1>13. x \in Declarations /\ x.what = "member" /\ x.type = t /\ x.name = infos[t].base_name
       /\ Declared("member", t) = x
  <2>1. infos[t].base_name \in Names /\ t \in Nat BY <1>6, <1>7, InfoTyped
  <2> QED BY <1>12, <2>1 DEF Declarations, Declared
<1>14. PICK one : one = <<x>> OBVIOUS
<1>15. one \in Seq(Declarations) /\ DOMAIN one = {1} /\ one[1] = x /\ x \in ToSet(one)
       /\ one # <<>>
  BY <1>13, <1>14 DEF ToSet
<1>16. \/ infos[t].named /\ Guarded(t, one)
       \/ ~infos[t].named /\ KeepsOutput
  BY <1>1, <1>2, <1>13, <1>14, Zenon DEF Defined, Arg
<1>17. PICK ds \in Seq(Declarations) :
          /\ header' = header \o ds /\ files' = files
          /\ ds = <<>> => macros' = macros /\ (infos[t].named => infos[t].base_name \in macros)
          /\ ds # <<>> => /\ ds = one /\ infos[t].named /\ infos[t].base_name \notin macros
                          /\ macros' = macros \cup {infos[t].base_name}
  <2>1. CASE infos[t].named /\ Guarded(t, one)
    <3>1. PICK ds \in Seq(Declarations) :
              /\ header' = header \o ds /\ files' = files
              /\ infos[t].base_name \in macros => ds = <<>> /\ macros' = macros
              /\ infos[t].base_name \notin macros =>
                    /\ ds = one
                    /\ Declared("member", t) \in ToSet(one)
                       => macros' = macros \cup {infos[t].base_name}
                    /\ Declared("member", t) \notin ToSet(one) => macros' = macros
      BY <1>7, <1>15, <2>1, GuardedOnce, Zenon
    <3>2. one # <<>> BY <1>15
    <3> QED BY <1>13, <1>15, <2>1, <3>1, <3>2
  <2>2. CASE ~infos[t].named /\ KeepsOutput
    <3>1. header' = header /\ macros' = macros /\ files' = files BY <2>2 DEF KeepsOutput
    <3>2. header = header \o <<>> /\ <<>> \in Seq(Declarations) BY <1>7
    <3> QED BY <2>2, <3>1, <3>2
  <2> QED BY <1>16, <2>1, <2>2
<1>18. \A i \in DOMAIN ds : ds # <<>> /\ i = 1 /\ ds[i] = x
  BY <1>15, <1>17
<1>19. Due("defined", t) BY <1>1, <1>2, <1>6 DEF Due
<1>20. infos[t].defined = "DEFINING" BY <1>6, <1>7, <1>19 DEF Once
<1>21. Emitted("struct", t) BY <1>1, <1>2, <1>7 DEF Chained, Readied
<1>22. StateWhole(t) BY <1>6, <1>7
<1>23. HeaderTyped' /\ HeaderComplete'
  <2>1. ASSUME NEW i \in DOMAIN ds PROVE CanDeclare(ds[i])
    <3>1. ds[i] = x /\ infos[t].base_name \notin macros BY <1>17, <1>18
    <3>2. ~Emitted("member", t) BY <1>22, <3>1 DEF StateWhole
    <3> QED BY <1>6, <1>13, <1>21, <3>1, <3>2 DEF CanDeclare
  <2>2. \A i, j \in DOMAIN ds : i = j BY <1>18
  <2>3. \A name \in macros' : name \in macros \/
           \E i \in DOMAIN ds : ds[i].what = "member" /\ name = infos[ds[i].type].base_name
    <3>1. CASE ds = <<>> BY <1>17, <3>1
    <3>2. CASE ds # <<>>
      <4>1. 1 \in DOMAIN ds /\ ds[1].what = "member" /\ ds[1].type = t
        BY <1>13, <1>15, <1>17, <3>2
      <4>2. \A name \in macros' : name \in macros \/ name = infos[t].base_name
        BY <1>17, <3>2
      <4> QED BY <4>1, <4>2
    <3> QED BY <3>1, <3>2
  <2> QED BY <1>6, <1>11, <1>17, <2>1, <2>2, <2>3, HeaderStep
<1>24. /\ header' \in Seq(Declarations)
       /\ \A what, u : Emitted(what, u)' <=>
             Emitted(what, u) \/ (ds # <<>> /\ what = "member" /\ u = t)
  <2>1. /\ header' \in Seq(Declarations)
        /\ \A what, u : Emitted(what, u)' <=>
              \/ Emitted(what, u)
              \/ \E i \in DOMAIN ds : ds[i].what = what /\ ds[i].type = u
    BY <1>7, <1>17, HeaderGrown
  <2>2. ds # <<>> => 1 \in DOMAIN ds BY <1>15, <1>17
  <2>3. \A what, u : (\E i \in DOMAIN ds : ds[i].what = what /\ ds[i].type = u)
                     <=> ds # <<>> /\ what = "member" /\ u = t
    BY <1>13, <1>18, <2>2
  <2> QED BY <2>1, <2>3, ZenonT(60)
<1>25. infos'[t].named => infos'[t].base_name \in macros'
  <2>1. CASE ds = <<>> BY <1>9, <1>11, <1>17, <2>1
  <2>2. CASE ds # <<>> BY <1>9, <1>11, <1>17, <2>2
  <2> QED BY <2>1, <2>2
<1>26. Chained'
  <2>1. ASSUME NEW y \in Tasks, Following(h, y) PROVE Readied(y)'
    <3>1. y.op \notin {"emit", "defined"} /\ (y.op = "emit_members" => y.arg = t)
      BY <1>1, <1>2, <2>1 DEF Following
    <3>2. infos'[t].defined # "NOT_DEFINED" BY <1>9, <1>11
    <3> QED BY <1>25, <3>1, <3>2 DEF Readied
  <2> QED BY <1>1, <1>4, <1>5, <1>11, <2>1, ChainedNext
<1>27. ~Due("defined", t)'
  <2>1. Unique(work) BY <1>7 DEF Once
  <2>2. ~Due(h.op, h.arg)' BY <1>1, <1>4, <1>6, <2>1, FirstOnly
  <2> QED BY <1>1, <1>2, <2>2
<1>28. \A op, arg : Due(op, arg)' => Due(op, arg)
  <2>1. \A op, arg : Due(op, arg)' =>
              Due(op, arg) \/ \E z \in ToSet(<<>>) : z.op = op /\ z.arg = arg
    BY <1>1, <1>4, <1>6, NoTask, LateDues
  <2> QED BY <2>1, NoTask
<1>29. ASSUME NEW u \in TypeInfos
       PROVE  /\ Due("emit", u)' => ~Emitted("struct", u)'
              /\ Due("emit", u)' \/ Due("defined", u)' => infos'[u].defined = "DEFINING"
  <2>1. /\ Due("emit", u) => ~Emitted("struct", u)
        /\ Due("emit", u) \/ Due("defined", u) => infos[u].defined = "DEFINING"
    BY <1>7 DEF Once
  <2>2. Emitted("struct", u)' <=> Emitted("struct", u) BY <1>24
  <2>3. CASE u = t BY <1>21, <1>27, <1>28, <2>1, <2>2, <2>3
  <2>4. CASE u # t BY <1>11, <1>28, <2>1, <2>2, <2>4
  <2> QED BY <2>3, <2>4
<1>30. \A u \in TypeInfos : (infos'[u].named <=> infos[u].named)
                            /\ infos'[u].base_name = infos[u].base_name
  <2>1. ASSUME NEW u \in TypeInfos
        PROVE  (infos'[u].named <=> infos[u].named) /\ infos'[u].base_name = infos[u].base_name
    <3>1. CASE u = t BY <1>9, <1>11, <3>1
    <3>2. CASE u # t BY <1>11, <3>2
    <3> QED BY <3>1, <3>2
  <2> QED BY <2>1
<1>31. macros \subseteq macros'
  <2>1. CASE ds = <<>> BY <1>17, <2>1
  <2>2. CASE ds # <<>> BY <1>17, <2>2
  <2> QED BY <2>1, <2>2
<1>32. ASSUME NEW u \in TypeInfos PROVE StateWhole(u)'
  <2>1. StateWhole(u) BY <1>7
  <2>2. u # t /\ Due("defined", u) => Due("defined", u)'
    <3>1. ASSUME u # t, Due("defined", u) PROVE Due("defined", u)'
      BY <1>1, <1>2, <1>4, <1>6, <3>1, NoTask, DueStays
    <3> QED BY <3>1
  <2>3. ~First([op |-> "emit", arg |-> u]) BY <1>1, <1>6 DEF First
  <2>4. /\ (IsStruct(u))' = IsStruct(u) /\ (IsArray(u))' = IsArray(u)
        /\ (IsGenerated(u))' = IsGenerated(u) /\ (Extras(u))' = Extras(u)
        /\ (NamesClash)' = NamesClash
    BY <1>11, SameTypesKept
  <2>5. /\ Emitted("struct", u)' <=> Emitted("struct", u)
        /\ Emitted("member", u)' <=> Emitted("member", u) \/ (ds # <<>> /\ u = t)
        /\ Emitted("members", u)' <=> Emitted("members", u)
    BY <1>24
  <2>6. IsStruct(u) => (infos'[Extras(u)].named <=> infos[Extras(u)].named)
    BY <1>6, <1>30, StructLinks
  <2>7. CASE u = t
    <3>1. infos'[t].defined = "DEFINED" /\ infos'[t].named = infos[t].named BY <1>9, <1>11
    <3>2. ds # <<>> => infos[t].named BY <1>17
    <3> QED BY <1>6, <1>21, <1>25, <1>30, <1>31, <2>1, <2>4, <2>5, <2>6, <2>7, <3>1, <3>2
            DEF StateWhole
  <2>8. CASE u # t
    <3>1. infos'[u] = infos[u] BY <1>11, <2>8
    <3> QED BY <1>31, <2>1, <2>2, <2>3, <2>4, <2>5, <2>6, <2>8, <3>1 DEF StateWhole
  <2> QED BY <2>7, <2>8
<1>33. \A name \in macros' : \E u \in TypeInfos : name = infos[u].base_name
  <2>1. \A name \in macros : \E u \in TypeInfos : name = infos[u].base_name
    BY <1>7 DEF TypesWhole
  <2>2. \A name \in macros' : name \in macros \/ name = infos[t].base_name
    <3>1. CASE ds = <<>> BY <1>17, <3>1
    <3>2. CASE ds # <<>> BY <1>17, <3>2
    <3> QED BY <3>1, <3>2
  <2> QED BY <1>6, <2>1, <2>2
<1>34. \A u \in TypeInfos : infos'[u].defined = "NOT_DEFINED" <=> infos[u].defined = "NOT_DEFINED"
  BY <1>9, <1>11, <1>20
<1> QED BY <1>1, <1>3, <1>4, <1>11, <1>17, <1>23, <1>24, <1>26, <1>29, <1>32, <1>33, <1>34,
           LateDeclared

\* The *_members of a type is declared, and its *_member when it can be.
LEMMA EmitMembersStep == ASSUME CompilerInv, EmitMembers PROVE CompilerInv'
<1>1. PICK h \in Tasks : First(h) /\ h.op = "emit_members" /\ TaskWhole(h) /\ h = Head(work)
  BY HeadWhole DEF EmitMembers
<1>2. PICK t : t = h.arg OBVIOUS
<1>3. UNCHANGED <<doc, defs, exit, ret, errors>> BY DEF EmitMembers, NoError, Then
<1>4. work' = <<>> \o Tail(work) BY Zenon DEF EmitMembers, Then
<1>5. h.op \in Defining BY <1>1 DEF Defining
<1>6. /\ Late /\ LateWhole /\ ~errors /\ work \in Seq(Tasks) /\ work # <<>>
      /\ work[1] = h /\ 1 \in DOMAIN work /\ t \in TypeInfos
  BY <1>1, <1>2, <1>5, LateNow DEF TaskWhole
<1>7. /\ Typed /\ TypesWhole /\ Chained /\ Once /\ HeaderTyped
      /\ \A u \in TypeInfos : StateWhole(u)
      /\ header \in Seq(Declarations)
  BY <1>6 DEF CompilerInv, LateWhole, Typed
<1>8. PICK r : r = [infos[t] EXCEPT !.named = TRUE] OBVIOUS
<1>9. /\ r \in TypeRecords /\ r.schema = infos[t].schema /\ r.base_name = infos[t].base_name
      /\ r.links = infos[t].links /\ r.named /\ r.defined = infos[t].defined
  <2>1. infos[t] \in TypeRecords BY <1>6, <1>7, InfoTyped
  <2> QED BY <1>8, <2>1 DEF TypeRecords
<1>10. infos' = [infos EXCEPT ![t] = r] BY <1>1, <1>2, <1>8 DEF EmitMembers, Arg
<1>11. /\ infos' \in Seq(TypeRecords) /\ Len(infos') = Len(infos) /\ SameTypes
       /\ infos'[t] = r /\ \A u \in TypeInfos : u # t => infos'[u] = infos[u]
  BY <1>3, <1>6, <1>7, <1>9, <1>10, Marked
<1>12. PICK x, y : /\ x = [what |-> "member", name |-> infos[t].base_name, type |-> t]
                   /\ y = [what |-> "members", name |-> infos[t].base_name, type |-> t]
  OBVIOUS
<1>13. /\ x \in Declarations /\ x.what = "member" /\ x.type = t /\ x.name = infos[t].base_name
       /\ y \in Declarations /\ y.what = "members" /\ y.type = t /\ y.name = infos[t].base_name
       /\ Declared("member", t) = x /\ Declared("members", t) = y /\ x # y
  <2>1. infos[t].base_name \in Names /\ t \in Nat BY <1>6, <1>7, InfoTyped
  <2> QED BY <1>12, <2>1 DEF Declarations, Declared
<1>14. PICK d : d = IF infos[t].defined = "DEFINED" THEN <<x, y>> ELSE <<y>> OBVIOUS
<1>15. /\ d \in Seq(Declarations) /\ d # <<>>
       /\ \A i \in DOMAIN d : d[i] = y \/ (d[i] = x /\ infos[t].defined = "DEFINED")
       /\ \A i, j \in DOMAIN d : d[i].what = d[j].what => i = j
       /\ \E i \in DOMAIN d : d[i] = y
       /\ infos[t].defined = "DEFINED" => \E i \in DOMAIN d : d[i] = x
       /\ x \in ToSet(d) <=> infos[t].defined = "DEFINED"
  <2>1. CASE infos[t].defined = "DEFINED"
    <3>1. d = <<x, y>> BY <1>14, <2>1
    <3>2. d \in Seq(Declarations) /\ DOMAIN d = {1, 2} /\ d[1] = x /\ d[2] = y /\ d # <<>>
      BY <1>13, <3>1
    <3> QED BY <1>13, <2>1, <3>2 DEF ToSet
  <2>2. CASE infos[t].defined # "DEFINED"
    <3>1. d = <<y>> BY <1>14, <2>2
    <3>2. d \in Seq(Declarations) /\ DOMAIN d = {1} /\ d[1] = y /\ d # <<>>
      BY <1>13, <3>1
    <3> QED BY <1>13, <2>2, <3>2 DEF ToSet
  <2> QED BY <2>1, <2>2
<1>16. Guarded(t, d) BY <1>1, <1>2, <1>13, <1>14, Zenon DEF EmitMembers, Arg
<1>17. PICK ds \in Seq(Declarations) :
          /\ header' = header \o ds /\ files' = files
          /\ ds = <<>> => macros' = macros /\ infos[t].base_name \in macros
          /\ ds # <<>> => /\ ds = d /\ infos[t].base_name \notin macros
                          /\ infos[t].defined = "DEFINED"
                             => macros' = macros \cup {infos[t].base_name}
                          /\ infos[t].defined # "DEFINED" => macros' = macros
  <2>1. PICK ds \in Seq(Declarations) :
              /\ header' = header \o ds /\ files' = files
              /\ infos[t].base_name \in macros => ds = <<>> /\ macros' = macros
              /\ infos[t].base_name \notin macros =>
                    /\ ds = d
                    /\ Declared("member", t) \in ToSet(d)
                       => macros' = macros \cup {infos[t].base_name}
                    /\ Declared("member", t) \notin ToSet(d) => macros' = macros
      BY <1>7, <1>15, <1>16, GuardedOnce, Zenon
  <2> QED BY <1>13, <1>15, <2>1
<1>18. /\ infos[t].defined # "NOT_DEFINED"
       /\ infos[t].named => infos[t].base_name \in macros
  BY <1>1, <1>2, <1>7 DEF Chained, Readied
<1>19. StateWhole(t) BY <1>6, <1>7
<1>20. /\ \A i \in DOMAIN ds : ds # <<>> /\ (ds[i] = y \/ (ds[i] = x /\ infos[t].defined = "DEFINED"))
       /\ \A i, j \in DOMAIN ds : ds[i].what = ds[j].what => i = j
  <2>1. \A i \in DOMAIN ds : ds # <<>> /\ ds = d
    <3>1. DOMAIN <<>> = {} OBVIOUS
    <3> QED BY <1>17, <3>1
  <2> QED BY <1>15, <2>1
<1>21. HeaderTyped' /\ HeaderComplete'
  <2>1. ASSUME NEW i \in DOMAIN ds PROVE CanDeclare(ds[i])
    <3>1. infos[t].base_name \notin macros /\ ~infos[t].named BY <1>17, <1>18, <1>20
    <3>2. ~Emitted("member", t) /\ ~Emitted("members", t) BY <1>19, <3>1 DEF StateWhole
    <3>3. infos[t].defined = "DEFINED" /\ IsGenerated(t) => Emitted("struct", t)
      BY <1>19 DEF StateWhole
    <3>4. CASE ds[i] = y BY <1>6, <1>13, <3>2, <3>4 DEF CanDeclare
    <3>5. CASE ds[i] = x /\ infos[t].defined = "DEFINED"
      BY <1>6, <1>13, <3>2, <3>3, <3>5 DEF CanDeclare
    <3> QED BY <1>20, <3>4, <3>5
  <2>2. \A name \in macros' : name \in macros \/
           \E i \in DOMAIN ds : ds[i].what = "member" /\ name = infos[ds[i].type].base_name
    <3>1. CASE ds = <<>> \/ infos[t].defined # "DEFINED" BY <1>17, <3>1
    <3>2. CASE ds # <<>> /\ infos[t].defined = "DEFINED"
      <4>1. PICK i \in DOMAIN ds : ds[i] = x BY <1>15, <1>17, <3>2
      <4>2. \A name \in macros' : name \in macros \/ name = infos[t].base_name
        BY <1>17, <3>2
      <4> QED BY <1>13, <4>1, <4>2
    <3> QED BY <3>1, <3>2
  <2> QED BY <1>6, <1>11, <1>17, <1>20, <2>1, <2>2, HeaderStep, ZenonT(60)
<1>22. /\ header' \in Seq(Declarations)
       /\ \A what, u : Emitted(what, u)' <=>
             \/ Emitted(what, u)
             \/ ds # <<>> /\ what = "members" /\ u = t
             \/ ds # <<>> /\ what = "member" /\ u = t /\ infos[t].defined = "DEFINED"
  <2>1. /\ header' \in Seq(Declarations)
        /\ \A what, u : Emitted(what, u)' <=>
              \/ Emitted(what, u)
              \/ \E i \in DOMAIN ds : ds[i].what = what /\ ds[i].type = u
    BY <1>7, <1>17, HeaderGrown
  <2>2. ds # <<>> => /\ \E i \in DOMAIN ds : ds[i] = y
                     /\ infos[t].defined = "DEFINED" => \E i \in DOMAIN ds : ds[i] = x
    BY <1>15, <1>17
  <2>3. ASSUME NEW what, NEW u
        PROVE  (\E i \in DOMAIN ds : ds[i].what = what /\ ds[i].type = u) <=>
                  \/ ds # <<>> /\ what = "members" /\ u = t
                  \/ ds # <<>> /\ what = "member" /\ u = t /\ infos[t].defined = "DEFINED"
    <3>1. ASSUME NEW i \in DOMAIN ds, ds[i].what = what, ds[i].type = u
          PROVE  \/ ds # <<>> /\ what = "members" /\ u = t
                 \/ ds # <<>> /\ what = "member" /\ u = t /\ infos[t].defined = "DEFINED"
      BY <1>13, <1>20, <3>1
    <3>2. ASSUME ds # <<>>, what = "members", u = t
          PROVE  \E i \in DOMAIN ds : ds[i].what = what /\ ds[i].type = u
      BY <1>13, <2>2, <3>2
    <3>3. ASSUME ds # <<>>, what = "member", u = t, infos[t].defined = "DEFINED"
          PROVE  \E i \in DOMAIN ds : ds[i].what = what /\ ds[i].type = u
      BY <1>13, <2>2, <3>3
    <3> QED BY <3>1, <3>2, <3>3
  <2>4. ASSUME NEW what, NEW u
        PROVE  Emitted(what, u)' <=>
                  \/ Emitted(what, u)
                  \/ ds # <<>> /\ what = "members" /\ u = t
                  \/ ds # <<>> /\ what = "member" /\ u = t /\ infos[t].defined = "DEFINED"
    <3>1. Emitted(what, u)' <=>
             \/ Emitted(what, u)
             \/ \E i \in DOMAIN ds : ds[i].what = what /\ ds[i].type = u
      BY <2>1
    <3> QED BY <2>3, <3>1, ZenonT(60)
  <2> QED BY <2>1, <2>4
<1>23. Chained'
  <2>1. ASSUME NEW z \in Tasks, TaskWhole(z), Following(h, z) PROVE Readied(z)'
    <3>1. /\ z.op \notin {"emit_members", "defined"}
          /\ z.op = "emit" => IsStruct(z.arg) /\ Extras(z.arg) = t
      BY <1>1, <1>2, <2>1 DEF Following
    <3>2. z.op = "emit" => (Extras(z.arg))' = Extras(z.arg)
      <4>1. z.op = "emit" => z.arg \in TypeInfos BY <2>1 DEF TaskWhole
      <4> QED BY <1>11, <4>1, SameTypesKept
    <3>3. infos'[t].named BY <1>9, <1>11
    <3> QED BY <3>1, <3>2, <3>3 DEF Readied
  <2> QED BY <1>1, <1>4, <1>5, <1>11, <2>1, ChainedNext
<1>24. \A op, arg : Due(op, arg)' => Due(op, arg)
  <2>1. \A op, arg : Due(op, arg)' =>
              Due(op, arg) \/ \E z \in ToSet(<<>>) : z.op = op /\ z.arg = arg
    BY <1>1, <1>4, <1>6, NoTask, LateDues
  <2> QED BY <2>1, NoTask
<1>25. \A u \in TypeInfos : /\ infos'[u].defined = infos[u].defined
                            /\ infos'[u].base_name = infos[u].base_name
                            /\ infos[u].named => infos'[u].named
  <2>1. ASSUME NEW u \in TypeInfos
        PROVE  /\ infos'[u].defined = infos[u].defined
               /\ infos'[u].base_name = infos[u].base_name
               /\ infos[u].named => infos'[u].named
    <3>1. CASE u = t BY <1>9, <1>11, <3>1
    <3>2. CASE u # t BY <1>11, <3>2
    <3> QED BY <3>1, <3>2
  <2> QED BY <2>1
<1>26. \A u \in TypeInfos : /\ Due("emit", u)' => ~Emitted("struct", u)'
                            /\ Due("emit", u)' \/ Due("defined", u)'
                               => infos'[u].defined = "DEFINING"
  <2>1. ASSUME NEW u \in TypeInfos
        PROVE  /\ Due("emit", u)' => ~Emitted("struct", u)'
               /\ Due("emit", u)' \/ Due("defined", u)' => infos'[u].defined = "DEFINING"
    <3>1. /\ Due("emit", u) => ~Emitted("struct", u)
          /\ Due("emit", u) \/ Due("defined", u) => infos[u].defined = "DEFINING"
      BY <1>7 DEF Once
    <3>2. Emitted("struct", u)' <=> Emitted("struct", u) BY <1>22
    <3> QED BY <1>24, <1>25, <3>1, <3>2
  <2> QED BY <2>1
<1>27. macros \subseteq macros'
  <2>1. CASE ds = <<>> BY <1>17, <2>1
  <2>2. CASE ds # <<>> BY <1>17, <2>2
  <2> QED BY <2>1, <2>2
<1>28. infos[t].defined = "DEFINED" => infos[t].base_name \in macros'
  <2>1. CASE ds = <<>> BY <1>17, <2>1
  <2>2. CASE ds # <<>> BY <1>17, <2>2
  <2> QED BY <2>1, <2>2
<1>29. ASSUME t # variant_type, ~NamesClash, ~infos[t].named PROVE ds # <<>>
  <2>1. ASSUME infos[t].base_name \in macros PROVE FALSE
    <3>1. \A u, v \in TypeInfos : infos[u].base_name = infos[v].base_name => u = v
      BY <1>29 DEF NamesClash
    <3>2. CASE infos[t].base_name = <<"eu_variant">>
      <4>1. 2 \in TypeInfos /\ infos[2].base_name = <<"eu_variant">>
        BY <1>7 DEF Typed, TypesWhole, TypeInfos
      <4> QED BY <1>6, <1>29, <3>1, <3>2, <4>1 DEF variant_type
    <3>3. CASE \E u \in TypeInfos : infos[t].base_name = infos[u].base_name /\ Emitted("member", u)
      <4>1. Emitted("member", t) BY <1>6, <3>1, <3>3
      <4> QED BY <1>19, <1>29, <4>1 DEF StateWhole
    <3> QED BY <1>7, <2>1, <3>2, <3>3 DEF HeaderTyped
  <2> QED BY <1>17, <2>1
<1>30. ASSUME NEW u \in TypeInfos PROVE StateWhole(u)'
  <2>1. StateWhole(u) BY <1>7
  <2>2. Due("defined", u) => Due("defined", u)'
    <3>1. ASSUME Due("defined", u) PROVE Due("defined", u)'
      BY <1>1, <1>4, <1>6, <3>1, NoTask, DueStays
    <3> QED BY <3>1
  <2>3. ~First([op |-> "emit", arg |-> u]) BY <1>1, <1>6 DEF First
  <2>4. /\ (IsStruct(u))' = IsStruct(u) /\ (IsArray(u))' = IsArray(u)
        /\ (IsGenerated(u))' = IsGenerated(u) /\ (Extras(u))' = Extras(u)
        /\ (NamesClash)' = NamesClash
    BY <1>11, SameTypesKept
  <2>5. /\ Emitted("struct", u)' <=> Emitted("struct", u)
        /\ Emitted("members", u)' <=> Emitted("members", u) \/ (ds # <<>> /\ u = t)
        /\ Emitted("member", u)' <=>
              Emitted("member", u) \/ (ds # <<>> /\ u = t /\ infos[t].defined = "DEFINED")
    BY <1>22
  <2>6. IsStruct(u) => (infos[Extras(u)].named => infos'[Extras(u)].named)
    BY <1>6, <1>25, StructLinks
  <2>7. CASE u = t
    <3>1. infos'[t].defined = infos[t].defined /\ infos'[t].named
          /\ infos'[t].base_name = infos[t].base_name
      BY <1>9, <1>11
    <3>2. Emitted("struct", t) /\ IsStruct(t) => infos'[Extras(t)].named
      BY <2>1, <2>6, <2>7 DEF StateWhole
    <3>3. Emitted("member", t)' => infos[t].base_name \in macros'
      BY <1>27, <1>28, <2>1, <2>5, <2>7 DEF StateWhole
    <3>4. t # variant_type /\ ~NamesClash => Emitted("members", t)'
      BY <1>29, <2>1, <2>5, <2>7 DEF StateWhole
    <3> QED BY <1>18, <1>28, <2>1, <2>2, <2>3, <2>4, <2>5, <2>7, <3>1, <3>2, <3>3, <3>4
            DEF StateWhole
  <2>8. CASE u # t
    <3>1. infos'[u] = infos[u] BY <1>11, <2>8
    <3> QED BY <1>27, <2>1, <2>2, <2>3, <2>4, <2>5, <2>6, <2>8, <3>1 DEF StateWhole
  <2> QED BY <2>7, <2>8
<1>31. \A name \in macros' : \E u \in TypeInfos : name = infos[u].base_name
  <2>1. \A name \in macros : \E u \in TypeInfos : name = infos[u].base_name
    BY <1>7 DEF TypesWhole
  <2>2. \A name \in macros' : name \in macros \/ name = infos[t].base_name
    <3>1. CASE ds = <<>> \/ infos[t].defined # "DEFINED" BY <1>17, <3>1
    <3>2. CASE ds # <<>> /\ infos[t].defined = "DEFINED" BY <1>17, <3>2
    <3> QED BY <3>1, <3>2
  <2> QED BY <1>6, <2>1, <2>2
<1> QED BY <1>1, <1>3, <1>4, <1>11, <1>17, <1>21, <1>22, <1>23, <1>25, <1>26, <1>30, <1>31,
           LateDeclared

\* What it takes to define a type: its members first, if it is a struct.
Starts(w, t) ==
    \E m \in Nat :
       /\ w \in Seq(Tasks) /\ DOMAIN w = 1 .. m + 2 /\ Len(w) = m + 2
       /\ w[m + 1] = [op |-> "emit", arg |-> t] /\ w[m + 2] = [op |-> "defined", arg |-> t]
       /\ \A k \in 1 .. m :
             \/ w[k].op = "define" /\ w[k].arg \in ToSet(MemberTypes(t))
             \/ w[k].op = "members" /\ w[k].arg = Extras(t)
       /\ m # 0 <=> IsStruct(t)
       /\ IsStruct(t) =>
             /\ w[m].op = "members" /\ w[m].arg = Extras(t)
             /\ \A u \in ToSet(MemberTypes(t)) :
                   \E k \in 1 .. m : w[k].op = "define" /\ w[k].arg = u

LEMMA StructStarts ==
    ASSUME NEW t \in Nat, IsStruct(t), NEW ms \in Seq(Nat), ms = MemberTypes(t),
           NEW e \in Nat, e = Extras(t), NEW x \in Tasks, NEW y \in Tasks,
           x = [op |-> "emit", arg |-> t], y = [op |-> "defined", arg |-> t], NEW w,
           w = TaskFor("define", ms) \o Task("members", e) \o <<x>> \o <<y>>
    PROVE  Starts(w, t)
<1>1. PICK n : n = Len(ms) OBVIOUS
<1>2. n \in Nat /\ DOMAIN ms = 1 .. n BY <1>1
<1>3. PICK a, z : a = TaskFor("define", ms) /\ z = [op |-> "members", arg |-> e] OBVIOUS
<1>4. z \in Tasks /\ z.op = "members" /\ z.arg = e /\ Task("members", e) = <<z>>
  BY <1>3 DEF Tasks, Ops, Defining, Task
<1>5. /\ a \in Seq(Tasks) /\ Len(a) = n /\ DOMAIN a = 1 .. n
      /\ \A k \in 1 .. n : a[k].op = "define" /\ a[k].arg = ms[k]
  <2>1. a = [k \in 1 .. n |-> [op |-> "define", arg |-> ms[k]]] BY <1>2, <1>3 DEF TaskFor
  <2>2. \A k \in 1 .. n : ms[k] \in Nat BY <1>2
  <2>3. \A k \in 1 .. n : [op |-> "define", arg |-> ms[k]] \in Tasks
    BY <2>2 DEF Tasks, Ops, Defining
  <2>4. [k \in 1 .. n |-> [op |-> "define", arg |-> ms[k]]] \in Seq(Tasks) BY <1>2, <2>3
  <2> QED BY <1>2, <2>1, <2>4
<1>6. PICK b : b = a \o <<z>> OBVIOUS
<1>7. Ends(b, a, z) BY <1>4, <1>5, <1>6, JoinedOne, Zenon
<1>8. PICK m : m = n + 1 OBVIOUS
<1>9. /\ m \in Nat /\ m # 0 /\ n + 1 = m /\ m \in 1 .. m
      /\ \A k \in 1 .. m : k = m \/ k \in 1 .. n
      /\ \A k \in 1 .. n : k \in 1 .. m
      /\ \A k \in 1 .. m + 1 : k \in 1 .. m + 1 + 1
      /\ \A k \in 1 .. m : k \in 1 .. m + 1 /\ k \in 1 .. m + 1 + 1
      /\ m + 1 + 1 = m + 2 /\ m + 1 \in 1 .. m + 1
  BY <1>2, <1>8
<1>10. b \in Seq(Tasks) /\ Len(b) = m /\ DOMAIN b = 1 .. m /\ b[m] = z
       /\ \A k \in 1 .. n : b[k] = a[k]
  BY <1>5, <1>7, <1>9, Zenon DEF Ends
<1>11. PICK c : c = b \o <<x>> OBVIOUS
<1>12. Ends(c, b, x) BY <1>10, <1>11, JoinedOne, Zenon
<1>13. c \in Seq(Tasks) /\ Len(c) = m + 1 /\ DOMAIN c = 1 .. m + 1 /\ c[m + 1] = x
       /\ \A k \in 1 .. m : c[k] = b[k]
  BY <1>10, <1>12, Zenon DEF Ends
<1>14. w = c \o <<y>> BY <1>3, <1>4, <1>6, <1>11, Zenon
<1>15. Ends(w, c, y) BY <1>13, <1>14, JoinedOne, Zenon
<1>16. w \in Seq(Tasks) /\ Len(w) = m + 2 /\ DOMAIN w = 1 .. m + 2 /\ w[m + 2] = y
       /\ \A k \in 1 .. m + 1 : w[k] = c[k]
  BY <1>9, <1>13, <1>15, Zenon DEF Ends
<1>17. w[m + 1] = x /\ \A k \in 1 .. m : w[k] = b[k] BY <1>9, <1>13, <1>16, Zenon
<1>18. w[m].op = "members" /\ w[m].arg = e BY <1>4, <1>9, <1>10, <1>17, Zenon
<1>19. \A k \in 1 .. n : k \in 1 .. m /\ w[k].op = "define" /\ w[k].arg = ms[k]
  <2>1. ASSUME NEW k \in 1 .. n
        PROVE  k \in 1 .. m /\ w[k].op = "define" /\ w[k].arg = ms[k]
    <3>1. k \in 1 .. m BY <1>9
    <3>2. w[k] = b[k] BY <1>17, <3>1
    <3>3. b[k] = a[k] BY <1>10
    <3>4. a[k].op = "define" /\ a[k].arg = ms[k] BY <1>5
    <3>5. w[k] = a[k] BY <3>2, <3>3, Zenon
    <3> QED BY <3>1, <3>4, <3>5, Zenon
  <2> QED BY <2>1
<1>20. \A k \in 1 .. n : ms[k] \in ToSet(ms) BY <1>2 DEF ToSet
<1>21. \A u \in ToSet(ms) : \E k \in 1 .. m : w[k].op = "define" /\ w[k].arg = u
  <2>1. ASSUME NEW u \in ToSet(ms) PROVE \E k \in 1 .. m : w[k].op = "define" /\ w[k].arg = u
    <3>1. PICK k \in 1 .. n : u = ms[k] BY <1>2 DEF ToSet
    <3> QED BY <1>19, <3>1
  <2> QED BY <2>1
<1>22. \A k \in 1 .. m : \/ w[k].op = "define" /\ w[k].arg \in ToSet(ms)
                         \/ w[k].op = "members" /\ w[k].arg = e
  BY <1>9, <1>18, <1>19, <1>20, ZenonT(60)
<1>23. /\ w[m].op = "members" /\ w[m].arg = Extras(t)
       /\ \A u \in ToSet(MemberTypes(t)) : \E k \in 1 .. m : w[k].op = "define" /\ w[k].arg = u
  BY <1>18, <1>21
<1>24. \A k \in 1 .. m : \/ w[k].op = "define" /\ w[k].arg \in ToSet(MemberTypes(t))
                         \/ w[k].op = "members" /\ w[k].arg = Extras(t)
  BY <1>22
<1>25. w[m + 1] = [op |-> "emit", arg |-> t] /\ w[m + 2] = [op |-> "defined", arg |-> t]
  BY <1>16, <1>17
<1>26. m # 0 <=> IsStruct(t) BY <1>9
<1>27. m \in Nat /\ w \in Seq(Tasks) /\ DOMAIN w = 1 .. m + 2 /\ Len(w) = m + 2
  BY <1>9, <1>16
<1> QED BY <1>23, <1>24, <1>25, <1>26, <1>27, Zenon DEF Starts

LEMMA ArrayStarts ==
    ASSUME NEW t \in Nat, ~IsStruct(t), NEW x \in Tasks, NEW y \in Tasks,
           x = [op |-> "emit", arg |-> t], y = [op |-> "defined", arg |-> t]
    PROVE  Starts(Both(x, y), t)
<1>1. PICK w : w = Both(x, y) OBVIOUS
<1>2. w \in Seq(Tasks) /\ Len(w) = 2 /\ DOMAIN w = {1, 2} /\ w[1] = x /\ w[2] = y
  <2>1. \A p, q \in Tasks :
           /\ Both(p, q) \in Seq(Tasks) /\ Len(Both(p, q)) = 2 /\ DOMAIN Both(p, q) = {1, 2}
           /\ Both(p, q)[1] = p /\ Both(p, q)[2] = q
    BY TwoTasks, ZenonT(60)
  <2> QED BY <1>1, <2>1, ZenonT(60)
<1>3. 0 \in Nat /\ 0 + 1 = 1 /\ 0 + 2 = 2 /\ 1 .. 0 + 2 = {1, 2} /\ 1 .. 0 = {} OBVIOUS
<1>4. /\ w \in Seq(Tasks) /\ DOMAIN w = 1 .. 0 + 2 /\ Len(w) = 0 + 2
      /\ w[0 + 1] = x /\ w[0 + 2] = y
  BY <1>2, <1>3, Zenon
<1> QED BY <1>1, <1>3, <1>4, Zenon DEF Starts

\* The definition of a type begins.
LEMMA DefineStep ==
    ASSUME CompilerInv, NEW h, First(h), h.op = "define", NEW t, t = h.arg,
           infos[t].defined = "NOT_DEFINED", NEW ts, Starts(ts, t),
           work' = ts \o Tail(work),
           infos' = [infos EXCEPT ![t].defined = "DEFINING"],
           UNCHANGED <<doc, defs, exit, ret, errors, files, header, macros>>
    PROVE  CompilerInv'
<1>1. h.op \in Defining BY DEF Defining
<1>2. /\ Late /\ LateWhole /\ ~errors /\ exit = "running" /\ work \in Seq(Tasks)
      /\ work # <<>> /\ work[1] = h /\ 1 \in DOMAIN work /\ t \in TypeInfos
      /\ \A x \in ToSet(work) : x.op \in Defining \cup {"exit"}
  BY <1>1, LateNow DEF TaskWhole
<1>3. /\ Typed /\ TypesWhole /\ Lately /\ Once /\ HeaderTyped /\ AllWanted /\ MembersFirst
      /\ \A u \in TypeInfos : StateWhole(u)
      /\ header \in Seq(Declarations)
  BY <1>2 DEF CompilerInv, LateWhole, Typed
<1>4. PICK m \in Nat :
       /\ ts \in Seq(Tasks) /\ DOMAIN ts = 1 .. m + 2 /\ Len(ts) = m + 2
       /\ ts[m + 1] = [op |-> "emit", arg |-> t] /\ ts[m + 2] = [op |-> "defined", arg |-> t]
       /\ \A k \in 1 .. m :
             \/ ts[k].op = "define" /\ ts[k].arg \in ToSet(MemberTypes(t))
             \/ ts[k].op = "members" /\ ts[k].arg = Extras(t)
       /\ m # 0 <=> IsStruct(t)
       /\ IsStruct(t) =>
             /\ ts[m].op = "members" /\ ts[m].arg = Extras(t)
             /\ \A u \in ToSet(MemberTypes(t)) :
                   \E k \in 1 .. m : ts[k].op = "define" /\ ts[k].arg = u
  BY DEF Starts
<1>5. StateWhole(t) /\ IsGenerated(t) /\ ~Emitted("struct", t) /\ ~infos[t].named
  BY <1>2, <1>3 DEF StateWhole
<1>6. PICK r : r = [infos[t] EXCEPT !.defined = "DEFINING"] OBVIOUS
<1>7. /\ r \in TypeRecords /\ r.schema = infos[t].schema /\ r.base_name = infos[t].base_name
      /\ r.links = infos[t].links /\ r.named = infos[t].named /\ r.defined = "DEFINING"
  <2>1. infos[t] \in TypeRecords BY <1>2, <1>3, InfoTyped
  <2> QED BY <1>6, <2>1 DEF TypeRecords
<1>8. infos' = [infos EXCEPT ![t] = r] BY <1>6
<1>9. /\ infos' \in Seq(TypeRecords) /\ Len(infos') = Len(infos) /\ SameTypes
      /\ infos'[t] = r /\ \A u \in TypeInfos : u # t => infos'[u] = infos[u]
  BY <1>2, <1>3, <1>7, <1>8, Marked, ZenonT(60)
<1>10. /\ \A u \in TypeInfos :
             /\ (IsStruct(u))' = IsStruct(u) /\ (IsArray(u))' = IsArray(u)
             /\ (IsGenerated(u))' = IsGenerated(u) /\ (Extras(u))' = Extras(u)
             /\ (MemberTypes(u))' = MemberTypes(u) /\ (IsRoot(u))' = IsRoot(u)
             /\ infos'[u].links = infos[u].links
       /\ (NamesClash)' = NamesClash /\ TypeInfos' = TypeInfos
  BY <1>9, SameTypesKept DEF SameTypes
<1>11. IsStruct(t) =>
          /\ Extras(t) \in TypeInfos /\ \A u \in ToSet(MemberTypes(t)) : u \in TypeInfos
          /\ ToSet(MemberTypes(t)) \subseteq ToSet(infos[t].links)
          /\ \A u \in ToSet(infos[t].links) :
                 u = NULL \/ u = Extras(t) \/ u \in ToSet(MemberTypes(t))
          /\ Extras(t) = variant_type \/ Extras(t) \in ToSet(infos[t].links)
  <2>1. ASSUME IsStruct(t)
        PROVE  /\ Extras(t) \in TypeInfos /\ MemberTypes(t) \in Seq(TypeInfos)
               /\ ToSet(MemberTypes(t)) \subseteq ToSet(infos[t].links)
               /\ \A u \in ToSet(infos[t].links) :
                      u = NULL \/ u = Extras(t) \/ u \in ToSet(MemberTypes(t))
               /\ Extras(t) = variant_type \/ Extras(t) \in ToSet(infos[t].links)
    BY <1>2, <2>1, StructLinks
  <2>2. ASSUME NEW ms \in Seq(TypeInfos) PROVE \A u \in ToSet(ms) : u \in TypeInfos
    BY DEF ToSet
  <2>3. IsStruct(t) => \A u \in ToSet(MemberTypes(t)) : u \in TypeInfos BY <2>1, <2>2
  <2> QED BY <2>1, <2>3
<1>12. /\ \A k \in DOMAIN ts : k \in Nat /\ (k \in 1 .. m \/ k = m + 1 \/ k = m + 2)
       /\ m + 1 \in DOMAIN ts /\ m + 2 \in DOMAIN ts /\ m + 1 # m + 2
       /\ \A k \in 1 .. m : k \in DOMAIN ts /\ k # m + 1 /\ k # m + 2 /\ k < m + 1
       /\ m # 0 => m \in 1 .. m
       /\ ts # <<>> /\ 1 \in DOMAIN ts
  BY <1>4
<1>13. PICK x, y : x = [op |-> "emit", arg |-> t] /\ y = [op |-> "defined", arg |-> t] OBVIOUS
<1>14. x.op = "emit" /\ x.arg = t /\ y.op = "defined" /\ y.arg = t BY <1>13
<1>15. \A k \in DOMAIN ts :
          \/ k \in 1 .. m /\ ts[k].op = "define" /\ ts[k].arg \in ToSet(MemberTypes(t))
          \/ k \in 1 .. m /\ ts[k].op = "members" /\ ts[k].arg = Extras(t)
          \/ k = m + 1 /\ ts[k] = x
          \/ k = m + 2 /\ ts[k] = y
  BY <1>4, <1>12, <1>13, Zenon
<1>16. \A z \in ToSet(ts) :
          \/ IsStruct(t) /\ z.op = "define" /\ z.arg \in ToSet(MemberTypes(t))
          \/ IsStruct(t) /\ z.op = "members" /\ z.arg = Extras(t)
          \/ z = x
          \/ z = y
  <2>1. \A k \in 1 .. m : m # 0 OBVIOUS
  <2> QED BY <1>4, <1>15, <2>1 DEF ToSet
<1>17. \A z \in ToSet(ts) : z.op \in Defining /\ TaskWhole(z)'
  <2>1. ASSUME NEW z \in ToSet(ts) PROVE z.op \in Defining /\ TaskWhole(z)'
    <3>1. z.op \in {"define", "members", "emit", "defined"} BY <1>14, <1>16
    <3>2. z.arg \in TypeInfos' BY <1>2, <1>10, <1>11, <1>14, <1>16
    <3>3. z.op \in {"emit", "defined"} => z.arg = t BY <1>14, <1>16
    <3>4. IsGenerated(t)' BY <1>2, <1>5, <1>10
    <3>5. z.op \in {"emit", "defined"} => (IsGenerated(z.arg))' BY <3>3, <3>4
    <3> QED BY <3>1, <3>2, <3>5 DEF TaskWhole, Defining, Allocating
  <2> QED BY <2>1
<1>18. \A op, arg : Due(op, arg)' =>
              Due(op, arg) \/ \E z \in ToSet(ts) : z.op = op /\ z.arg = arg
  BY <1>2, <1>4, LateDues
<1>19. ASSUME NEW op, NEW arg, Due(op, arg), op # "define" \/ arg # t PROVE Due(op, arg)'
  BY <1>2, <1>4, <1>19, DueStays
<1>20. \A k \in DOMAIN ts : Due(ts[k].op, ts[k].arg)' BY <1>2, <1>4, DueNew
<1>21. /\ Due("emit", t)' /\ Due("defined", t)'
       /\ IsStruct(t) => /\ Due("members", Extras(t))'
                         /\ \A u \in ToSet(MemberTypes(t)) : Due("define", u)'
  <2>1. Due("emit", t)' /\ Due("defined", t)' BY <1>4, <1>12, <1>13, <1>14, <1>20
  <2>2. ASSUME IsStruct(t) PROVE Due("members", Extras(t))'
    <3>1. m \in DOMAIN ts BY <1>4, <1>12, <2>2
    <3>2. ts[m].op = "members" /\ ts[m].arg = Extras(t) BY <1>4, <2>2
    <3>3. (Extras(t))' = Extras(t) BY <1>2, <1>10
    <3>4. Due(ts[m].op, ts[m].arg)' BY <1>20, <3>1
    <3>5. Due("members", ts[m].arg)' BY <3>2, <3>4
    <3> QED BY <3>2, <3>3, <3>5
  <2>3. ASSUME IsStruct(t), NEW u \in ToSet(MemberTypes(t)) PROVE Due("define", u)'
    <3>1. PICK k \in 1 .. m : ts[k].op = "define" /\ ts[k].arg = u BY <1>4, <2>3
    <3> QED BY <1>12, <1>20, <3>1
  <2> QED BY <2>1, <2>2, <2>3
<1>22. Chained'
  <2>1. Readied(ts[1])'
    <3>1. CASE m = 0
      <4>1. ts[1] = x /\ ~IsStruct(t)' BY <1>2, <1>4, <1>10, <1>13, <3>1
      <4> QED BY <1>14, <4>1 DEF Readied
    <3>2. CASE m # 0
      <4>1. 1 \in 1 .. m BY <3>2
      <4>2. ts[1].op \in {"define", "members"} BY <1>4, <4>1
      <4> QED BY <4>2 DEF Readied
    <3> QED BY <3>1, <3>2
  <2>2. ASSUME NEW k \in DOMAIN ts, k > 1
        PROVE  Following(ts[k - 1], ts[k])' /\ ts[k].op # "emit_members"
    <3>1. CASE k \in 1 .. m
      <4>1. ts[k].op \in {"define", "members"} BY <1>4, <3>1
      <4> QED BY <4>1 DEF Following
    <3>2. CASE k = m + 1
      <4>1. k - 1 = m /\ m # 0 BY <2>2, <3>2
      <4>2. IsStruct(t) /\ ts[k - 1].op = "members" /\ ts[k - 1].arg = Extras(t) BY <1>4, <4>1
      <4>3. (IsStruct(t))' /\ ts[k - 1].arg = (Extras(t))' BY <1>2, <1>10, <4>2
      <4>4. ts[k] = x BY <1>4, <1>13, <3>2
      <4> QED BY <1>14, <4>2, <4>3, <4>4 DEF Following
    <3>3. CASE k = m + 2
      <4>1. k - 1 = m + 1 BY <3>3
      <4>2. ts[k - 1] = x /\ ts[k] = y BY <1>4, <1>13, <3>3, <4>1
      <4> QED BY <1>14, <4>2 DEF Following
    <3> QED BY <1>12, <3>1, <3>2, <3>3
  <2>3. ts[Len(ts)] = y BY <1>4, <1>13
  <2>4. ASSUME NEW z \in Tasks, Following(h, z)
        PROVE  Following(ts[Len(ts)], z)' /\ ts[Len(ts)].op # "define"
    <3>1. z.op \notin {"emit", "defined"} /\ (z.op = "emit_members" => z.arg = t)
      BY <2>4 DEF Following
    <3> QED BY <1>14, <2>3, <3>1 DEF Following
  <2> QED BY <1>1, <1>4, <1>9, <1>12, <2>1, <2>2, <2>4, ChainedPushed, ZenonT(60)
<1>23. Lately'
  <2>1. ToSet(work') \subseteq ToSet(work) \cup ToSet(ts) BY <1>2, <1>4, Neighbours
  <2>2. \A k \in DOMAIN work' : work'[k] \in ToSet(work') BY DEF ToSet
  <2> QED BY <1>2, <1>17, <2>1, <2>2 DEF Lately
<1>24. Once'
  <2>1. ~Due("emit", t) /\ ~Due("defined", t) BY <1>2, <1>3 DEF Once
  <2>2. Unique(ts)
    <3>1. ASSUME NEW j \in DOMAIN ts, NEW k \in DOMAIN ts,
                 ts[j].op \in {"emit", "defined"}, ts[j].op = ts[k].op
          PROVE  j = k
      <4>1. \/ j = m + 1 /\ ts[j].op = "emit"
            \/ j = m + 2 /\ ts[j].op = "defined"
        BY <1>14, <1>15, <3>1
      <4>2. \/ k = m + 1 /\ ts[k].op = "emit"
            \/ k = m + 2 /\ ts[k].op = "defined"
        BY <1>14, <1>15, <3>1
      <4> QED BY <3>1, <4>1, <4>2
    <3> QED BY <3>1 DEF Unique
  <2>3. \A z \in ToSet(ts) : z.op \in {"emit", "defined"} => ~Due(z.op, z.arg)
    BY <1>14, <1>16, <2>1
  <2>4. Unique(work') BY <1>2, <1>3, <1>4, <2>2, <2>3, UniqueLeft DEF Once
  <2>5. ASSUME NEW u \in TypeInfos
        PROVE  /\ Due("emit", u)' => ~Emitted("struct", u)'
               /\ Due("emit", u)' \/ Due("defined", u)' => infos'[u].defined = "DEFINING"
    <3>1. Emitted("struct", u)' <=> Emitted("struct", u) BY DEF Emitted, Declares
    <3>2. CASE u = t BY <1>5, <1>7, <1>9, <3>1, <3>2
    <3>3. CASE u # t
      <4>1. (Due("emit", u)' => Due("emit", u)) /\ (Due("defined", u)' => Due("defined", u))
        <5>1. \A z \in ToSet(ts) : z.op \in {"emit", "defined"} => z.arg # u
          BY <1>14, <1>16, <3>3
        <5> QED BY <1>18, <5>1
      <4>2. /\ Due("emit", u) => ~Emitted("struct", u)
            /\ Due("emit", u) \/ Due("defined", u) => infos[u].defined = "DEFINING"
        BY <1>3 DEF Once
      <4> QED BY <1>9, <3>1, <3>3, <4>1, <4>2
    <3> QED BY <3>2, <3>3
  <2> QED BY <1>10, <2>4, <2>5 DEF Once
<1>25. HeaderTyped' /\ HeaderComplete'
  <2>1. header' = header \o <<>> BY <1>3
  <2>2. <<>> \in Seq(Declarations) /\ DOMAIN <<>> = {} OBVIOUS
  <2>3. /\ \A i \in DOMAIN <<>> : CanDeclare(<<>>[i])
        /\ \A i, j \in DOMAIN <<>> : i = j
    BY <2>2
  <2>4. \A name \in macros' : name \in macros OBVIOUS
  <2> QED BY <1>2, <1>9, <2>1, <2>2, <2>3, <2>4, HeaderStep
<1>26. /\ \A u : Wanted(u) /\ u \in TypeInfos => Wanted(u)'
       /\ IsStruct(t) => \A u \in ToSet(infos[t].links) : Wanted(u)'
       /\ \A u \in TypeInfos : Wanted(u)' =>
             Wanted(u) \/ (IsStruct(t) /\ u \in ToSet(infos[t].links))
  <2>1. infos'[t].defined # "NOT_DEFINED" BY <1>7, <1>9
  <2>2. ASSUME NEW u \in TypeInfos, Wanted(u) PROVE Wanted(u)'
    <3>1. CASE IsRoot(u) BY <1>10, <2>2, <3>1 DEF Wanted
    <3>2. CASE \E s \in TypeInfos : /\ IsStruct(s) /\ infos[s].defined # "NOT_DEFINED"
                                    /\ u \in ToSet(infos[s].links)
      <4>1. PICK s \in TypeInfos : /\ IsStruct(s) /\ infos[s].defined # "NOT_DEFINED"
                                   /\ u \in ToSet(infos[s].links)
        BY <3>2
      <4>2. infos'[s].defined # "NOT_DEFINED" BY <1>9, <2>1, <4>1
      <4> QED BY <1>10, <4>1, <4>2 DEF Wanted
    <3> QED BY <2>2, <3>1, <3>2 DEF Wanted
  <2>3. ASSUME IsStruct(t), NEW u \in ToSet(infos[t].links) PROVE Wanted(u)'
    BY <1>2, <1>10, <2>1, <2>3 DEF Wanted
  <2>4. ASSUME NEW u \in TypeInfos, Wanted(u)'
        PROVE  Wanted(u) \/ (IsStruct(t) /\ u \in ToSet(infos[t].links))
    <3>1. CASE IsRoot(u)' BY <1>10, <3>1 DEF Wanted
    <3>2. CASE \E s \in TypeInfos : /\ IsStruct(s)' /\ infos'[s].defined # "NOT_DEFINED"
                                    /\ u \in ToSet(infos'[s].links)
      <4>1. PICK s \in TypeInfos : /\ IsStruct(s)' /\ infos'[s].defined # "NOT_DEFINED"
                                   /\ u \in ToSet(infos'[s].links)
        BY <3>2
      <4>2. IsStruct(s) /\ u \in ToSet(infos[s].links) BY <1>10, <4>1
      <4>3. CASE s = t BY <4>2, <4>3
      <4>4. CASE s # t
        <5>1. infos[s].defined # "NOT_DEFINED" BY <1>9, <4>1, <4>4
        <5> QED BY <4>2, <5>1 DEF Wanted
      <4> QED BY <4>3, <4>4
    <3> QED BY <1>10, <2>4, <3>1, <3>2 DEF Wanted
  <2> QED BY <2>2, <2>3, <2>4
<1>27. AllWanted'
  <2>1. Wanted(t)
    <3>1. Due("define", t) BY <1>2 DEF Due
    <3> QED BY <1>2, <1>3, <1>5, <3>1 DEF AllWanted
  <2>2. \A u \in TypeInfos : IsGenerated(u) /\ infos'[u].defined # "NOT_DEFINED" => Wanted(u)'
    <3>1. \A u \in TypeInfos : IsGenerated(u) /\ infos[u].defined # "NOT_DEFINED" => Wanted(u)
      BY <1>3 DEF AllWanted
    <3> QED BY <1>2, <1>9, <1>26, <2>1, <3>1
  <2>3. ASSUME NEW u \in TypeInfos, IsGenerated(u), (Due("define", u) \/ Due("members", u))'
        PROVE  Wanted(u)'
    <3>1. CASE Due("define", u) \/ Due("members", u)
      <4>1. Wanted(u) BY <1>3, <2>3, <3>1 DEF AllWanted
      <4> QED BY <1>26, <4>1
    <3>2. CASE \E z \in ToSet(ts) : z.op \in {"define", "members"} /\ z.arg = u
      <4>1. PICK z \in ToSet(ts) : z.op \in {"define", "members"} /\ z.arg = u BY <3>2
      <4>2. IsStruct(t) /\ (u \in ToSet(MemberTypes(t)) \/ u = Extras(t))
        BY <1>14, <1>16, <4>1
      <4>3. u # variant_type
        <5>1. infos[2].schema = AnyValue BY <1>3 DEF TypesWhole
        <5>2. ~IsGenerated(2) BY <5>1 DEF IsGenerated, IsStruct, IsArray, AnyValue
        <5> QED BY <2>3, <5>2 DEF variant_type
      <4>4. u \in ToSet(infos[t].links) BY <1>11, <4>2, <4>3
      <4> QED BY <1>26, <4>2, <4>4
    <3> QED BY <1>18, <2>3, <3>1, <3>2
  <2>4. ASSUME ~NamesClash, NEW u \in TypeInfos, IsGenerated(u), Wanted(u)',
               infos'[u].defined = "NOT_DEFINED"
        PROVE  WillDefine(u)'
    <3>1. u # t BY <1>7, <1>9, <2>4
    <3>2. CASE Wanted(u)
      <4>1. WillDefine(u) BY <1>3, <1>9, <2>4, <3>1, <3>2 DEF AllWanted
      <4>2. Due("define", u) => Due("define", u)' BY <1>19, <3>1
      <4>3. Due("members", u) => Due("members", u)' BY <1>19
      <4>4. \A d : Due("define_definition", d) => Due("define_definition", d)' BY <1>19
      <4> QED BY <4>1, <4>2, <4>3, <4>4 DEF WillDefine
    <3>3. CASE IsStruct(t) /\ u \in ToSet(infos[t].links)
      <4>1. u # NULL BY DEF TypeInfos, NULL
      <4>2. u = Extras(t) \/ u \in ToSet(MemberTypes(t)) BY <1>11, <3>3, <4>1
      <4>3. Due("members", u)' \/ Due("define", u)'
        <5>1. PICK v : v = Extras(t) OBVIOUS
        <5>2. Due("members", v)'
          <6>1. (Extras(t))' = Extras(t) BY <1>2, <1>10
          <6> QED BY <1>21, <3>3, <5>1, <6>1
        <5>3. u \in ToSet(MemberTypes(t)) => Due("define", u)'
          <6>1. (MemberTypes(t))' = MemberTypes(t) BY <1>2, <1>10
          <6> QED BY <1>21, <3>3, <6>1
        <5>4. u = v => Due("members", u)' BY <5>2
        <5> QED BY <4>2, <5>1, <5>3, <5>4
      <4> QED BY <4>3 DEF WillDefine
    <3> QED BY <1>26, <2>4, <3>2, <3>3
  <2> QED BY <1>10, <2>2, <2>3, <2>4 DEF AllWanted
<1>28. MembersFirst'
  <2>1. infos'[t].defined # "NOT_DEFINED" BY <1>7, <1>9
  <2>2. ASSUME NEW s \in TypeInfos, IsStruct(s), Due("emit", s)',
               NEW u \in ToSet(MemberTypes(s)), infos'[u].defined = "NOT_DEFINED"
        PROVE  Precedes(u, s)'
    <3>1. u \in TypeInfos BY <1>2, <2>2, StructLinks DEF ToSet
    <3>2. CASE s = t
      <4>1. PICK k \in 1 .. m : ts[k].op = "define" /\ ts[k].arg = u BY <1>4, <2>2, <3>2
      <4>2. \A j \in DOMAIN ts : j \in DOMAIN work' /\ work'[j] = ts[j]
        <5>1. work \in Seq(Tasks) /\ work # <<>> /\ ts \in Seq(Tasks)
              /\ work' = ts \o Tail(work)
          BY <1>2, <1>4
        <5> QED BY <5>1, Pushed
      <4>3. PICK q : q = m + 1 OBVIOUS
      <4>4. k \in DOMAIN ts /\ q \in DOMAIN ts /\ k < q /\ ts[q].op = "emit" /\ ts[q].arg = t
        BY <1>4, <1>12, <1>13, <1>14, <4>3
      <4> QED BY <3>2, <4>1, <4>2, <4>4 DEF Precedes
    <3>3. CASE s # t
      <4>1. Due("emit", s) BY <1>14, <1>16, <1>18, <2>2, <3>3
      <4>2. u # t BY <2>1, <2>2
      <4>3. Precedes(u, s) BY <1>3, <1>9, <2>2, <3>1, <4>1, <4>2 DEF MembersFirst
      <4>4. ~(h.op = "define" /\ h.arg = u) BY <4>2
      <4>5. /\ work \in Seq(Tasks) /\ First(h) /\ ts \in Seq(Tasks)
            /\ work' = ts \o Tail(work)
        BY <1>2, <1>4
      <4> QED BY <4>3, <4>4, <4>5, PrecedesStays, Zenon
    <3> QED BY <3>2, <3>3
  <2> QED BY <1>10, <2>2 DEF MembersFirst
<1>29. ASSUME NEW u \in TypeInfos PROVE StateWhole(u)'
  <2>1. StateWhole(u) BY <1>3
  <2>2. \A what, v : (Emitted(what, v))' = Emitted(what, v) BY DEF Emitted, Declares
  <2>3. \A v \in TypeInfos : infos'[v].named = infos[v].named BY <1>7, <1>9
  <2>4. IsStruct(u) => infos'[Extras(u)].named = infos[Extras(u)].named
    BY <1>2, <2>3, StructLinks
  <2>5. infos'[u].base_name = infos[u].base_name BY <1>9 DEF SameTypes
  <2>6. CASE u = t
    <3>1. IsArray(t) => First([op |-> "emit", arg |-> t])'
      <4>1. ASSUME IsArray(t) PROVE First([op |-> "emit", arg |-> t])'
        <5>1. m = 0 BY <1>4, <4>1 DEF IsArray, IsStruct
        <5>2. ts[1] = [op |-> "emit", arg |-> t] BY <1>4, <5>1
        <5>3. 1 \in DOMAIN work' /\ work'[1] = ts[1] /\ work' \in Seq(Tasks)
          <6>1. work \in Seq(Tasks) /\ work # <<>> /\ ts \in Seq(Tasks)
                /\ work' = ts \o Tail(work)
            BY <1>2, <1>4
          <6> QED BY <1>12, <6>1, Pushed
        <5> QED BY <5>2, <5>3 DEF First
      <4> QED BY <4>1
    <3>2. infos'[t].defined = "DEFINING" /\ ~infos'[t].named BY <1>5, <1>7, <1>9
    <3> QED BY <1>5, <1>10, <1>21, <2>1, <2>2, <2>6, <3>1, <3>2 DEF StateWhole
  <2>7. CASE u # t
    <3>1. infos'[u] = infos[u] BY <1>9, <2>7
    <3>2. Due("defined", u) => Due("defined", u)' BY <1>19
    <3>3. ~First([op |-> "emit", arg |-> u]) BY <1>2 DEF First
    <3>4. /\ Emitted("struct", u)' <=> Emitted("struct", u)
          /\ Emitted("member", u)' <=> Emitted("member", u)
          /\ Emitted("members", u)' <=> Emitted("members", u)
      BY DEF Emitted, Declares
    <3>5. /\ (IsStruct(u))' = IsStruct(u) /\ (IsArray(u))' = IsArray(u)
          /\ (IsGenerated(u))' = IsGenerated(u) /\ (Extras(u))' = Extras(u)
          /\ (NamesClash)' = NamesClash
      BY <1>10
    <3>6. macros' = macros OBVIOUS
    <3> QED BY <2>1, <2>4, <3>1, <3>2, <3>3, <3>4, <3>5, <3>6 DEF StateWhole
  <2> QED BY <2>6, <2>7
<1>30. LateWhole'
  BY <1>10, <1>22, <1>23, <1>24, <1>25, <1>27, <1>28, <1>29 DEF LateWhole
<1>31. /\ header' \in Seq(Declarations)
       /\ \A k \in DOMAIN header' : header'[k].type \in 0 .. Len(infos)
       /\ \A name \in macros' : \E u \in TypeInfos : name = infos[u].base_name
  BY <1>3 DEF TypesWhole
<1> QED BY <1>1, <1>4, <1>9, <1>17, <1>30, <1>31, LateStep

\* A type is defined that is not, or has been.
LEMMA DefineTypeStep == ASSUME CompilerInv, DefineType PROVE CompilerInv'
<1>1. PICK h \in Tasks : First(h) /\ h.op = "define" /\ TaskWhole(h) /\ h = Head(work)
  BY HeadWhole DEF DefineType
<1>2. PICK t : t = h.arg OBVIOUS
<1>3. UNCHANGED <<doc, defs, exit, ret, errors, files, header, macros>>
  BY DEF DefineType, NoError, Then, KeepsOutput
<1>4. h.op \in Defining BY <1>1 DEF Defining
<1>5. /\ Late /\ LateWhole /\ t \in TypeInfos /\ Typed /\ TypesWhole
  BY <1>1, <1>2, <1>4, LateNow DEF TaskWhole, CompilerInv
<1>6. PICK p : p = IF IsStruct(t)
                   THEN TaskFor("define", MemberTypes(t)) \o Task("members", Extras(t))
                   ELSE <<>>
  OBVIOUS
<1>7. \/ infos[t].defined # "NOT_DEFINED" /\ Then(<<>>) /\ UNCHANGED infos
      \/ /\ infos[t].defined = "NOT_DEFINED"
         /\ infos' = [infos EXCEPT ![t].defined = "DEFINING"]
         /\ Then(p \o Task("emit", t) \o Task("defined", t))
  BY <1>1, <1>2, <1>6, Zenon DEF DefineType, Arg
<1>8. CASE infos[t].defined # "NOT_DEFINED" /\ Then(<<>>) /\ UNCHANGED infos
  <2>1. work' = <<>> \o Tail(work) BY <1>8, Zenon DEF Then
  <2> QED BY <1>1, <1>2, <1>3, <1>8, <2>1, DefinedAlready
<1>9. CASE /\ infos[t].defined = "NOT_DEFINED"
           /\ infos' = [infos EXCEPT ![t].defined = "DEFINING"]
           /\ Then(p \o Task("emit", t) \o Task("defined", t))
  <2>1. PICK x, y : x = [op |-> "emit", arg |-> t] /\ y = [op |-> "defined", arg |-> t]
    OBVIOUS
  <2>2. t \in Nat BY <1>5 DEF TypeInfos
  <2>3. x \in Tasks /\ y \in Tasks BY <2>1, <2>2 DEF Tasks, Ops, Defining
  <2>4. Task("emit", t) = <<x>> /\ Task("defined", t) = <<y>> BY <2>1 DEF Task
  <2>5. PICK ts : ts = p \o <<x>> \o <<y>> OBVIOUS
  <2>6. work' = ts \o Tail(work) BY <1>9, <2>4, <2>5, Zenon DEF Then
  <2>7. Starts(ts, t)
    <3>1. CASE IsStruct(t)
      <4>1. Extras(t) \in TypeInfos /\ MemberTypes(t) \in Seq(TypeInfos)
        BY <1>5, <3>1, StructLinks
      <4>2. TypeInfos \subseteq Nat BY DEF TypeInfos
      <4>a. PICK ms : ms = MemberTypes(t) OBVIOUS
      <4>b. PICK e : e = Extras(t) OBVIOUS
      <4>3. ms = MemberTypes(t) /\ e = Extras(t) BY <4>a, <4>b
      <4>4. ms \in Seq(Nat) /\ e \in Nat
        <5>1. ASSUME NEW q \in Seq(TypeInfos) PROVE q \in Seq(Nat)
          <6>1. /\ Len(q) \in Nat /\ q = [i \in 1 .. Len(q) |-> q[i]]
                /\ \A i \in 1 .. Len(q) : q[i] \in Nat
            BY <4>2
          <6>2. [i \in 1 .. Len(q) |-> q[i]] \in Seq(Nat) BY <6>1
          <6> QED BY <6>1, <6>2
        <5> QED BY <4>1, <4>2, <4>3, <5>1
      <4>5. ts = TaskFor("define", ms) \o Task("members", e) \o <<x>> \o <<y>>
        BY <1>6, <2>5, <3>1, <4>3, Zenon
      <4> QED BY <2>1, <2>2, <2>3, <3>1, <4>3, <4>4, <4>5, StructStarts, Zenon
    <3>2. CASE ~IsStruct(t)
      <4>1. p = <<>> BY <1>6, <3>2
      <4>2. ts = Both(x, y) BY <2>3, <2>5, <4>1 DEF Both
      <4> QED BY <2>1, <2>2, <2>3, <3>2, <4>2, ArrayStarts, Zenon
    <3> QED BY <3>1, <3>2
  <2> QED BY <1>1, <1>2, <1>3, <1>9, <2>6, <2>7, DefineStep
<1> QED BY <1>7, <1>8, <1>9

-----------------------------------------------------------------------------
(***************************************************************************)
(* The invariant.                                                          *)
(***************************************************************************)

\* What is invariant says something of the state only.
LEMMA StutterStep == ASSUME CompilerInv, UNCHANGED compilerVars PROVE CompilerInv'
<1>1. /\ doc' = doc /\ defs' = defs /\ infos' = infos /\ work' = work /\ ret' = ret
      /\ errors' = errors /\ header' = header /\ macros' = macros /\ files' = files
      /\ exit' = exit
  BY DEF compilerVars
<1>2. Typed' BY <1>1 DEF CompilerInv, Typed
<1>3. TypesWhole' BY <1>1 DEF CompilerInv, TypesWhole, TypeInfos
<1>4. Ordered' BY <1>1 DEF CompilerInv, Ordered
<1>5. (\A x : TaskWhole(x) => TaskWhole(x)') /\ Started' = Started
  BY <1>1 DEF TaskWhole, TypeInfos, IsGenerated, IsStruct, IsArray, Started
<1>6. TasksWhole' BY <1>1, <1>5 DEF CompilerInv, TasksWhole
<1>7. /\ \A s, t : Fits(s, t)' <=> Fits(s, t)
      /\ \A op, arg : Due(op, arg)' <=> Due(op, arg)
      /\ \A x : First(x)' <=> First(x)
      /\ \A x, y : Adjacent(x, y)' <=> Adjacent(x, y)
  BY <1>1 DEF Fits, TypeInfos, Settled, Due, First, Adjacent
<1>8. \A t : IsMainType(t)' <=> IsMainType(t) BY <1>1 DEF IsMainType, IsMain
<1>9. \A x : (Awaited(x))' = Awaited(x) BY <1>1 DEF Awaited, Part
<1>10. Returned'
  BY <1>1, <1>7, <1>8, <1>9
     DEF CompilerInv, Returned, Ready, Follows, Gives, GivesMain
<1>11. (Leads)' = Leads /\ (Settled)' = Settled BY <1>1 DEF Leads, Target, Settled
<1>12. \A d : DefWhole(d) => DefWhole(d)'
  BY <1>1, <1>7, <1>11 DEF DefWhole, LeadsTo
<1>13. DefsWhole' BY <1>1, <1>7, <1>12 DEF CompilerInv, DefsWhole
<1>14. \A t, i : Pending(t, i) => Pending(t, i)' BY <1>1, <1>7 DEF Pending, Slot
<1>15. LinksWhole'
  BY <1>1, <1>7, <1>14 DEF CompilerInv, LinksWhole, LinkWhole, Part, TypeInfos
<1>16. /\ \A t : (IsStruct(t))' = IsStruct(t) /\ (IsArray(t))' = IsArray(t)
       /\ \A t : (IsGenerated(t))' = IsGenerated(t) /\ (Extras(t))' = Extras(t)
       /\ \A t : (MemberTypes(t))' = MemberTypes(t)
       /\ (NamesClash)' = NamesClash /\ (TypeInfos)' = TypeInfos /\ (Late)' = Late
  BY <1>1 DEF IsStruct, IsArray, IsGenerated, Extras, MemberTypes, NamesClash, TypeInfos, Late
<1>17. /\ \A what, t : Emitted(what, t)' <=> Emitted(what, t)
       /\ \A k, what, t : Before(k, what, t)' <=> Before(k, what, t)
  BY <1>1 DEF Emitted, Before, Declares
<1>18. Fresh => Fresh' BY <1>1, <1>16 DEF Fresh
<1>19. Lately => Lately' BY <1>1 DEF Lately
<1>20. Chained => Chained' BY <1>1, <1>7, <1>16, <1>17 DEF Chained, Readied, Following
<1>21. Once => Once' BY <1>1, <1>7, <1>16, <1>17 DEF Once
<1>22. HeaderTyped => HeaderTyped' BY <1>1, <1>16, <1>17 DEF HeaderTyped
<1>23. HeaderComplete => HeaderComplete'
  BY <1>1, <1>16, <1>17 DEF HeaderComplete, Complete
<1>24. \A t : IsRoot(t)' <=> IsRoot(t) BY <1>1 DEF IsRoot, IsMain
<1>25. \A t : (Wanted(t)' <=> Wanted(t)) /\ (WillDefine(t)' <=> WillDefine(t))
  BY <1>1, <1>7, <1>16, <1>24 DEF Wanted, WillDefine
<1>26. AllWanted => AllWanted' BY <1>1, <1>7, <1>16, <1>25 DEF AllWanted
<1>27. MembersFirst => MembersFirst'
  BY <1>1, <1>7, <1>16 DEF MembersFirst, Precedes
<1>28. \A t : StateWhole(t) => StateWhole(t)'
  BY <1>1, <1>7, <1>16, <1>17 DEF StateWhole
<1>29. LateWhole => LateWhole'
  BY <1>16, <1>19, <1>20, <1>21, <1>22, <1>23, <1>26, <1>27, <1>28 DEF LateWhole
<1>30. HeaderInv' BY <1>16, <1>18, <1>29 DEF CompilerInv, HeaderInv
<1> QED BY <1>2, <1>3, <1>4, <1>6, <1>10, <1>13, <1>15, <1>30 DEF CompilerInv

\* The invariant holds of every run of the compiler.
THEOREM CompilerInvariant == SpecCompiler => []CompilerInv
<1>1. InitCompiler => CompilerInv BY InitStep
<1>2. CompilerInv /\ [NextCompiler]_compilerVars => CompilerInv'
  <2> SUFFICES ASSUME CompilerInv, [NextCompiler]_compilerVars PROVE CompilerInv' OBVIOUS
  <2>1. CASE ParseSchemaFile BY <2>1, ParseSchemaFileStep
  <2>2. CASE Fill BY <2>2, FillStep
  <2>3. CASE FillLink BY <2>3, FillLinkStep
  <2>4. CASE Store BY <2>4, StoreStep
  <2>5. CASE Return BY <2>5, ReturnStep
  <2>6. CASE ResolveRef BY <2>6, ResolveRefStep
  <2>7. CASE ResolveBadRef BY <2>7, ResolveBadRefStep
  <2>8. CASE ResolveNothing BY <2>8, ResolveNothingStep
  <2>9. CASE ResolveType BY <2>9, ResolveTypeStep
  <2>10. CASE ResolveArray BY <2>10, ResolveArrayStep
  <2>11. CASE NameArray BY <2>11, NameArrayStep
  <2>12. CASE ProcessDefinitions BY <2>12, ProcessDefinitionsStep
  <2>13. CASE AllocRef BY <2>13, AllocRefStep
  <2>14. CASE AllocSchema BY <2>14, AllocSchemaStep
  <2>15. CASE AllocCircular BY <2>15, AllocCircularStep
  <2>16. CASE AllocDone BY <2>16, AllocDoneStep
  <2>17. CASE Resolved BY <2>17, ResolvedStep
  <2>18. CASE FillDefinition BY <2>18, FillDefinitionStep
  <2>19. CASE DoCodegen BY <2>19, DoCodegenStep
  <2>20. CASE DefineDefinition BY <2>20, DefineDefinitionStep
  <2>21. CASE DefineType BY <2>21, DefineTypeStep
  <2>22. CASE Emit BY <2>22, EmitStep
  <2>23. CASE Defined BY <2>23, DefinedStep
  <2>24. CASE DefineMembersStruct BY <2>24, DefineMembersStructStep
  <2>25. CASE EmitMembers BY <2>25, EmitMembersStep
  <2>26. CASE Exit BY <2>26, ExitStep
  <2>27. CASE Die BY <2>27, DieStep
  <2>28. CASE UNCHANGED compilerVars BY <2>28, StutterStep
  <2>29. CASE ParseNothing BY <2>29, ParseNothingStep
  <2> QED
    BY <2>1, <2>2, <2>3, <2>4, <2>5, <2>6, <2>7, <2>8, <2>9, <2>10, <2>11, <2>12, <2>13,
       <2>14, <2>15, <2>16, <2>17, <2>18, <2>19, <2>20, <2>21, <2>22, <2>23, <2>24, <2>25,
       <2>26, <2>27, <2>28, <2>29, Zenon DEF NextCompiler, Runs
<1> QED BY <1>1, <1>2, PTL DEF SpecCompiler

\* What is left in main's schema is written by parse_schema_file alone.
LEMMA DestTyped ==
    ASSUME dest \in Dests, [NextCompiler]_compilerVars PROVE dest' \in Dests
<1>1. ParseNothing => dest' = dest BY Zenon DEF ParseNothing, Crash
<1>2. Fill => dest' = dest BY Zenon DEF Fill, Then
<1>3. FillLink => dest' = dest BY Zenon DEF FillLink, Then
<1>4. Store => dest' = dest BY Zenon DEF Store, Then
<1>5. Return => dest' = dest BY Zenon DEF Return, Returns, Then
<1>6. ResolveRef => dest' = dest BY Zenon DEF ResolveRef, Returns, Then
<1>7. ResolveBadRef => dest' = dest BY Zenon DEF ResolveBadRef, Returns, Then
<1>8. ResolveNothing => dest' = dest BY Zenon DEF ResolveNothing, Crash
<1>9. ResolveType => dest' = dest BY Zenon DEF ResolveType, Then
<1>10. ResolveArray => dest' = dest BY Zenon DEF ResolveArray, Then
<1>11. NameArray => dest' = dest BY Zenon DEF NameArray, Crash, Returns, Then
<1>12. ProcessDefinitions => dest' = dest BY Zenon DEF ProcessDefinitions, Crash, Then
<1>13. AllocRef => dest' = dest BY Zenon DEF AllocRef, Then
<1>14. AllocSchema => dest' = dest BY Zenon DEF AllocSchema, Returns, Then
<1>15. AllocCircular => dest' = dest BY Zenon DEF AllocCircular, Returns, Then
<1>16. AllocDone => dest' = dest BY Zenon DEF AllocDone, Returns, Then
<1>17. Resolved => dest' = dest BY Zenon DEF Resolved, Returns, Then
<1>18. FillDefinition => dest' = dest BY Zenon DEF FillDefinition, Crash, Then
<1>19. DoCodegen => dest' = dest BY Zenon DEF DoCodegen, Then
<1>20. DefineDefinition => dest' = dest BY Zenon DEF DefineDefinition, Then
<1>21. DefineType => dest' = dest BY Zenon DEF DefineType, Then
<1>22. Emit => dest' = dest BY Zenon DEF Emit, Then
<1>23. Defined => dest' = dest BY Zenon DEF Defined, Then
<1>24. DefineMembersStruct => dest' = dest BY Zenon DEF DefineMembersStruct, Then
<1>25. EmitMembers => dest' = dest BY Zenon DEF EmitMembers, Then
<1>26. Exit => dest' = dest BY Zenon DEF Exit
<1>27. Die => dest' \in Dests BY DEF Die, Gone, Dests
<1>28. ParseSchemaFile => dest' \in Dests BY DEF ParseSchemaFile, Dests
<1>29. UNCHANGED compilerVars => dest' = dest BY Zenon DEF compilerVars
<1> QED BY <1>1, <1>2, <1>3, <1>4, <1>5, <1>6, <1>7, <1>8, <1>9, <1>10, <1>11,
          <1>12, <1>13, <1>14, <1>15, <1>16, <1>17, <1>18, <1>19, <1>20, <1>21,
          <1>22, <1>23, <1>24, <1>25, <1>26, <1>27, <1>28, <1>29, Zenon
          DEF NextCompiler, Runs

\* The variables keep their types, and types are linked to types that exist:
\* no call returns a type_info that has not been allocated.
THEOREM CompilerTyped == SpecCompiler => []TypeOKCompiler
<1>1. CompilerInv /\ dest \in Dests => TypeOKCompiler
  <2> SUFFICES ASSUME CompilerInv, dest \in Dests PROVE TypeOKCompiler OBVIOUS
  <2>1. Typed /\ TypesWhole BY DEF CompilerInv
  <2>2. ASSUME NEW d \in DOMAIN defs
        PROVE  defs[d].state \in DefStates /\ defs[d].type \in {NULL} \cup TypeInfos
    <3>1. defs[d] \in DefRecords /\ DefWhole(d) BY <2>1 DEF Typed, CompilerInv, DefsWhole
    <3>2. defs[d].type = NULL \/ defs[d].type \in TypeInfos BY <3>1 DEF DefWhole, Fits
    <3> QED BY <3>1, <3>2 DEF DefRecords
  <2>3. ASSUME NEW t \in TypeInfos
        PROVE  /\ infos[t].defined \in {"NOT_DEFINED", "DEFINING", "DEFINED"}
               /\ infos[t].named \in BOOLEAN
               /\ DOMAIN infos[t].links = DOMAIN Subschemas(infos[t].schema)
               /\ ToSet(infos[t].links) \subseteq {NULL} \cup TypeInfos
    <3>1. infos[t] \in TypeRecords BY <2>1 DEF Typed, TypeInfos
    <3>2. infos[t].schema \in AllSchemas /\ infos[t].links \in Seq(Nat)
      BY <3>1 DEF TypeRecords
    <3>3. Subschemas(infos[t].schema) \in Seq(Parts) BY <3>2, SubschemasTyped
    <3>4. Len(infos[t].links) = Len(Subschemas(infos[t].schema)) BY <2>1 DEF TypesWhole
    <3>5. \A i \in DOMAIN infos[t].links : infos[t].links[i] \in 0 .. Len(infos)
      BY <2>1 DEF TypesWhole
    <3>6. Len(infos) \in Nat BY <2>1 DEF Typed
    <3>7. 0 .. Len(infos) = {NULL} \cup TypeInfos BY <3>6 DEF TypeInfos, NULL
    <3>8. ToSet(infos[t].links) \subseteq {NULL} \cup TypeInfos BY <3>5, <3>7 DEF ToSet
    <3>9. DOMAIN infos[t].links = DOMAIN Subschemas(infos[t].schema)
      BY <3>2, <3>3, <3>4
    <3> QED BY <3>1, <3>8, <3>9 DEF TypeRecords
  <2>4. Len(infos) \in Nat BY <2>1 DEF Typed
  <2>5. 0 .. Len(infos) = {NULL} \cup TypeInfos BY <2>4 DEF TypeInfos, NULL
  <2>6. ASSUME NEW k \in DOMAIN header
        PROVE  /\ header[k].what \in {"struct", "member", "members"}
               /\ header[k].type \in {NULL} \cup TypeInfos
    <3>1. header[k] \in Declarations BY <2>1 DEF Typed
    <3>2. header[k].type \in 0 .. Len(infos) BY <2>1 DEF TypesWhole
    <3> QED BY <2>5, <3>1, <3>2 DEF Declarations
  <2>7. macros \subseteq {infos[t].base_name : t \in TypeInfos} BY <2>1 DEF TypesWhole
  <2>8. ret \in {NULL} \cup TypeInfos BY <2>1, <2>5 DEF Typed
  <2>9. /\ doc \in Documents \cup {EmptyDocument} /\ errors \in BOOLEAN
        /\ files \subseteq {"c", "h"}
        /\ exit \in {"running", "ok", "error", "crashed", "gone"}
    BY <2>1 DEF Typed
  <2> QED BY <2>2, <2>3, <2>6, <2>7, <2>8, <2>9 DEF TypeOKCompiler
<1>2. InitCompiler => dest \in Dests BY DEF InitCompiler, Dests
<1>3. dest \in Dests /\ [NextCompiler]_compilerVars => (dest \in Dests)' BY DestTyped
<1> QED BY <1>1, <1>2, <1>3, CompilerInvariant, PTL DEF SpecCompiler

\* Unless names clash, no struct is declared twice, in whatever order types
\* that refer to each other are defined.
THEOREM DeclaredOnce == SpecCompiler => []EmittedOnce
<1>1. CompilerInv => EmittedOnce
  <2> SUFFICES ASSUME CompilerInv, ~NamesClash,
                      NEW j \in DOMAIN header, NEW k \in DOMAIN header,
                      header[j].what = header[k].what, header[j].name = header[k].name
               PROVE  j = k
    BY DEF EmittedOnce
  <2>1. header \in Seq(Declarations) BY DEF CompilerInv, Typed
  <2>2. CASE Late
    <3>1. HeaderTyped BY <2>2 DEF CompilerInv, HeaderInv, LateWhole
    <3>2. j \in Nat /\ k \in Nat /\ j >= 1 /\ k >= 1 BY <2>1
    <3>3. 1 \in DOMAIN Included BY DEF Included
    <3>4. ASSUME NEW n \in DOMAIN header, n > 1 PROVE header[n].name # header[1].name
      <4>1. header[n].type \in TypeInfos /\ header[n].name = infos[header[n].type].base_name
        BY <3>1, <3>4 DEF HeaderTyped
      <4>2. header[1] = Included[1] BY <3>1 DEF HeaderTyped
      <4> QED BY <3>3, <4>1, <4>2 DEF NamesClash
    <3>5. CASE j > 1 /\ k > 1
      <4>1. /\ header[j].type \in TypeInfos /\ header[k].type \in TypeInfos
            /\ infos[header[j].type].base_name = infos[header[k].type].base_name
        BY <3>1, <3>5 DEF HeaderTyped
      <4>2. header[j].type = header[k].type BY <4>1 DEF NamesClash
      <4> QED BY <3>1, <4>2 DEF HeaderTyped
    <3>6. CASE j = 1 \/ k = 1
      <4>1. j = 1 /\ k = 1 BY <3>2, <3>4, <3>6
      <4> QED BY <4>1
    <3> QED BY <3>2, <3>5, <3>6
  <2>3. CASE ~Late
    <3>1. header = Included BY <2>3 DEF CompilerInv, HeaderInv, Fresh
    <3>2. DOMAIN header = {1} BY <3>1 DEF Included
    <3> QED BY <3>2
  <2> QED BY <2>2, <2>3
<1> QED BY <1>1, CompilerInvariant, PTL

\* Once nothing is left to do, the types that have been declared are those
\* that were wanted, with their members.
LEMMA AllDeclared ==
    ASSUME CompilerInv, Late, work = <<>>, ~NamesClash, NEW t \in TypeInfos
    PROVE  /\ IsGenerated(t) => (Emitted("struct", t) <=> infos[t].defined # "NOT_DEFINED")
           /\ IsGenerated(t) => (infos[t].defined # "NOT_DEFINED" <=> Wanted(t))
           /\ infos[t].named /\ t # variant_type => Emitted("member", t)
<1>1. LateWhole /\ infos \in Seq(TypeRecords) BY DEF CompilerInv, HeaderInv, Typed
<1>2. StateWhole(t) /\ AllWanted /\ HeaderTyped BY <1>1 DEF LateWhole
<1>3. \A op, arg : ~Due(op, arg) BY DEF Due
<1>4. infos[t].defined \in {"NOT_DEFINED", "DEFINED"}
  <2>1. infos[t] \in TypeRecords BY <1>1 DEF TypeInfos
  <2>2. infos[t].defined # "DEFINING" BY <1>2, <1>3 DEF StateWhole
  <2> QED BY <2>1, <2>2 DEF TypeRecords
<1>5. IsGenerated(t) => (Emitted("struct", t) <=> infos[t].defined # "NOT_DEFINED")
  BY <1>2, <1>4 DEF StateWhole
<1>6. IsGenerated(t) => (infos[t].defined # "NOT_DEFINED" <=> Wanted(t))
  BY <1>2, <1>3 DEF AllWanted, WillDefine
<1>7. ASSUME infos[t].named, t # variant_type PROVE Emitted("member", t)
  <2>1. infos[t].base_name \in macros BY <1>2, <1>4, <1>7 DEF StateWhole
  <2>2. \A u \in TypeInfos : infos[u].base_name = infos[t].base_name => u = t
    BY DEF NamesClash
  <2>3. infos[t].base_name # <<"eu_variant">>
    <3>1. 2 \in TypeInfos /\ infos[2].base_name = <<"eu_variant">>
      <4>1. Len(infos) \in Nat /\ Len(infos) >= 2 BY <1>1 DEF CompilerInv, TypesWhole
      <4> QED BY <4>1 DEF CompilerInv, TypesWhole, TypeInfos
    <3> QED BY <1>7, <2>2, <3>1 DEF variant_type
  <2>4. PICK u \in TypeInfos : infos[t].base_name = infos[u].base_name /\ Emitted("member", u)
    BY <1>2, <2>1, <2>3 DEF HeaderTyped
  <2>5. u = t BY <2>2, <2>4
  <2> QED BY <2>4, <2>5
<1> QED BY <1>5, <1>6, <1>7

\* The header can be compiled: what is held by value is declared before, and
\* in the end the declared types are those to which definitions and members
\* of declared structs lead.
THEOREM HeaderAlwaysWhole == SpecCompiler => []HeaderWhole
<1>1. CompilerInv => HeaderWhole
  <2> SUFFICES ASSUME CompilerInv, ~NamesClash
               PROVE  /\ \A k \in DOMAIN header : Complete(k)
                      /\ exit = "ok" =>
                           \A t \in {u \in TypeInfos : IsGenerated(u)} :
                              /\ Emitted("struct", t) <=>
                                    \/ \E d \in DOMAIN defs : t = defs[d].type
                                    \/ IsMain(t)
                                    \/ \E s \in TypeInfos :
                                          /\ IsStruct(s) /\ Emitted("struct", s)
                                          /\ t \in ToSet(infos[s].links)
                              /\ IsStruct(t) /\ Emitted("struct", t)
                                 /\ Extras(t) # variant_type
                                 => Emitted("member", Extras(t))
    BY DEF HeaderWhole
  <2>1. \A k \in DOMAIN header : Complete(k)
    <3>1. CASE Late BY <3>1 DEF CompilerInv, HeaderInv, LateWhole, HeaderComplete
    <3>2. CASE ~Late
      <4>1. header = Included BY <3>2 DEF CompilerInv, HeaderInv, Fresh
      <4>2. DOMAIN header = {1} /\ header[1].what = "struct" /\ header[1].type = NULL
        BY <4>1 DEF Included
      <4> QED BY <4>2 DEF Complete
    <3> QED BY <3>1, <3>2
  <2>2. ASSUME exit = "ok", NEW t \in TypeInfos, IsGenerated(t)
        PROVE  /\ Emitted("struct", t) <=>
                     \/ \E d \in DOMAIN defs : t = defs[d].type
                     \/ IsMain(t)
                     \/ \E s \in TypeInfos :
                           /\ IsStruct(s) /\ Emitted("struct", s)
                           /\ t \in ToSet(infos[s].links)
               /\ IsStruct(t) /\ Emitted("struct", t) /\ Extras(t) # variant_type
                  => Emitted("member", Extras(t))
    <3>1. Late BY <2>2 DEF CompilerInv, HeaderInv, Fresh
    <3>2. work = <<>> BY <2>2 DEF CompilerInv, TasksWhole
    <3>3. \A u \in TypeInfos :
             /\ IsGenerated(u) => (Emitted("struct", u) <=> infos[u].defined # "NOT_DEFINED")
             /\ IsGenerated(u) => (infos[u].defined # "NOT_DEFINED" <=> Wanted(u))
             /\ infos[u].named /\ u # variant_type => Emitted("member", u)
      BY <3>1, <3>2, AllDeclared
    <3>4. \A s \in TypeInfos : IsStruct(s) =>
             (Emitted("struct", s) <=> infos[s].defined # "NOT_DEFINED")
      BY <3>3 DEF IsGenerated
    <3>5. Wanted(t) <=>
             \/ \E d \in DOMAIN defs : t = defs[d].type
             \/ IsMain(t)
             \/ \E s \in TypeInfos : /\ IsStruct(s) /\ Emitted("struct", s)
                                     /\ t \in ToSet(infos[s].links)
      BY <3>4 DEF Wanted, IsRoot
    <3>6. ASSUME IsStruct(t), Emitted("struct", t), Extras(t) # variant_type
          PROVE  Emitted("member", Extras(t))
      <4>1. Extras(t) \in TypeInfos BY <3>1, <3>6, StructLinks
      <4>2. LateWhole BY <3>1 DEF CompilerInv, HeaderInv
      <4>3. infos[Extras(t)].named BY <3>6, <4>2 DEF LateWhole, StateWhole
      <4> QED BY <3>3, <3>6, <4>1, <4>3
    <3> QED BY <2>2, <3>3, <3>5, <3>6
  <2> QED BY <2>1, <2>2
<1> QED BY <1>1, CompilerInvariant, PTL

-----------------------------------------------------------------------------
(***************************************************************************)
(* References.                                                             *)
(***************************************************************************)

\* Where a definition is reached that is no reference, all steps after it stay.
LEMMA LeadsEnds ==
    ASSUME doc.defs \in Seq(AllSchemas), NEW d \in DOMAIN doc.defs,
           NEW n \in 0 .. Len(doc.defs), NEW e, Leads[n][d] = e, doc.defs[e].is # "ref"
    PROVE  EndOf[d] = e
<1>1. PICK N : N = Len(doc.defs) OBVIOUS
<1>2. /\ N \in Nat /\ n \in 0 .. N
      /\ \A k \in 0 .. N : k < N => Leads[k + 1][d] = Target(Leads[k][d])
  BY <1>1, LeadsSteps
<1>3. Target(e) = e BY DEF Target
<1> DEFINE T == {k \in 0 .. N : k >= n => Leads[k][d] = e}
<1>4. 0 \in T BY <1>2
<1>5. ASSUME NEW k \in T, k < N PROVE k + 1 \in T
  <2>1. k \in Nat /\ k + 1 \in 0 .. N BY <1>2, <1>5
  <2>2. CASE k + 1 = n BY <2>1, <2>2
  <2>3. CASE k + 1 # n
    <3>1. k + 1 >= n => k >= n BY <1>2, <2>1, <2>3
    <3>2. Leads[k + 1][d] = Target(Leads[k][d]) BY <1>2, <1>5
    <3>3. k >= n => Leads[k][d] = e OBVIOUS
    <3> QED BY <1>3, <2>1, <3>1, <3>2, <3>3
  <2> QED BY <2>2, <2>3
<1>6. T \in SUBSET (0 .. N) OBVIOUS
<1>7. T = 0 .. N
  <2> HIDE DEF T
  <2> QED BY <1>2, <1>4, <1>5, <1>6, Induction
<1>8. N \in T /\ N >= n BY <1>2, <1>7
<1>9. Leads[N][d] = e BY <1>8
<1> QED BY <1>1, <1>9 DEF EndOf

\* The type of a definition is that of the definition at the end of the
\* references, which is no reference.
LEMMA SettledEnds ==
    ASSUME CompilerInv, NEW d \in DOMAIN defs, defs[d].type # NULL
    PROVE  /\ EndOf[d] \in DOMAIN defs /\ defs[EndOf[d]].state = "DEF_SCHEMA_TYPE"
           /\ defs[EndOf[d]].type = defs[d].type
           /\ infos[defs[d].type].schema = doc.defs[EndOf[d]]
<1>1. doc.defs \in Seq(AllSchemas) BY DocTyped DEF CompilerInv, Typed
<1>2. DOMAIN defs = DOMAIN doc.defs
  <2>1. defs # <<>> OBVIOUS
  <2> QED BY <2>1 DEF CompilerInv, TasksWhole, Started
<1>3. DefWhole(d) BY DEF CompilerInv, DefsWhole
<1>4. d \in Settled BY <1>3 DEF DefWhole
<1>5. PICK e \in DOMAIN defs : /\ defs[e].state = "DEF_SCHEMA_TYPE"
                               /\ defs[e].type = defs[d].type /\ LeadsTo(d, e)
  BY <1>3, <1>4 DEF DefWhole
<1>6. DefWhole(e) /\ e \in Settled BY <1>5 DEF CompilerInv, DefsWhole, Settled
<1>7. doc.defs[e].is # "ref" BY <1>5, <1>6 DEF DefWhole
<1>8. PICK n \in 0 .. Len(doc.defs) : Leads[n][d] = e BY <1>5 DEF LeadsTo
<1>9. EndOf[d] = e BY <1>1, <1>2, <1>7, <1>8, LeadsEnds
<1>10. Fits(doc.defs[e], defs[e].type) BY <1>6 DEF DefWhole
<1>11. infos[defs[e].type].schema = doc.defs[e] BY <1>5, <1>7, <1>10 DEF Fits
<1> QED BY <1>5, <1>9, <1>11

\* When code is generated every definition has a type.
DefsTyped == files # {} => \A d \in DOMAIN defs : defs[d].type # NULL

LEMMA DefsTypedStep ==
    ASSUME CompilerInv, DefsTyped, [NextCompiler]_compilerVars
    PROVE  DefsTyped'
<1>1. CASE files' = files /\ defs' = defs BY <1>1 DEF DefsTyped
<1>2. CASE files' = {} BY <1>2 DEF DefsTyped
<1>3. CASE Die
  <2>1. DOMAIN defs' = {} BY <1>3 DEF Die, Gone
  <2> QED BY <2>1 DEF DefsTyped
<1>4. CASE DoCodegen
  <2>1. PICK h \in Tasks : First(h) /\ h.op = "codegen" BY <1>4, HeadWhole DEF DoCodegen
  <2>2. files = {} /\ exit = "running" BY <2>1, Early DEF Defining
  <2>3. defs' = defs BY <1>4 DEF DoCodegen, KeepsTypes
  <2>4. CASE errors
    <3>1. files' = files BY <1>4, <2>4 DEF DoCodegen
    <3> QED BY <1>2, <2>2, <3>1
  <2>5. CASE ~errors
    <3>1. work \in Seq(Tasks) /\ work # <<>> /\ work[1] = h
      BY <2>1 DEF CompilerInv, Typed, First
    <3>2. 1 \in DOMAIN work BY <3>1
    <3>3. Len(work) = 1 BY <2>1, <3>1, <3>2 DEF CompilerInv, Ordered
    <3>4. \A op, arg : Due(op, arg) => op = "codegen" BY <2>1, <3>1, <3>3 DEF Due
    <3>5. ASSUME NEW d \in DOMAIN defs PROVE defs[d].type # NULL
      <4>1. DefWhole(d) /\ defs[d] \in DefRecords
        BY DEF CompilerInv, DefsWhole, Typed
      <4>2. defs[d].state \notin {"DEF_SCHEMA", "DEF_REF", "DEF_RESOLVING", "DEF_ERROR"}
        BY <2>2, <2>5, <3>4, <4>1 DEF DefWhole
      <4>3. d \in Settled BY <4>1, <4>2 DEF Settled, DefRecords, DefStates
      <4>4. Fits(doc.defs[d], defs[d].type) BY <4>1, <4>3 DEF DefWhole
      <4> QED BY <2>5, <4>4 DEF Fits, TypeInfos, NULL
    <3> QED BY <2>3, <3>5 DEF DefsTyped
  <2> QED BY <2>4, <2>5
<1>5. ASSUME NEW op, Do(op), op \notin Defining \cup {"exit"} PROVE files = {}
  <2>1. PICK h \in Tasks : First(h) /\ h.op = op BY <1>5, HeadWhole
  <2> QED BY <1>5, <2>1, Early
<1>6. CASE UNCHANGED compilerVars BY <1>1, <1>6 DEF compilerVars
<1>7. CASE Exit
  <2>1. defs' = defs /\ (files' = {} \/ files' = files) BY <1>7 DEF Exit, KeepsTypes
  <2> QED BY <1>1, <1>2, <2>1
<1>8. ASSUME DefineDefinition \/ DefineType \/ Emit \/ Defined \/ DefineMembersStruct
             \/ EmitMembers
      PROVE  files' = files /\ defs' = defs
  <2>1. DefineDefinition => files' = files /\ defs' = defs
    BY DEF DefineDefinition, KeepsTypes, KeepsOutput
  <2>2. DefineType => files' = files /\ defs' = defs BY DEF DefineType, KeepsOutput
  <2>3. Emit => files' = files /\ defs' = defs BY DEF Emit, KeepsTypes
  <2>4. Defined => files' = files /\ defs' = defs BY DEF Defined, Guarded, KeepsOutput
  <2>5. DefineMembersStruct => files' = files /\ defs' = defs
    BY DEF DefineMembersStruct, KeepsTypes, KeepsOutput
  <2>6. EmitMembers => files' = files /\ defs' = defs BY DEF EmitMembers, Guarded
  <2> QED BY <1>8, <2>1, <2>2, <2>3, <2>4, <2>5, <2>6
<1>9. ASSUME Fill \/ FillLink \/ Store \/ Return \/ ResolveRef \/ ResolveBadRef
             \/ ResolveNothing \/ ResolveType \/ ResolveArray \/ NameArray
             \/ FillDefinition
      PROVE  files' = files /\ \E op \in Filling : Do(op)
  <2>1. ASSUME Fill PROVE files' = files /\ Do("fill") BY <2>1 DEF Fill, KeepsOutput
  <2>2. ASSUME FillLink PROVE files' = files /\ Do("link") BY <2>2 DEF FillLink, KeepsOutput
  <2>3. ASSUME Store PROVE files' = files /\ Do("store") BY <2>3 DEF Store, KeepsOutput
  <2>4. ASSUME Return PROVE files' = files /\ Do("return") BY <2>4 DEF Return, KeepsOutput
  <2>5. ASSUME ResolveRef PROVE files' = files /\ Do("resolve")
    BY <2>5 DEF ResolveRef, KeepsOutput
  <2>6. ASSUME ResolveBadRef PROVE files' = files /\ Do("resolve")
    BY <2>6 DEF ResolveBadRef, KeepsOutput
  <2>7. ASSUME ResolveNothing PROVE files' = files /\ Do("resolve")
    BY <2>7 DEF ResolveNothing, Crash, KeepsOutput
  <2>8. ASSUME ResolveType PROVE files' = files /\ Do("resolve")
    BY <2>8 DEF ResolveType, KeepsOutput
  <2>9. ASSUME ResolveArray PROVE files' = files /\ Do("resolve")
    BY <2>9 DEF ResolveArray, KeepsOutput
  <2>10. ASSUME NameArray PROVE files' = files /\ Do("array")
    BY <2>10 DEF NameArray, Crash, KeepsOutput
  <2>11. ASSUME FillDefinition PROVE files' = files /\ Do("fill_definition")
    BY <2>11 DEF FillDefinition, Crash, KeepsOutput
  <2> QED BY <1>9, <2>1, <2>2, <2>3, <2>4, <2>5, <2>6, <2>7, <2>8, <2>9, <2>10, <2>11
          DEF Filling
<1>10. ASSUME ParseSchemaFile \/ ProcessDefinitions \/ AllocRef \/ AllocSchema
              \/ AllocCircular \/ AllocDone \/ Resolved \/ ParseNothing
       PROVE  files' = files /\ \E op \in Opening \cup Allocating : Do(op)
  <2>1. ASSUME ParseSchemaFile PROVE files' = files /\ Do("parse")
    BY <2>1 DEF ParseSchemaFile, KeepsOutput
  <2>2. ASSUME ProcessDefinitions PROVE files' = files /\ Do("process")
    BY <2>2 DEF ProcessDefinitions, Crash, KeepsOutput
  <2>3. ASSUME AllocRef PROVE files' = files /\ Do("alloc") BY <2>3 DEF AllocRef, KeepsOutput
  <2>4. ASSUME AllocSchema PROVE files' = files /\ Do("alloc")
    BY <2>4 DEF AllocSchema, KeepsOutput
  <2>5. ASSUME AllocCircular PROVE files' = files /\ Do("alloc")
    BY <2>5 DEF AllocCircular, KeepsOutput
  <2>6. ASSUME AllocDone PROVE files' = files /\ Do("alloc")
    BY <2>6 DEF AllocDone, KeepsOutput
  <2>7. ASSUME Resolved PROVE files' = files /\ Do("resolved")
    BY <2>7 DEF Resolved, KeepsOutput
  <2>8. ASSUME ParseNothing PROVE files' = files /\ Do("parse")
    BY <2>8 DEF ParseNothing, Crash, KeepsOutput
  <2> QED BY <1>10, <2>1, <2>2, <2>3, <2>4, <2>5, <2>6, <2>7, <2>8 DEF Opening, Allocating
<1>11. /\ \A op \in Filling : op \notin Defining \cup {"exit"}
       /\ \A op \in Opening \cup Allocating : op \notin Defining \cup {"exit"}
  BY DEF Filling, Opening, Allocating, Defining
<1>12. \/ UNCHANGED compilerVars \/ Die \/ DoCodegen \/ Exit
       \/ DefineDefinition \/ DefineType \/ Emit \/ Defined \/ DefineMembersStruct
       \/ EmitMembers
       \/ Fill \/ FillLink \/ Store \/ Return \/ ResolveRef \/ ResolveBadRef
       \/ ResolveNothing \/ ResolveType \/ ResolveArray \/ NameArray \/ FillDefinition
       \/ ParseSchemaFile \/ ProcessDefinitions \/ AllocRef \/ AllocSchema
       \/ AllocCircular \/ AllocDone \/ Resolved \/ ParseNothing
  BY Zenon DEF NextCompiler, Runs
<1>13. CASE files' = files /\ \E op \in Filling \cup Opening \cup Allocating : Do(op)
  BY <1>2, <1>5, <1>11, <1>13
<1> QED BY <1>1, <1>3, <1>4, <1>6, <1>7, <1>8, <1>9, <1>10, <1>12, <1>13

\* Every link of every type, and the type of every definition, is the one at
\* the end of the references, the same for all that refer to it.
THEOREM ResolvedAlwaysExact == SpecCompiler => []ResolvedExact
<1>1. InitCompiler => DefsTyped BY DEF InitCompiler, DefsTyped
<1>2. CompilerInv /\ DefsTyped /\ [NextCompiler]_compilerVars => DefsTyped'
  BY DefsTypedStep
<1>3. SpecCompiler => []DefsTyped BY <1>1, <1>2, CompilerInvariant, PTL DEF SpecCompiler
<1>4. CompilerInv /\ DefsTyped => ResolvedExact
  <2> SUFFICES ASSUME CompilerInv, DefsTyped PROVE ResolvedExact OBVIOUS
  <2>1. ASSUME NEW t \in TypeInfos, NEW i \in DOMAIN Subschemas(infos[t].schema)
        PROVE  \/ infos[t].links[i] = NULL /\ files = {}
               \/ TypeOf(Part(t, i), infos[t].links[i])
    <3>1. PICK u : u = infos[t].links[i] OBVIOUS
    <3>2. PICK s : s = Part(t, i) OBVIOUS
    <3>3. i \in DOMAIN infos[t].links /\ Len(infos) \in Nat /\ infos \in Seq(TypeRecords)
      <4>1. Typed /\ TypesWhole BY DEF CompilerInv
      <4>2. infos[t].schema \in AllSchemas /\ infos[t].links \in Seq(Nat)
        <5>1. infos[t] \in TypeRecords BY <4>1 DEF Typed, TypeInfos
        <5> QED BY <5>1 DEF TypeRecords
      <4>3. Subschemas(infos[t].schema) \in Seq(Parts) BY <4>2, SubschemasTyped
      <4>4. Len(infos[t].links) = Len(Subschemas(infos[t].schema)) BY <4>1 DEF TypesWhole
      <4> QED BY <4>1, <4>2, <4>3, <4>4 DEF Typed
    <3>4. LinkWhole(t, i) BY <3>3 DEF CompilerInv, LinksWhole
    <3>5. CASE u = NULL
      <4>1. s = None \/ files = {} BY <3>1, <3>2, <3>4, <3>5 DEF LinkWhole
      <4>2. s = None => TypeOf(s, u)
        <5>1. TypeOf(None, NULL) BY DEF TypeOf, None
        <5> QED BY <3>5, <5>1, Zenon
      <4> QED BY <3>1, <3>2, <3>5, <4>1, <4>2
    <3>6. CASE u # NULL
      <4>1. Fits(s, u) BY <3>1, <3>2, <3>4, <3>6 DEF LinkWhole
      <4>2. u \in TypeInfos /\ infos[u].schema \in AllSchemas
        <5>1. u \in TypeInfos BY <3>6, <4>1 DEF Fits
        <5>2. infos[u] \in TypeRecords BY <3>3, <5>1 DEF TypeInfos
        <5> QED BY <5>1, <5>2 DEF TypeRecords
      <4>3. s # None
        <5>1. s = None => infos[u].schema = None BY <3>6, <4>1 DEF Fits, None
        <5> QED BY <4>2, <5>1, SchemaShapes
      <4>4. CASE s.is = "ref"
        <5>1. s.to \in Settled /\ defs[s.to].type = u BY <3>6, <4>1, <4>4 DEF Fits
        <5>2. s.to \in DOMAIN defs BY <5>1 DEF Settled
        <5>3. /\ defs[EndOf[s.to]].state = "DEF_SCHEMA_TYPE"
              /\ defs[EndOf[s.to]].type = u /\ infos[u].schema = doc.defs[EndOf[s.to]]
          BY <3>6, <5>1, <5>2, SettledEnds
        <5> QED BY <3>1, <3>2, <4>3, <4>4, <5>3 DEF TypeOf
      <4>5. CASE s.is # "ref"
        <5>1. infos[u].schema = s BY <3>6, <4>1, <4>5 DEF Fits
        <5> QED BY <3>1, <3>2, <3>6, <4>3, <4>5, <5>1 DEF TypeOf
      <4> QED BY <4>4, <4>5
    <3> QED BY <3>5, <3>6
  <2>2. ASSUME files # {}, NEW d \in DOMAIN defs PROVE defs[d].type = defs[EndOf[d]].type
    <3>1. defs[d].type # NULL BY <2>2 DEF DefsTyped
    <3> QED BY <3>1, SettledEnds
  <2> QED BY <2>1, <2>2 DEF ResolvedExact, Part
<1> QED BY <1>3, <1>4, CompilerInvariant, PTL
=============================================================================
