--------------------------- MODULE SchemaCompiler ---------------------------
(***************************************************************************)
(* schemac: from the definitions of a JSON schema to the declarations of a *)
(* C header (schemac.c).                                                   *)
(*                                                                         *)
(* The program is sequential; `work' is what it has still to do, the rest  *)
(* of the calls on its stack first, and ret what the last call returned.   *)
(* Of the text that is generated the model keeps which structs are         *)
(* declared, in which order, and between which #ifndef lines.              *)
(***************************************************************************)
EXTENDS Naturals, Sequences, SequencesExt

CONSTANTS
    Schemas,        \* the schemas, with those within them
    DefNames,       \* the names of the definitions of a document, in order
    Documents       \* the documents that are compiled

VARIABLES
    doc,        \* the schema in the file
    dest,       \* what parse_schema_file leaves in main's struct schema
    defs,       \* struct definition: its state, and u.type
    infos,      \* the type_infos, in the order of their allocation
    work,       \* the calls that are still to be made
    ret,        \* the type_info that the last call returned
    errors,     \* error_count > 0
    header,     \* the declarations that the C compiler sees
    macros,     \* the *_MEMBERS_DEFINED that are defined
    files,      \* the output files that there are
    exit        \* how the program ended; "gone": without an end of its own,
                \* or it has been forgotten

compilerVars == <<doc, dest, defs, infos, work, ret, errors, header, macros,
                  files, exit>>

-----------------------------------------------------------------------------
(***************************************************************************)
(* Schemas.  `wrong' is one that alloc_type reports: a type that is not    *)
(* known, no type, or members that do not go with it; a `badref' has other *)
(* members than "$ref"; `any' is empty; `none' is not there.  The scalar   *)
(* types differ in nothing that is modelled.                               *)
(***************************************************************************)
None == [is |-> "none"]
Scalar == [is |-> "scalar"]
AnyValue == [is |-> "any"]
Wrong == [is |-> "wrong"]
BadRef == [is |-> "badref"]
Ref(d) == [is |-> "ref", to |-> d]          \* the d-th definition, if it is there
Array(items) == [is |-> "array", items |-> items]
\* name: the euphemusStructName.
Object(name, members, extras) ==
    [is |-> "object", name |-> name, members |-> members, extras |-> extras]

NoName == <<>>
Main == <<"main">>                          \* the name of the schema file

\* The schemas within a schema, in the order of the links of its type.
Subschemas(s) == CASE s.is = "object" -> <<s.extras>> \o s.members
                   [] s.is = "array" -> <<s.items>>
                   [] OTHER -> <<>>

\* A schema is one of these, made of others, and the main member and the
\* definitions of a document are schemas.
ASSUME SchemaAssumption ==
    /\ \A s \in Schemas :
          \/ s \in {Scalar, AnyValue, Wrong, BadRef}
          \/ s.is = "ref" /\ s = Ref(s.to)
          \/ /\ s.is = "array" /\ s = Array(s.items)
             /\ s.items \in Schemas \cup {None}
          \/ /\ s.is = "object" /\ s = Object(s.name, s.members, s.extras)
             /\ s.name \in Seq(STRING)
             /\ s.members \in Seq(Schemas) /\ s.extras \in Schemas \cup {None}
    /\ Documents \subseteq [main : Schemas, defs : Seq(Schemas), present : BOOLEAN]
    /\ \A document \in Documents :
          \A d \in DOMAIN document.defs : DefNames[d] \in STRING

-----------------------------------------------------------------------------
(***************************************************************************)
(* type_info: NULL is 0, and two are there from the start.                 *)
(***************************************************************************)
NULL == 0
scalar_type == 1
variant_type == 2

\* Mutant of TypeInfo: there is no room for the links.
TypeInfoBare(s, name, links) ==
    [schema |-> s, base_name |-> name, links |-> <<>>, named |-> FALSE,
     defined |-> IF s.is \in {"object", "array"} THEN "NOT_DEFINED" ELSE "DEFINED"]

\* base_name stands for all the names that are made of it.  A struct's first
\* link is extras_type, the others are those of its members; an array's is
\* element_type.
TypeInfo(s, name, links) ==
    [schema |-> s, base_name |-> name, links |-> links,
     named |-> FALSE,           \* has members_struct_name been set?
     defined |-> IF s.is \in {"object", "array"} THEN "NOT_DEFINED" ELSE "DEFINED"]

Builtin == <<TypeInfo(Scalar, <<"eu_string">>, <<>>),
             TypeInfo(AnyValue, <<"eu_variant">>, <<>>)>>

IsStruct(t) == infos[t].schema.is = "object"
IsArray(t) == infos[t].schema.is = "array"

\* extras_type, which is variant_type by default, and the types of members.
Extras(t) == IF infos[t].links[1] = NULL THEN variant_type ELSE infos[t].links[1]
MemberTypes(t) == Tail(infos[t].links)

\* A declaration of a struct: of a type, of its *_member or its *_members.
Declared(what, t) == [what |-> what, name |-> infos[t].base_name, type |-> t]

\* euphemus.h declares these, and defines EU_VARIANT_MEMBERS_DEFINED.
Included == <<[what |-> "struct", name |-> <<"eu_variant", "array">>,
               type |-> NULL]>>

-----------------------------------------------------------------------------
Task(op, arg) == <<[op |-> op, arg |-> arg]>>
TaskFor(op, args) == [i \in DOMAIN args |-> [op |-> op, arg |-> args[i]]]

\* The next thing to do is op, and then what `tasks' says.
Do(op) == exit = "running" /\ work # <<>> /\ Head(work).op = op
Arg == Head(work).arg
Then(tasks) == work' = tasks \o Tail(work) /\ UNCHANGED <<doc, dest, exit>>
Returns(t) == ret' = t /\ Then(<<>>)

KeepsTypes == UNCHANGED <<defs, infos>>
KeepsOutput == UNCHANGED <<header, macros, files>>
Error == errors' = TRUE
NoError == UNCHANGED errors

\* A NULL pointer is dereferenced.
Crash == /\ exit' = "crashed" /\ work' = <<>> /\ UNCHANGED <<doc, dest, ret>>
         /\ KeepsTypes /\ KeepsOutput /\ NoError

Dests == {"unset",      \* nobody has written to it
          "zeroed",     \* by eu_parse_create or eu_parse_destroy
          "released",   \* by eu_parse_destroy, but its extras point to memory
          "filled"}

\* parse_schema_file: the file may be missing, or unreadable or no schema.  In
\* the latter case eu_parse_destroy has the frame of the schema clear it, if it
\* is on the stack.  If not, the fini of the schema does not clear the extras,
\* if there are any.
ParseSchemaFile ==
    /\ Do("parse") /\ UNCHANGED <<doc, ret, exit>> /\ KeepsTypes /\ KeepsOutput
    /\ \/ /\ dest' = "filled" /\ NoError
          /\ work' = Task("process", NULL) \o Tail(work)
       \/ /\ dest' \in {"unset", "zeroed", "released"} /\ Error
          /\ work' = Task("exit", NULL) \o Tail(work)

\* eu_parse_create returned NULL, and eu_parse or eu_parse_destroy is called.
ParseNothing == Do("parse") /\ Crash

-----------------------------------------------------------------------------
(***************************************************************************)
(* Types of schemas.                                                       *)
(***************************************************************************)
\* What the type of s is called where it would be called name.
Tag(s, name) == IF s.is = "object" /\ s.name # NoName THEN s.name ELSE name

\* alloc_type and alloc_struct: t is the type of the schema s.
AllocType(s, name, t) ==
    LET tag == Tag(s, name)
    IN  \/ /\ s.is \in {"object", "array"} /\ tag # NoName /\ t = Len(infos) + 1
           /\ infos' = Append(infos,
                  TypeInfo(s, tag, [i \in DOMAIN Subschemas(s) |-> NULL]))
           /\ NoError
        \/ /\ s.is = "object" /\ tag = NoName /\ t = NULL
           /\ Error /\ UNCHANGED infos
        \/ /\ s.is = "scalar" /\ t = scalar_type /\ NoError /\ UNCHANGED infos
        \/ /\ s.is = "any" /\ t = variant_type /\ NoError /\ UNCHANGED infos
        \/ /\ s.is = "wrong" /\ t = NULL /\ Error /\ UNCHANGED infos

NewTypes == NULL .. Len(infos) + 1
Resolving(s, name) == Task("resolve", [schema |-> s, name |-> name])
Slot(t, i) == [type |-> t, link |-> i]

\* struct_fill: the members, then what additionalProperties says.
StructFill(t) ==
    TaskFor("link", [i \in DOMAIN MemberTypes(t) |-> Slot(t, i + 1)])
    \o IF infos[t].schema.extras = None THEN <<>> ELSE Task("link", Slot(t, 1))

Fill == LET t == Arg
        IN  /\ Do("fill") /\ UNCHANGED ret /\ KeepsTypes /\ KeepsOutput /\ NoError
            /\ \/ IsStruct(t) /\ Then(StructFill(t))
               \/ IsArray(t) /\ Then(Task("link", Slot(t, 1)))
               \/ ~IsStruct(t) /\ ~IsArray(t) /\ Then(<<>>)

FillLink == /\ Do("link") /\ UNCHANGED ret /\ KeepsTypes /\ KeepsOutput /\ NoError
            /\ Then(Resolving(Subschemas(infos[Arg.type].schema)[Arg.link], NoName)
                    \o Task("store", Arg))

\* What a call returned is stored in a link of a type.
Store == /\ Do("store") /\ Then(<<>>) /\ UNCHANGED <<ret, defs>>
         /\ KeepsOutput /\ NoError
         /\ infos' = [infos EXCEPT ![Arg.type].links[Arg.link] = ret]

Return == /\ Do("return") /\ Returns(Arg) /\ KeepsTypes /\ KeepsOutput /\ NoError

\* Mutant of ResolveRef: the names are not compared to their end.
ResolveRefFirst ==
    /\ Do("resolve") /\ Arg.schema.is = "ref" /\ KeepsTypes /\ KeepsOutput
    /\ \/ Arg.schema.to \in DOMAIN defs /\ Returns(defs[1].type) /\ NoError
       \/ Arg.schema.to \notin DOMAIN defs /\ Returns(NULL) /\ Error

\* resolve_ref
ResolveRef ==
    /\ Do("resolve") /\ Arg.schema.is = "ref" /\ KeepsTypes /\ KeepsOutput
    /\ \/ /\ Arg.schema.to \in DOMAIN defs
          /\ Returns(defs[Arg.schema.to].type) /\ NoError
       \/ Arg.schema.to \notin DOMAIN defs /\ Returns(NULL) /\ Error

ResolveBadRef == /\ Do("resolve") /\ Arg.schema.is = "badref"
                 /\ Returns(NULL) /\ Error /\ KeepsTypes /\ KeepsOutput

\* {"type": "array"} without additionalItems.
ResolveNothing == Do("resolve") /\ Arg.schema = None /\ Crash

\* resolve_type: the type is allocated, and its schema filled in.
ResolveType ==
    LET s == Arg.schema
    IN  /\ Do("resolve")
        /\ s.is \in {"object", "array", "scalar", "any", "wrong"}
        /\ s.is = "array" => Arg.name # NoName
        /\ UNCHANGED defs /\ KeepsOutput
        /\ \E t \in NewTypes :
              /\ AllocType(s, Arg.name, t) /\ ret' = t
              /\ Then(IF t = NULL THEN <<>> ELSE Task("fill", t) \o Task("return", t))

\* alloc_array without a name: the element's type is resolved first.
ResolveArray == /\ Do("resolve") /\ Arg.schema.is = "array" /\ Arg.name = NoName
                /\ Then(Resolving(Arg.schema.items, NoName) \o Task("array", Arg.schema))
                /\ UNCHANGED ret /\ KeepsTypes /\ KeepsOutput /\ NoError

NameArray ==
    /\ Do("array")
    /\ \/ ret = NULL /\ Crash
       \/ /\ ret # NULL /\ Returns(Len(infos) + 1)
          /\ infos' = Append(infos,
                 TypeInfo(Arg, Append(infos[ret].base_name, "array"), <<ret>>))
          /\ UNCHANGED defs /\ KeepsOutput /\ NoError

-----------------------------------------------------------------------------
(***************************************************************************)
(* Definitions.                                                            *)
(***************************************************************************)
Identified(s) ==
    [state |-> CASE s.is = "ref" /\ s.to \in DOMAIN doc.defs -> "DEF_REF"
                 [] s.is = "ref" /\ s.to \notin DOMAIN doc.defs -> "DEF_ERROR"
                 [] s.is = "badref" -> "DEF_ERROR"
                 [] OTHER -> "DEF_SCHEMA",
     type |-> NULL]

\* codegen_process_definitions, the first loops; a document may have none.
ProcessDefinitions ==
    LET all == [d \in DOMAIN doc.defs |-> d]
    IN  /\ Do("process")
        /\ \/ ~doc.present /\ Crash
           \/ /\ doc.present
              /\ defs' = [d \in DOMAIN doc.defs |-> Identified(doc.defs[d])]
              /\ errors' = \E d \in DOMAIN doc.defs : defs'[d].state = "DEF_ERROR"
              /\ Then(TaskFor("alloc", all) \o TaskFor("fill_definition", all)
                      \o Resolving(doc.main, Main) \o Task("codegen", NULL))
              /\ UNCHANGED <<infos, ret>> /\ KeepsOutput

\* alloc_definition, by the state of the definition.
AllocRef == LET d == Arg
            IN  /\ Do("alloc") /\ defs[d].state = "DEF_REF"
                /\ defs' = [defs EXCEPT ![d].state = "DEF_RESOLVING"]
                /\ Then(Task("alloc", doc.defs[d].to) \o Task("resolved", d))
                /\ UNCHANGED <<infos, ret>> /\ KeepsOutput /\ NoError

AllocSchema ==
    LET d == Arg
    IN  /\ Do("alloc") /\ defs[d].state = "DEF_SCHEMA" /\ KeepsOutput
        /\ \E t \in NewTypes :
              /\ AllocType(doc.defs[d], <<DefNames[d]>>, t) /\ Returns(t)
              /\ defs' = [defs EXCEPT ![d] = [state |-> "DEF_SCHEMA_TYPE", type |-> t]]

\* Mutant of AllocCircular: nothing is reported.
AllocCircularSilently ==
    /\ Do("alloc") /\ defs[Arg].state = "DEF_RESOLVING"
    /\ Returns(NULL) /\ NoError /\ KeepsTypes /\ KeepsOutput

AllocCircular == /\ Do("alloc") /\ defs[Arg].state = "DEF_RESOLVING"
                 /\ Returns(NULL) /\ Error /\ KeepsTypes /\ KeepsOutput

AllocDone == /\ Do("alloc")
             /\ defs[Arg].state \in {"DEF_SCHEMA_TYPE", "DEF_TYPE", "DEF_ERROR"}
             /\ Returns(defs[Arg].type) /\ NoError /\ KeepsTypes /\ KeepsOutput

\* alloc_definition returns to that of a reference.
Resolved ==
    /\ Do("resolved") /\ Returns(ret) /\ UNCHANGED infos /\ KeepsOutput /\ NoError
    /\ defs' = [defs EXCEPT ![Arg] =
                    [state |-> IF ret = NULL THEN "DEF_ERROR" ELSE "DEF_TYPE",
                     type |-> ret]]

FillDefinition ==
    LET def == defs[Arg]
    IN  /\ Do("fill_definition")
        /\ \/ def.state = "DEF_SCHEMA_TYPE" /\ def.type = NULL /\ Crash
           \/ /\ def.state = "DEF_SCHEMA_TYPE" => def.type # NULL
              /\ Then(IF def.state = "DEF_SCHEMA_TYPE"
                      THEN Task("fill", def.type) ELSE <<>>)
              /\ UNCHANGED ret /\ KeepsTypes /\ KeepsOutput /\ NoError

-----------------------------------------------------------------------------
(***************************************************************************)
(* The output.                                                             *)
(***************************************************************************)
\* do_codegen once all the types are there, and codegen_open_output_files.
DoCodegen ==
    LET all == [d \in DOMAIN defs |-> d]
    IN  /\ Do("codegen") /\ UNCHANGED <<ret, header, macros>> /\ KeepsTypes
        /\ \/ errors /\ UNCHANGED files /\ NoError /\ Then(Task("exit", NULL))
           \/ /\ ~errors /\ files' \in {{}, {"c"}} /\ Error
              /\ Then(Task("exit", NULL))
           \/ /\ ~errors /\ files' = {"c", "h"} /\ NoError
              /\ Then(Task("define", ret) \o TaskFor("define_definition", all)
                      \o Task("exit", NULL))

DefineDefinition ==
    /\ Do("define_definition") /\ UNCHANGED ret /\ KeepsTypes /\ KeepsOutput
    /\ Then(IF defs[Arg].state = "DEF_SCHEMA_TYPE"
            THEN Task("define", defs[Arg].type) ELSE <<>>)
    /\ NoError

\* define_type, and the head of struct_define.
DefineType ==
    LET t == Arg
    IN  /\ Do("define") /\ UNCHANGED <<ret, defs>> /\ KeepsOutput /\ NoError
        /\ \/ infos[t].defined # "NOT_DEFINED" /\ Then(<<>>) /\ UNCHANGED infos
           \/ /\ infos[t].defined = "NOT_DEFINED"
              /\ infos' = [infos EXCEPT ![t].defined = "DEFINING"]
              /\ Then((IF IsStruct(t)
                       THEN TaskFor("define", MemberTypes(t)) \o Task("members", Extras(t))
                       ELSE <<>>)
                      \o Task("emit", t) \o Task("defined", t))

\* descriptor_ptr_expr: the member of a descriptor that stands for a type, in
\* a struct (OPTIONAL) or elsewhere (REQUIRED).
DescriptorPtr(t, optional) ==
    CASE IsStruct(t) -> [form |-> IF optional THEN "struct_ptr" ELSE "struct", of |-> t]
      [] IsArray(t) -> [form |-> "array", of |-> t]
      [] OTHER -> [form |-> "shim"]

\* The descriptors that the generated descriptor of a type refers to.
DescriptorLinks(t) ==
    IF IsArray(t) THEN <<DescriptorPtr(infos[t].links[1], FALSE)>>
    ELSE <<DescriptorPtr(Extras(t), FALSE)>>
         \o [i \in DOMAIN MemberTypes(t) |-> DescriptorPtr(MemberTypes(t)[i], TRUE)]

\* The struct of the type itself.
Emit == /\ Do("emit") /\ Then(<<>>) /\ UNCHANGED <<ret, macros, files>>
        /\ KeepsTypes /\ NoError
        /\ header' = Append(header, Declared("struct", Arg))

\* Mutant of Guarded: #define *_MEMBERS_DEFINED is forgotten.
GuardedNever(t, declarations) ==
    /\ header' = header \o declarations /\ UNCHANGED <<macros, files>>

\* #ifndef *_MEMBERS_DEFINED ... #endif; define_member_struct, if it is among
\* what is declared, defines the macro.
Guarded(t, declarations) ==
    /\ UNCHANGED files
    /\ IF infos[t].base_name \in macros THEN UNCHANGED <<header, macros>>
       ELSE /\ header' = header \o declarations
            /\ macros' = IF Declared("member", t) \in ToSet(declarations)
                         THEN macros \cup {infos[t].base_name} ELSE macros

\* The end of define_type.
Defined ==
    LET t == Arg
    IN  /\ Do("defined") /\ Then(<<>>) /\ UNCHANGED <<ret, defs>> /\ NoError
        /\ infos' = [infos EXCEPT ![t].defined = "DEFINED"]
        /\ \/ infos[t].named /\ Guarded(t, <<Declared("member", t)>>)
           \/ ~infos[t].named /\ KeepsOutput

\* Mutant of DefineMembersStruct: define_type is not called.
DefineMembersStructOnly ==
    /\ Do("members") /\ UNCHANGED ret /\ KeepsTypes /\ KeepsOutput /\ NoError
    /\ Then(IF infos[Arg].named THEN <<>> ELSE Task("emit_members", Arg))

\* define_members_struct
DefineMembersStruct ==
    /\ Do("members") /\ UNCHANGED ret /\ KeepsTypes /\ KeepsOutput /\ NoError
    /\ Then(IF infos[Arg].named THEN <<>>
            ELSE Task("define", Arg) \o Task("emit_members", Arg))

EmitMembers ==
    LET t == Arg
        members == Declared("members", t)
    IN  /\ Do("emit_members") /\ Then(<<>>) /\ UNCHANGED <<ret, defs>> /\ NoError
        /\ infos' = [infos EXCEPT ![t].named = TRUE]
        /\ Guarded(t, IF infos[t].defined = "DEFINED"
                      THEN <<Declared("member", t), members>> ELSE <<members>>)

\* schema_fini, called whether the file was read or not: what it frees is not
\* main's any more, or was never there.  It may also go well.
FiniCrashes == dest \in {"unset", "released"}

\* The end of main; codegen_delete_output_files.
Exit == /\ Do("exit") /\ work' = <<>> /\ KeepsTypes /\ NoError
        /\ UNCHANGED <<doc, dest, ret, header, macros>>
        /\ \/ errors /\ exit' = "error" /\ files' = {}
           \/ errors /\ FiniCrashes /\ exit' = "crashed" /\ files' = {}
           \/ ~errors /\ exit' = "ok" /\ UNCHANGED files

\* Nothing is left of the program but its files.
EmptyDocument == [main |-> AnyValue, defs |-> <<>>, present |-> TRUE]
Gone == /\ exit' = "gone" /\ doc' = EmptyDocument /\ dest' = "unset" /\ defs' = <<>>
        /\ infos' = Builtin /\ work' = <<>> /\ ret' = NULL /\ errors' = FALSE
        /\ header' = Included /\ macros' = {} /\ UNCHANGED files

\* xalloc and xsprintf: without memory it exits, wherever that is.
Die == exit = "running" /\ Gone

InitCompiler ==
    /\ doc \in Documents /\ dest = "unset" /\ defs = <<>> /\ infos = Builtin
    /\ work = Task("parse", NULL) /\ ret = NULL /\ errors = FALSE
    /\ header = Included /\ macros = {<<"eu_variant">>} /\ files = {}
    /\ exit = "running"

Runs == \/ ParseSchemaFile \/ ParseNothing \/ Fill \/ FillLink \/ Store \/ Return
        \/ ResolveRef \/ ResolveBadRef \/ ResolveNothing \/ ResolveType
        \/ ResolveArray \/ NameArray
        \/ ProcessDefinitions \/ AllocRef \/ AllocSchema \/ AllocCircular
        \/ AllocDone \/ Resolved \/ FillDefinition
        \/ DoCodegen \/ DefineDefinition \/ DefineType \/ Emit \/ Defined
        \/ DefineMembersStruct \/ EmitMembers \/ Exit

NextCompiler == Runs \/ Die

SpecCompiler == InitCompiler /\ [][NextCompiler]_compilerVars
                /\ WF_compilerVars(Runs)

-----------------------------------------------------------------------------
(***************************************************************************)
(* Properties.                                                             *)
(***************************************************************************)
TypeInfos == 1 .. Len(infos)
DefStates == {"DEF_SCHEMA", "DEF_REF", "DEF_RESOLVING", "DEF_SCHEMA_TYPE",
              "DEF_TYPE", "DEF_ERROR"}

\* The variables have the types their comments give, and types are linked to
\* types that exist.
TypeOKCompiler ==
    /\ doc \in Documents \cup {EmptyDocument} /\ dest \in Dests
    /\ \A d \in DOMAIN defs : /\ defs[d].state \in DefStates
                             /\ defs[d].type \in {NULL} \cup TypeInfos
    /\ \A t \in TypeInfos :
          /\ infos[t].defined \in {"NOT_DEFINED", "DEFINING", "DEFINED"}
          /\ infos[t].named \in BOOLEAN
          /\ DOMAIN infos[t].links = DOMAIN Subschemas(infos[t].schema)
          /\ ToSet(infos[t].links) \subseteq {NULL} \cup TypeInfos
    /\ ret \in {NULL} \cup TypeInfos /\ errors \in BOOLEAN
    /\ \A k \in DOMAIN header : /\ header[k].what \in {"struct", "member", "members"}
                               /\ header[k].type \in {NULL} \cup TypeInfos
    /\ macros \subseteq {infos[t].base_name : t \in TypeInfos}
    /\ files \subseteq {"c", "h"}
    /\ exit \in {"running", "ok", "error", "crashed", "gone"}

\* The definition to which one leads: itself if it is no reference.
Target(d) == IF doc.defs[d].is = "ref" /\ doc.defs[d].to \in DOMAIN doc.defs
             THEN doc.defs[d].to ELSE d

\* The definitions to which n steps lead, for each n that matters.
Leads ==
    LET leads[n \in 0 .. Len(doc.defs)] ==
            IF n = 0 THEN [d \in DOMAIN doc.defs |-> d]
            ELSE [d \in DOMAIN doc.defs |-> Target(leads[n - 1][d])]
    IN  leads

\* The definition at the end of the references that start at one.
EndOf == Leads[Len(doc.defs)]

\* What such references end at: it is still one if they are circular.
BadDefinition(d) == doc.defs[EndOf[d]].is \in {"ref", "badref", "wrong"}

\* A schema within another one that has no type.
BadSchema(s) == \/ s.is \in {"badref", "wrong"}
                \/ s.is = "object" /\ s.name = NoName
                \/ s.is = "ref" /\ s.to \notin DOMAIN doc.defs
                \/ s.is = "ref" /\ s.to \in DOMAIN doc.defs /\ BadDefinition(s.to)

Outer == ToSet(doc.defs) \cup {doc.main}
Within(schemas) == UNION {ToSet(Subschemas(s)) : s \in schemas} \ {None}
Inner == LET one == Within(Outer)
             two == Within({s \in one : ~BadSchema(s)})
         IN  one \cup two \cup Within({s \in two : ~BadSchema(s)})

\* What schemac has to report.
WrongDocument == \/ \E d \in DOMAIN doc.defs : BadDefinition(d)
                 \/ \E s \in Inner : BadSchema(s)
                 \/ doc.main.is \in {"badref", "wrong"}

\* What it does not survive: no definitions at all, a definition without a
\* type (fill_type is given NULL), an array without additionalItems, or an
\* array without a name of elements without a type (their base_name is read).
DeadlyDocument ==
    \/ ~doc.present
    \/ \E d \in DOMAIN doc.defs : doc.defs[d].is = "wrong"
    \/ \E s \in Outer \cup Inner : s.is = "array" /\ s.items = None
    \/ \E s \in Inner : s.is = "array" /\ s.items # None /\ BadSchema(s.items)

\* schemac generates code for every document without an error and for no
\* other, and leaves no files of one with an error.  It crashes only on the
\* documents that are known to be deadly, and where the file could not be
\* read: never after it has reported an error of a document that it has read.
\* That holds for every order of the definitions, and for references that are
\* circular or lead to errors.
ErrorsExact ==
    /\ Do("codegen") => (errors <=> WrongDocument) /\ ~DeadlyDocument
    /\ exit = "crashed" => DeadlyDocument \/ FiniCrashes
    /\ exit = "ok" => ~WrongDocument /\ files = {"c", "h"}
    /\ exit = "error" => files = {}

\* t is the type of the schema s.
TypeOf(s, t) ==
    CASE s = None -> t = NULL
      [] s.is = "ref" -> LET end == EndOf[s.to]
                         IN  /\ defs[end].state = "DEF_SCHEMA_TYPE"
                             /\ t = defs[end].type
                             /\ infos[t].schema = doc.defs[end]
      [] OTHER -> t # NULL /\ infos[t].schema = s

\* Every link of every type is the type at the end of the references in the
\* schema, the same one for all that refer to it; and when code is generated,
\* no link is missing, and u.type of every reference is that type.
ResolvedExact ==
    /\ \A t \in TypeInfos :
          LET parts == Subschemas(infos[t].schema)
          IN  \A i \in DOMAIN parts :
                 \/ infos[t].links[i] = NULL /\ files = {}
                 \/ TypeOf(parts[i], infos[t].links[i])
    /\ files # {} => \A d \in DOMAIN defs : defs[d].type = defs[EndOf[d]].type

\* Two types have the same name: two arrays that have none have elements of
\* the same type, or one has what euphemus.h calls eu_variant_array.
NamesClash == \/ \E t, u \in TypeInfos :
                    t # u /\ infos[t].base_name = infos[u].base_name
              \/ \E t \in TypeInfos, k \in DOMAIN Included :
                    infos[t].base_name = Included[k].name

\* Unless names clash, no struct is declared twice, however the types whose
\* definition is under way refer to each other.
EmittedOnce ==
    ~NamesClash => \A j, k \in DOMAIN header :
        /\ header[j].what = header[k].what /\ header[j].name = header[k].name
        => j = k

Declares(k, what, t) == header[k].what = what /\ header[k].type = t
Before(k, what, t) == \E j \in 1 .. k - 1 : Declares(j, what, t)
Emitted(what, t) == \E j \in DOMAIN header : Declares(j, what, t)
IsGenerated(t) == IsStruct(t) \/ IsArray(t)

\* The type of the document itself.
IsMain(t) == /\ infos[t].schema = doc.main
             /\ infos[t].base_name = Tag(doc.main, Main)

\* What the k-th declaration holds by value is complete: arrays and extras in
\* a struct, and the value of a member.
Complete(k) ==
    LET t == header[k].type
    IN  CASE header[k].what = "struct" /\ t # NULL /\ IsStruct(t) ->
               /\ \A m \in ToSet(MemberTypes(t)) :
                     IsArray(m) => Before(k, "struct", m)
               /\ Extras(t) # variant_type => Before(k, "members", Extras(t))
          [] header[k].what = "member" ->
               IsGenerated(t) => Before(k, "struct", t)
          [] OTHER -> TRUE

\* The header can be compiled as far as structs and their members go: what
\* is held by value is declared before, also when types refer to each other;
\* all types are declared to which a definition or a member of a declared
\* struct leads (not elements of arrays: array_define does not define their
\* type), and the *_member whose size the descriptors take.
HeaderWhole ==
    ~NamesClash =>
        /\ \A k \in DOMAIN header : Complete(k)
        /\ exit = "ok" =>
              \A t \in {u \in TypeInfos : IsGenerated(u)} :
                 /\ Emitted("struct", t) <=>
                       \/ \E d \in DOMAIN defs : t = defs[d].type
                       \/ IsMain(t)
                       \/ \E s \in TypeInfos :
                             /\ IsStruct(s) /\ Emitted("struct", s)
                             /\ t \in ToSet(infos[s].links)
                 /\ IsStruct(t) /\ Emitted("struct", t) /\ Extras(t) # variant_type
                    => Emitted("member", Extras(t))

\* schemac ends, also when references are circular or types recursive.
CompilerExits == <>(exit # "running")
=============================================================================
