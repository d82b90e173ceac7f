---------------------------- MODULE EuIntroduce ----------------------------
(***************************************************************************)
(* Metadata of generated types: eu_introduce (euphemus.c) with the         *)
(* functions for structs and arrays, over the descriptors that schemac     *)
(* generated.                                                              *)
(*                                                                         *)
(* A struct has two descriptors, struct_base and struct_ptr_base, and one  *)
(* block here stands for the memory of both their metadata and of the      *)
(* members that these share.  Metadata of a type that contains itself      *)
(* points to itself: the chain of activations is searched for it.          *)
(***************************************************************************)
EXTENDS Naturals, Sequences

CONSTANTS
    Types,          \* structs and arrays
    Blocks          \* the memory there is

ASSUME BlocksAssumption == Blocks \subseteq Nat \ {0}

Forms == {"struct", "struct_ptr", "array"}
Kinds == {"struct", "array", "none"}
Shims == {"shim"}

\* Descriptors: of a type of the library, or a form of a generated type.
Descriptors == [form : Shims] \cup [form : Forms, of : Types]
\* Pointers to metadata.
Pointers == [form : {"null"} \cup Shims] \cup [form : Forms, block : Blocks]
Null == [form |-> "null"]
Shim == [form |-> "shim"]

\* kind: what the type is (none: it is not there).  links: the descriptors of
\* the additional members and of the members, or of the elements.
TypeDescriptors == [kind : Kinds, links : Seq(Descriptors)]

VARIABLES
    types,          \* the types of the program
    metadata,       \* what has been allocated, and not freed
    published,      \* *d->metadata of a type's descriptors; 0: NULL
    calls,          \* the activations of introduce_struct and
                    \* eu_introduce_array, the latest first: the chain
    now,            \* what eu_introduce_aux does next
    spoiled         \* history: something is published that is incomplete

introduceVars == <<types, metadata, published, calls, now, spoiled>>

Idle == [at |-> "idle"]
Entering(d) == [at |-> "entering", descriptor |-> d]
Returning(m) == [at |-> "returning", result |-> m]

Live == DOMAIN metadata
Links(t) == types[t].links
Top == calls[1]
\* The link that the latest activation introduces.
LinkIndex(c) == Len(metadata[c.block].links) + 1

DescriptorsOf(t) ==
    CASE types[t].kind = "struct" -> [form : {"struct", "struct_ptr"}, of : {t}]
      [] types[t].kind = "array" -> [form : {"array"}, of : {t}]
      [] OTHER -> {}

\* Mutant of Metadata: a pointer to a struct is taken for the struct.
MetadataOfStruct(d, b) == [form |-> IF d.form = "array" THEN "array" ELSE "struct",
                           block |-> b]

\* The metadata for a descriptor within a block.
Metadata(d, b) == [form |-> d.form, block |-> b]

-----------------------------------------------------------------------------
\* The client calls eu_introduce.
EuIntroduce(d) == /\ now = Idle /\ now' = Entering(d)
                  /\ UNCHANGED <<types, metadata, published, calls, spoiled>>

\* It gets metadata, or fail_metadata for NULL.
Introduced == /\ now.at = "returning" /\ calls = <<>> /\ now' = Idle
              /\ UNCHANGED <<types, metadata, published, calls, spoiled>>

Enters == now.at = "entering"
D == now.descriptor
Known == \/ D.form \in Shims
         \/ D.form \in Forms /\ published[D.of] # 0

\* An activation has both descriptors of its struct in the chain.
InChain(c) == c.of = D.of
Active == {i \in DOMAIN calls : InChain(calls[i])}

\* eu_introduce_aux: there is metadata already
AuxKnown ==
    /\ Enters /\ Known
    /\ now' = Returning(IF D.form \in Shims THEN Shim
                        ELSE Metadata(D, published[D.of]))
    /\ UNCHANGED <<types, metadata, published, calls, spoiled>>

\* Mutant of AuxInChain: the loop does not advance.
AuxInChainFirst ==
    /\ Enters /\ ~Known
    /\ \E i \in Active \cap {1} : now' = Returning(Metadata(D, calls[i].block))
    /\ UNCHANGED <<types, metadata, published, calls, spoiled>>

\* or it is being made further up the stack.
AuxInChain ==
    /\ Enters /\ ~Known
    /\ \E i \in Active :
          /\ \A j \in Active : i <= j
          /\ now' = Returning(Metadata(D, calls[i].block))
    /\ UNCHANGED <<types, metadata, published, calls, spoiled>>

\* introduce_struct and eu_introduce_array begin: malloc succeeds,
Begins ==
    /\ Enters /\ ~Known /\ Active = {}
    /\ \E b \in Blocks \ Live :
          /\ metadata' = [x \in Live \cup {b} |->
                            IF x = b THEN [of |-> D.of, links |-> <<>>]
                            ELSE metadata[x]]
          /\ calls' = <<[of |-> D.of, form |-> D.form, block |-> b]>> \o calls
    /\ now' = Entering(Links(D.of)[1])
    /\ UNCHANGED <<types, published, spoiled>>

\* or fails, and what was got is freed.
OutOfMemory ==
    /\ Enters /\ ~Known /\ Active = {}
    /\ now' = Returning(Null)
    /\ UNCHANGED <<types, metadata, published, calls, spoiled>>

-----------------------------------------------------------------------------
(***************************************************************************)
(* A call of eu_introduce_aux returns to the latest activation.            *)
(***************************************************************************)
LinkReturns == now.at = "returning" /\ calls # <<>>
Kind(c) == types[c.of].kind

WithLink == [metadata EXCEPT ![Top.block].links = Append(@, now.result)]

\* The next link is introduced.
NextLink ==
    /\ LinkReturns /\ now.result # Null
    /\ LinkIndex(Top) < Len(Links(Top.of))
    /\ metadata' = WithLink
    /\ now' = Entering(Links(Top.of)[LinkIndex(Top) + 1])
    /\ UNCHANGED <<types, published, calls, spoiled>>

Publish(c) == [published EXCEPT ![c.of] = c.block]

\* All links are there.  An array does not look at its element's.
LastLink ==
    /\ LinkReturns
    /\ now.result = Null => Kind(Top) = "array"
    /\ LinkIndex(Top) = Len(Links(Top.of))
    /\ metadata' = WithLink
    /\ published' = Publish(Top)
    /\ calls' = Tail(calls)
    /\ now' = Returning(Metadata(Top, Top.block))
    /\ spoiled' = (spoiled \/ now.result = Null)
    /\ UNCHANGED types

\* Other metadata that points to a block.
LinkedFrom(b) == {x \in Live \ {b} :
                    \E i \in DOMAIN metadata[x].links :
                        /\ metadata[x].links[i].form \in Forms
                        /\ metadata[x].links[i].block = b}

\* Mutant of Freed: the error path does not free.
FreedNot(b) == metadata

\* Mutant of Freed: with what its links lead to.
FreedDeep(b) == [x \in Live \ ({b} \cup {c \in Live : b \in LinkedFrom(c)})
                   |-> metadata[x]]

Freed(b) == [x \in Live \ {b} |-> metadata[x]]

\* introduce_struct fails; metadata that was published meanwhile may point to
\* what is freed.
StructFails ==
    /\ LinkReturns /\ now.result = Null /\ Kind(Top) = "struct"
    /\ metadata' = Freed(Top.block)
    /\ calls' = Tail(calls)
    /\ now' = Returning(Null)
    /\ spoiled' = (spoiled \/ LinkedFrom(Top.block) # {})
    /\ UNCHANGED <<types, published>>

-----------------------------------------------------------------------------
InitIntroduce ==
    /\ metadata = <<>> /\ published = [t \in Types |-> 0]
    /\ calls = <<>> /\ now = Idle /\ spoiled = FALSE

\* A type has links to what there is: an array has one, a struct at least one.
WellLinked(ts) ==
    \A t \in Types :
        /\ ts[t].kind = "array" => Len(ts[t].links) = 1
        /\ ts[t].kind = "struct" => Len(ts[t].links) >= 1
        /\ \A i \in DOMAIN ts[t].links :
              LET d == ts[t].links[i]
              IN  \/ d.form = "shim"
                  \/ d.form = "array" /\ ts[d.of].kind = "array"
                  \/ d.form \in {"struct", "struct_ptr"} /\ ts[d.of].kind = "struct"

InitTypes == types \in [Types -> TypeDescriptors] /\ WellLinked(types)

\* eu_introduce at work; it is up to the client to call it.
Works == \/ Introduced \/ AuxKnown \/ AuxInChain \/ Begins \/ OutOfMemory
         \/ NextLink \/ LastLink \/ StructFails

NextIntroduce == Works \/ \E t \in Types : \E d \in DescriptorsOf(t) : EuIntroduce(d)

SpecIntroduce == InitTypes /\ InitIntroduce /\ [][NextIntroduce]_introduceVars

-----------------------------------------------------------------------------
\* The variables have the types their comments give.
TypeOKIntroduce ==
    /\ types \in [Types -> TypeDescriptors] /\ WellLinked(types)
    /\ Live \subseteq Blocks
    /\ metadata \in [Live -> [of : Types, links : Seq(Pointers)]]
    /\ published \in [Types -> Live \cup {0}]
    /\ calls \in Seq([of : Types, form : Forms, block : Live])
    /\ now \in {Idle} \cup [at : {"entering"}, descriptor : Descriptors]
                     \cup [at : {"returning"}, result : Pointers]
    /\ spoiled \in BOOLEAN

\* Every type has at most one piece of metadata, published or being made, and
\* there is no other in memory: nothing leaks, whatever fails.
OneMetadata ==
    /\ \A b \in Live : \/ published[metadata[b].of] = b
                       \/ \E i \in DOMAIN calls : calls[i].block = b
    /\ \A t \in Types : published[t] # 0 => metadata[published[t]].of = t
    /\ \A i \in DOMAIN calls :
          /\ metadata[calls[i].block].of = calls[i].of
          /\ published[calls[i].of] = 0
          /\ \A j \in DOMAIN calls : calls[i].of = calls[j].of => i = j

\* p is the published metadata for the descriptor d.
Published(d, p) == \/ d.form = "shim" /\ p = Shim
                   \/ /\ d.form \in Forms /\ published[d.of] # 0
                      /\ p = [form |-> d.form, block |-> published[d.of]]

\* When eu_introduce has returned, published metadata is complete and leads
\* only to published metadata, each link to that of the descriptor it was made
\* for: no parser can meet a type that is not there.  The exceptions are known
\* and come of a failed allocation: an array without its element's metadata,
\* and metadata that refers to a type around it which failed later.
LinksPublished ==
    calls = <<>> /\ ~spoiled =>
        \A t \in Types : published[t] # 0 =>
            LET links == metadata[published[t]].links
            IN  /\ Len(links) = Len(Links(t))
                /\ \A i \in DOMAIN links : Published(Links(t)[i], links[i])

\* Metadata that has been published stays as it is, for as long as the program
\* runs: values and parsers keep pointers to it.
PublishedStays ==
    [][\A t \in Types : published[t] # 0 =>
          /\ published'[t] = published[t]
          /\ published[t] \in DOMAIN metadata'
          /\ metadata'[published[t]] = metadata[published[t]]]_introduceVars

\* eu_introduce returns, also for types that contain themselves.
IntroduceReturns == now # Idle ~> now = Idle
=============================================================================
