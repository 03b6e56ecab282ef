---------------------------- MODULE Registration -----------------------------
(***************************************************************************)
(* From an implementation to the API of a Renderer: main/registration.ts   *)
(* walks the implementation and the options of createBridgeServer() and    *)
(* builds the registration table and its manifest; renderer/               *)
(* create-renderer-api.ts checks a manifest again, entry by entry, and     *)
(* builds the API.  Both use protocol/operation-key.ts, Main on trees of   *)
(* names, the Renderer on the wire keys formatted from them.               *)
(*                                                                         *)
(* A leaf of an implementation, or of options.schemas, is the path of      *)
(* property names to it.  A wire key `category:domain/operation' is its    *)
(* category with the pieces that splitting the rest at `/' yields: joining *)
(* and splitting are Joined and Split below.  An API leaf has its property *)
(* names and the wire key its calls send.                                  *)
(*                                                                         *)
(* The order of the properties of an object is the user's: leaves, options *)
(* and the entries of a category are taken in any order.                   *)
(***************************************************************************)
EXTENDS Integers, Sequences, FiniteSets, SequencesExt

CONSTANTS
  AllNames,     \* the property names of the implementations of one operation
  SomeNames,    \* those of the implementations of two, and of the options
  Depth,        \* bound: how deep domains are nested
  MaxEntries    \* bound: how many entries the manifest of another Main has

\* The names that stand for a kind of their own: empty, dotted, with a slash, and
\* inherited by every plain object from Object.prototype.
Empty == ""
DottedNames == {"a.b"}
Slashed == [name \in {"a/b"} |-> <<"a", "b">>]
InheritedNames == {"toString"}

ASSUME NamesAssumption == SomeNames \subseteq AllNames /\ AllNames \subseteq STRING
ASSUME BoundAssumption == Depth \in Nat /\ MaxEntries \in Nat

Categories == <<"rpc", "state", "event">>
IsOperationCategory(name) == name \in ToSet(Categories)
Rank(category) == CHOOSE i \in DOMAIN Categories : Categories[i] = category

VARIABLES
  phase,      \* "registering" | "refused" | "serving" | "parsing" | "failed" | "connected"
  impl,       \* the leaves of the implementation
  schemas,    \* the leaves of options.schemas
  todo,       \* leaves and options not visited yet
  paths,      \* the OperationPathTrie in use: the paths of its leaves
  table,      \* the registration table: entries with their leaf, key and schema
  entries,    \* the manifest entries the Renderer has not read yet, in order
  api         \* the leaves of the Renderer's tree

vars == <<phase, impl, schemas, todo, paths, table, entries, api>>

-----------------------------------------------------------------------------
(* Names and keys *)

Split(name) == IF name \in DOMAIN Slashed THEN Slashed[name] ELSE <<name>>
Joined(names) ==
  IF names = <<>> THEN <<Empty>>
  ELSE FlattenSeq([i \in DOMAIN names |-> Split(names[i])])

Reserved == {"__proto__", "prototype", "constructor", "then"}

checkSegment(piece) == piece # Empty /\ piece \notin DottedNames \cup Reserved

checkDomainSegments(pieces) ==
  /\ \A i \in DOMAIN pieces : checkSegment(pieces[i]) /\ ~IsOperationCategory(pieces[i])
  /\ pieces[1] # "dispose"

checkOperationName(name) == Len(Split(name)) = 1 /\ checkSegment(name)

\* Mutant: `/' is allowed in the name of a namespace.
assertNamespaceKeySlashed(name) ==
  \A i \in DOMAIN Split(name) : checkSegment(Split(name)[i])

assertNamespaceKey(name) == Len(Split(name)) = 1 /\ checkSegment(name)

formatWireKey(leaf) ==
  [category |-> leaf.category, path |-> Joined(leaf.domain) \o Split(leaf.operation)]

\* parseWireKey accepts the key.
parseWireKey(key) ==
  LET domain == IF Len(key.path) = 1 THEN <<Empty>> ELSE Front(key.path) IN
  /\ IsOperationCategory(key.category)
  /\ checkDomainSegments(domain)
  /\ checkSegment(Last(key.path))

\* OperationPathTrie.add accepts the path: no operation is on it or beyond it.
Fits(path) == \A other \in paths : ~IsPrefix(other, path) /\ ~IsPrefix(path, other)

-----------------------------------------------------------------------------
(* Implementations, options and foreign manifests to start from *)

Leaves(names) ==
  [domain : BoundedSeq(names, Depth), category : ToSet(Categories), operation : names]

Implementations ==
  {{leaf} : leaf \in Leaves(AllNames)}
    \cup {{leaf, other} : leaf, other \in Leaves(SomeNames)}

\* Options for some of the operations, and for an implementation of one operation
\* for one more that it may not have.
OptionsFor(leaves) ==
  SUBSET leaves
    \cup {some \cup {other} :
            some \in SUBSET leaves,
            other \in IF Cardinality(leaves) = 1 THEN Leaves(SomeNames) ELSE leaves}

\* What a Main of another version may send: keys of any category in any list.
Entries(names) ==
  [list : ToSet(Categories),
   key : [category : ToSet(Categories) \cup {"other"},
          path : BoundedSeq(names, Depth + 1) \ {<<>>}]]
ForeignManifests ==
  {<<entry>> : entry \in Entries(AllNames \ DOMAIN Slashed)}
    \cup {manifest \in BoundedSeq(Entries(SomeNames \ DOMAIN Slashed), MaxEntries) :
            \A i, j \in DOMAIN manifest :
              i <= j => Rank(manifest[i].list) <= Rank(manifest[j].list)}

InitRegistering ==
  /\ phase = "registering"
  /\ impl \in Implementations
  /\ schemas \in OptionsFor(impl)
  /\ entries = <<>>

InitForeign ==
  /\ phase = "parsing"
  /\ impl = {} /\ schemas = {}
  /\ entries \in ForeignManifests

Init ==
  /\ InitRegistering \/ InitForeign
  /\ todo = impl
  /\ paths = {} /\ table = {} /\ api = {}

-----------------------------------------------------------------------------
(* Main: buildRegistrationTableFromImpl *)

\* The walk takes the categories of a node in order, and then its namespaces.
Before(leaf, other) ==
  \/ leaf.domain = other.domain /\ Rank(leaf.category) < Rank(other.category)
  \/ IsStrictPrefix(leaf.domain, other.domain)

\* The names on the way to a leaf are allowed.
NamesAllowed(leaf) ==
  /\ \A i \in DOMAIN leaf.domain : assertNamespaceKey(leaf.domain[i])
  /\ checkDomainSegments(Joined(leaf.domain))
  /\ checkOperationName(leaf.operation)

\* The records of options.schemas the walk finds: those of a domain, and of a
\* category in it.
RecordOf(domain) == \E option \in schemas : IsPrefix(domain, option.domain)
CategoryRecordOf(leaf) ==
  \E option \in schemas :
    option.domain = leaf.domain /\ option.category = leaf.category

\* Looking a name up in a record of the options that does not have it finds what
\* plain objects inherit: a function where a namespace is expected is refused.
NamespacesRead(leaf) ==
  \A i \in DOMAIN leaf.domain :
    LET above == SubSeq(leaf.domain, 1, i - 1) IN
    leaf.domain[i] \in InheritedNames /\ RecordOf(above)
      => RecordOf(SubSeq(leaf.domain, 1, i))

\* The schema an entry is read with.
SchemaOf(leaf) ==
  CASE leaf \in schemas -> "own"
    [] leaf \notin schemas /\ CategoryRecordOf(leaf)
         /\ leaf.operation \in InheritedNames -> "inherited"
    [] OTHER -> "none"

\* readRpcEntry takes no function for a schema; the other two take it.
SchemaAllowed(leaf) == leaf.category = "rpc" => SchemaOf(leaf) # "inherited"

Entry(leaf) == [leaf |-> leaf, key |-> formatWireKey(leaf), schema |-> SchemaOf(leaf)]

\* walkImplNode at one operation.
Register(leaf) ==
  LET path == formatWireKey(leaf).path
      accepted == NamespacesRead(leaf) /\ NamesAllowed(leaf) /\ Fits(path)
                    /\ SchemaAllowed(leaf)
  IN
  /\ phase = "registering" /\ leaf \in todo
  /\ \A other \in todo : ~Before(other, leaf)
  /\ phase' = IF accepted THEN phase ELSE "refused"
  /\ todo' = todo \ {leaf}
  /\ paths' = IF accepted THEN paths \cup {path} ELSE paths
  /\ table' = IF accepted THEN table \cup {Entry(leaf)} ELSE table
  /\ UNCHANGED <<impl, schemas, entries, api>>

\* Mutant: `/' is not looked for.
OptionMatchesKey(option) ==
  \E entry \in table : entry.key = formatWireKey(option)

\* assertNoExtraOptionPaths accepts an operation of the options.
OptionMatches(option) ==
  /\ \A i \in DOMAIN option.domain : Len(Split(option.domain[i])) = 1
  /\ Len(Split(option.operation)) = 1
  /\ \E entry \in table : entry.key = formatWireKey(option)

\* The walk is over: the options are checked, and the server is created or not.
CheckOptions ==
  /\ phase = "registering" /\ todo = {}
  /\ phase' = IF \A option \in schemas : OptionMatches(option)
              THEN "serving" ELSE "refused"
  /\ UNCHANGED <<impl, schemas, todo, paths, table, entries, api>>

\* manifestFromTable: the keys of the table, by category.
manifestFromTable ==
  {[list |-> entry.leaf.category, key |-> entry.key] : entry \in table}

\* A document connects: its Renderer gets the manifest.
Connect ==
  /\ phase = "serving"
  /\ phase' = "parsing"
  /\ entries' \in {manifest \in SetToSeqs(manifestFromTable) :
                     \A i, j \in DOMAIN manifest :
                       i <= j => Rank(manifest[i].list) <= Rank(manifest[j].list)}
  /\ paths' = {}
  /\ UNCHANGED <<impl, schemas, todo, table, api>>

-----------------------------------------------------------------------------
(* Renderer: parseHandshake and createRendererApi *)

ApiLeaf(entry) ==
  [path |-> Front(entry.key.path) \o <<entry.list, Last(entry.key.path)>>,
   key |-> entry.key]

\* Mutant: the list an entry is in is taken for its category.
AcceptedInAnyList(entry) == parseWireKey(entry.key) /\ Fits(entry.key.path)

\* addManifestPath accepts an entry.
Accepted(entry) ==
  /\ parseWireKey(entry.key)
  /\ entry.key.category = entry.list
  /\ Fits(entry.key.path)

\* One entry of the manifest is read.
addManifestPath ==
  LET entry == Head(entries) IN
  /\ phase = "parsing" /\ entries # <<>>
  /\ entries' = Tail(entries)
  /\ IF Accepted(entry)
     THEN /\ paths' = paths \cup {entry.key.path}
          /\ api' = api \cup {ApiLeaf(entry)}
          /\ UNCHANGED phase
     ELSE phase' = "failed" /\ UNCHANGED <<paths, api>>
  /\ UNCHANGED <<impl, schemas, todo, table>>

\* The tree becomes the API.  Its properties cannot be redefined: defining dispose()
\* throws when the tree has one at its root.
createRendererApi ==
  /\ phase = "parsing" /\ entries = <<>>
  /\ phase' = IF \E leaf \in api : leaf.path[1] = "dispose"
              THEN "failed" ELSE "connected"
  /\ UNCHANGED <<impl, schemas, todo, paths, table, entries, api>>

Next ==
  \/ \E leaf \in todo : Register(leaf)
  \/ CheckOptions \/ Connect \/ addManifestPath \/ createRendererApi

Spec == Init /\ [][Next]_vars

-----------------------------------------------------------------------------
\* The manifest came from this Main.
Own == impl # {} \/ table # {}
Registered == phase \in {"serving", "parsing", "connected", "failed"}

TypeOK ==
  /\ phase \in {"registering", "refused", "serving", "parsing", "failed", "connected"}
  /\ todo \subseteq impl
  /\ \A entry \in table :
       entry.leaf \in impl /\ entry.schema \in {"own", "none", "inherited"}
  /\ \A leaf \in api : leaf.key.path \in paths

\* An implementation is well formed when every name on the way to an operation is
\* plain, no domain is empty, called like a category or, at the root, dispose, and
\* no operation is where another one, of whatever category, or its domain is.
PlainName(name) ==
  name \notin {Empty} \cup DottedNames \cup DOMAIN Slashed \cup Reserved
WellNamed(leaf) ==
  /\ leaf.domain # <<>> /\ leaf.domain[1] # "dispose" /\ PlainName(leaf.operation)
  /\ \A i \in DOMAIN leaf.domain :
       PlainName(leaf.domain[i]) /\ ~IsOperationCategory(leaf.domain[i])
PathOf(leaf) == Append(leaf.domain, leaf.operation)
WellFormed ==
  /\ \A leaf \in impl : WellNamed(leaf)
  /\ \A leaf, other \in impl : leaf # other => ~IsPrefix(PathOf(leaf), PathOf(other))
  /\ schemas \subseteq impl

\* Whatever the order in which the walk meets the operations, the server is created
\* exactly for a well-formed implementation whose options name its operations
\* (docs/design/01-contract.md, 2): no good implementation is refused, and no two
\* operations that would share a key or a path get through.
RegistrationDecides ==
  Own => (Registered => WellFormed) /\ (phase = "refused" => ~WellFormed)

\* The options that were accepted are exactly the schemas in use: each was read for
\* the operation it names, and none for another one or for nothing.
SchemasAreUsed ==
  Own /\ Registered =>
    {entry.leaf : entry \in {e \in table : e.schema = "own"}} = schemas

\* The walk and the check of the options agree on what is registered.
TableCorrect == TypeOK /\ RegistrationDecides /\ SchemasAreUsed

\* What Main serves the Renderer accepts, although it trusts nothing of it, and its
\* API has every operation where the implementation has it, and nothing else.
OwnManifestConnects ==
  Own =>
    /\ phase # "failed"
    /\ phase = "connected" =>
         api = {[path |-> leaf.domain \o <<leaf.category, leaf.operation>>,
                 key |-> formatWireKey(leaf)] : leaf \in impl}

\* Whatever a manifest holds, the API built from it is a tree: no operation is in the
\* way of another one or of dispose(), none makes it a thenable, and the category on
\* the way to an operation is the one of the key it sends.
ApiIsATree ==
  phase = "connected" =>
    /\ \A leaf, other \in api : leaf # other => ~IsPrefix(leaf.path, other.path)
    /\ \A leaf \in api :
         /\ leaf.path[1] \notin {"dispose", "then"}
         /\ leaf.path[Len(leaf.path) - 1] = leaf.key.category
         /\ Cardinality({i \in DOMAIN leaf.path : i < Len(leaf.path)
                           /\ IsOperationCategory(leaf.path[i])}) = 1

\* A schema an operation was not given is undefined for it (main/registration.ts:296).
NothingInherited == \A entry \in table : entry.schema # "inherited"
=============================================================================
