----------------------------- MODULE BridgeValues ------------------------------
(***************************************************************************)
(* parseBridgeValue() of protocol/bridge-value.ts: the check every value   *)
(* passes before it crosses the bridge, in both directions.  The value is  *)
(* a graph of objects, which may share objects and may be cyclic; the      *)
(* check walks it without recursion, with a stack of frames to enter and   *)
(* to exit and the set of the objects it is inside of.                     *)
(*                                                                         *)
(* The walk is compared with what it decides: whether the tree the value   *)
(* unfolds to is finite, legal and within the limits.  Names and texts are *)
(* reduced to their bytes: each key of an object has one, except in an     *)
(* object with a key longer than any string may be.  Arrays are objects    *)
(* whose own `length' is no key.                                           *)
(***************************************************************************)
EXTENDS Integers, Sequences, FiniteSets, SequencesExt, FiniteSetsExt

CONSTANTS
  Objects,        \* the objects a value is made of
  Root,           \* the one that is checked
  FewObjects,     \* those a value with things that may not cross is made of
  MaxKeys,        \* bound: the own keys of an object
  Depths, EntryLimits, ByteLimits   \* the limits to check with

ASSUME ConstantsAssumption ==
  /\ IsFiniteSet(Objects) /\ Root \in FewObjects /\ FewObjects \subseteq Objects
  /\ MaxKeys \in Nat
  /\ Depths \subseteq Nat /\ EntryLimits \subseteq Nat
  /\ ByteLimits \subseteq Nat

NoLimit == -1     \* maxTotalBytes is not given
NumObjects == Cardinality(Objects)

\* Values that are no objects: their bytes on top of the 8 every value counts.
Primitives == {"number", "text"}
Extra(value) == IF value = "text" THEN 2 ELSE 0
TooLong == "long text"
Unsupported == "function"
Sorts == {"plain", "foreign prototype", "accessor", "long key"}

VARIABLES
  fields,     \* the values of the keys of each object
  sort,       \* what each object is
  limits,     \* PayloadLimits
  pending,    \* the stack of frames
  ancestors,  \* the objects that were entered and not left
  counted,    \* own keys
  totalBytes, \* bytes counted
  verdict     \* "none" | "accepted" | "invalid" | "limit"

parseVars == <<fields, sort, limits, pending, ancestors, counted, totalBytes, verdict>>

Enter(value, depth) == [kind |-> "enter", value |-> value, depth |-> depth]
Exit(object) == [kind |-> "exit", value |-> object, depth |-> 0]

\* Graphs of plain objects, and smaller ones with everything that is not allowed.
ParseInit ==
  /\ \/ /\ fields \in [Objects -> BoundedSeq(Objects \cup Primitives, MaxKeys)]
        /\ sort = [o \in Objects |-> "plain"]
     \/ \E few \in [FewObjects ->
              BoundedSeq(FewObjects \cup {"number", TooLong, Unsupported}, MaxKeys)] :
          /\ fields = [o \in Objects |-> IF o \in FewObjects THEN few[o] ELSE <<>>]
          /\ \E some \in [FewObjects -> Sorts] :
               sort = [o \in Objects |-> IF o \in FewObjects THEN some[o] ELSE "plain"]
  /\ limits \in [depth : Depths, entries : EntryLimits,
                bytes : ByteLimits \cup {NoLimit}]
  /\ pending = <<Enter(Root, 0)>>
  /\ ancestors = {}
  /\ counted = 0 /\ totalBytes = 0
  /\ verdict = "none"

-----------------------------------------------------------------------------
TooManyBytes(bytes) == limits.bytes # NoLimit /\ bytes > limits.bytes

TooDeep(depth) == depth > limits.depth

\* The checks of a frame in their order, with what a failed one reports.
LeafChecks(frame) ==
  << <<TooDeep(frame.depth), "limit">>,
     <<TooManyBytes(totalBytes + 8), "limit">>,
     <<frame.value = Unsupported, "invalid">>,
     <<frame.value = TooLong, "limit">>,
     <<TooManyBytes(totalBytes + 8 + Extra(frame.value)), "limit">> >>

ObjectChecks(frame) ==
  LET o == frame.value
      keys == Len(fields[o])
  IN
  << <<TooDeep(frame.depth), "limit">>,
     <<TooManyBytes(totalBytes + 8), "limit">>,
     <<o \in ancestors, "invalid">>,
     <<sort[o] = "foreign prototype", "invalid">>,
     <<sort[o] = "long key" /\ keys > 0, "limit">>,
     <<sort[o] = "accessor" /\ keys > 0, "invalid">>,
     <<counted + keys > limits.entries, "limit">>,
     <<TooManyBytes(totalBytes + 8 + keys), "limit">> >>

FailedBy(checks) ==
  LET failing == {i \in DOMAIN checks : checks[i][1]} IN
  IF failing = {} THEN "none" ELSE checks[Min(failing)][2]

Top == Last(pending)
Entering(isObject) ==
  verdict = "none" /\ pending # <<>> /\ Top.kind = "enter" /\ (Top.value \in Objects) = isObject

\* A number, a text or something that may not cross.
EnterLeaf ==
  /\ Entering(FALSE)
  /\ verdict' = FailedBy(LeafChecks(Top))
  /\ totalBytes' = IF verdict' = "none" THEN totalBytes + 8 + Extra(Top.value) ELSE totalBytes
  /\ pending' = Front(pending)
  /\ UNCHANGED <<fields, sort, limits, ancestors, counted>>

\* The frames of an object's values, the last of which is taken first.
Children(frame) ==
  [i \in DOMAIN fields[frame.value] |-> Enter(fields[frame.value][i], frame.depth + 1)]

\* An object or an array: its values are entered before it is left.
EnterObject ==
  LET keys == Len(fields[Top.value]) IN
  /\ Entering(TRUE)
  /\ verdict' = FailedBy(ObjectChecks(Top))
  /\ IF verdict' = "none"
     THEN /\ pending' = Front(pending) \o <<Exit(Top.value)>> \o Children(Top)
          /\ ancestors' = ancestors \cup {Top.value}
          /\ counted' = counted + keys
          /\ totalBytes' = totalBytes + 8 + keys
     ELSE UNCHANGED <<pending, ancestors, counted, totalBytes>>
  /\ UNCHANGED <<fields, sort, limits>>

\* Mutant: an object that was seen is never forgotten.
LeavingKeeps(object) == ancestors

Leaving(object) == ancestors \ {object}

Leave ==
  /\ verdict = "none" /\ pending # <<>> /\ Top.kind = "exit"
  /\ pending' = Front(pending)
  /\ ancestors' = Leaving(Top.value)
  /\ UNCHANGED <<fields, sort, limits, counted, totalBytes, verdict>>

Accept ==
  /\ verdict = "none" /\ pending = <<>>
  /\ verdict' = "accepted"
  /\ UNCHANGED <<fields, sort, limits, pending, ancestors, counted, totalBytes>>

ParseNext == EnterLeaf \/ EnterObject \/ Leave \/ Accept
ParseSpec == ParseInit /\ [][ParseNext]_parseVars

-----------------------------------------------------------------------------
(* The tree a value unfolds to *)

\* Below(values): the values one key below the values of a level, once for each way.
Below(values) ==
  FlattenSeq([i \in DOMAIN values |-> IF values[i] \in Objects THEN fields[values[i]] ELSE <<>>])

\* The levels of the tree, down to the first one that an acyclic value does not have.
Levels == FoldLeft(LAMBDA levels, n : Append(levels, Below(Last(levels))),
                   << <<Root>> >>, [n \in 1 .. NumObjects + 1 |-> n])

\* A way through more objects than there are comes back to one.
Cyclic(levels) == ToSet(levels[NumObjects + 1]) \cap Objects # {}

KeysOf(value) == IF value \in Objects THEN Len(fields[value]) ELSE 0
BytesOf(value) == 8 + KeysOf(value) + Extra(value)
Total(Of(_), levels) ==
  FoldLeft(LAMBDA sum, value : sum + Of(value), 0, FlattenSeq(levels))

SomeObject(levels, sorts) == \E o \in ToSet(FlattenSeq(levels)) \cap Objects : sort[o] \in sorts
SomeKeyOf(levels, sorts) ==
  \E o \in ToSet(FlattenSeq(levels)) \cap Objects : sort[o] \in sorts /\ KeysOf(o) > 0

Illegal(levels) ==
  \/ Unsupported \in ToSet(FlattenSeq(levels))
  \/ SomeObject(levels, {"foreign prototype"}) \/ SomeKeyOf(levels, {"accessor"})
Overlong(levels) ==
  TooLong \in ToSet(FlattenSeq(levels)) \/ SomeKeyOf(levels, {"long key"})
TooLarge(levels) ==
  \/ \E n \in DOMAIN levels : n - 1 > limits.depth /\ levels[n] # <<>>
  \/ Total(KeysOf, levels) > limits.entries
  \/ TooManyBytes(Total(BytesOf, levels))

\* The walk accepts a value exactly when the tree it unfolds to is finite, holds only
\* what may cross and is within every limit, an object that is shared counting as often
\* as it occurs; on the way the objects it is inside of are those it still has to leave,
\* each once, so that sharing is never taken for a cycle (bridge-value.ts, 162-238).
ParseDecides ==
  /\ LET exits == SelectSeq(pending, LAMBDA frame : frame.kind = "exit") IN
     /\ ancestors = {exits[i].value : i \in DOMAIN exits}
     /\ Cardinality(ancestors) = Len(exits)
  /\ verdict # "none" =>
       LET levels == Levels IN
       /\ verdict = "accepted"
            <=> ~(Cyclic(levels) \/ Illegal(levels) \/ Overlong(levels) \/ TooLarge(levels))
       /\ verdict = "accepted" =>
            counted = Total(KeysOf, levels)

\* What a rejection is reported as is true of the value: `limit' (PayloadLimitError,
\* which is counted apart) of one that exceeds a limit, a cyclic one exceeding them
\* all, and `invalid' of one that is cyclic or holds what may not cross.
RejectionIsTrue ==
  verdict \in {"limit", "invalid"} =>
    LET levels == Levels IN
    \/ Cyclic(levels)
    \/ verdict = "limit" /\ (Overlong(levels) \/ TooLarge(levels))
    \/ verdict = "invalid" /\ Illegal(levels)

\* The walk accepts exactly the values within the limits, and says truly why not.
ParsesExactly == ParseDecides /\ RejectionIsTrue
=============================================================================
