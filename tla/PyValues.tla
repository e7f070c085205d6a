----------------------------- MODULE PyValues ------------------------------
(***************************************************************************)
(* The Python values that the plugins' hooks receive and build.  A value   *)
(* is a record by type: a string holds a sequence of characters, a list    *)
(* its items, a dictionary its entries in order, and anything else is only *)
(* itself.                                                                 *)
(***************************************************************************)
EXTENDS Integers, SequencesExt

Str(text) == [type |-> "str", text |-> text]
List(items) == [type |-> "list", items |-> items]
Tuple(items) == [type |-> "tuple", items |-> items]
PySet(members) == [type |-> "set", items |-> SetToSeq(members)]
Dict(entries) == [type |-> "dict", entries |-> entries]
Object(attributes) == [type |-> "object", attributes |-> attributes]
Entry(key, v) == [key |-> key, value |-> v]
Number == [type |-> "number"]
None == [type |-> "None"]

IsText(v) == v.type = "str"
IsContainer(v) == v.type \in {"list", "dict"}
IsNested(v) == v.type \in {"list", "tuple", "set", "dict", "object"}
Children(v) ==
  CASE v.type = "dict" -> [i \in DOMAIN v.entries |-> v.entries[i].value]
    [] v.type = "object" -> <<v.attributes>>
    [] OTHER -> v.items
WithChildren(v, new) ==
  CASE v.type = "dict" -> Dict([i \in DOMAIN new |-> Entry(v.entries[i].key, new[i])])
    [] v.type = "object" -> Object(new[1])
    [] v.type = "set" -> PySet(ToSet(new))
    [] OTHER -> [v EXCEPT !.items = new]

Keys(dict) == {dict.entries[i].key : i \in DOMAIN dict.entries}
At(dict, key) == CHOOSE i \in DOMAIN dict.entries : dict.entries[i].key = key
Item(dict, key) == dict.entries[At(dict, key)].value
ReplaceKey(dict, key, v) == WithChildren(dict, [Children(dict) EXCEPT ![At(dict, key)] = v])
HasText(v, key) == v.type = "dict" /\ key \in Keys(v) /\ IsText(Item(v, key))

(* The strings of a value by their paths, a path being a sequence of       *)
(* positions; a member of a set has one in this value only.                *)
RECURSIVE Paths(_)
Paths(v) ==
  IF ~IsNested(v) THEN {<< >>}
  ELSE {<< >>} \cup
       UNION {{<<i>> \o p : p \in Paths(Children(v)[i])} : i \in DOMAIN Children(v)}

RECURSIVE Follow(_, _)
Follow(v, path) ==
  IF path = << >> THEN v ELSE Follow(Children(v)[Head(path)], Tail(path))

TextPaths(v) == {p \in Paths(v) : IsText(Follow(v, p))}

(* The same value with every string replaced.                              *)
RECURSIVE WithoutTexts(_)
WithoutTexts(v) ==
  IF IsText(v) THEN Str(<< >>)
  ELSE IF IsNested(v)
       THEN WithChildren(v, [i \in DOMAIN Children(v) |-> WithoutTexts(Children(v)[i])])
  ELSE v

(* A finite set in a strict order.                                         *)
InOrder(S, before(_, _)) ==
  [i \in 1..Cardinality(S) |->
     CHOOSE a \in S : Cardinality({b \in S : before(b, a)}) = i - 1]

(* Configurations are functions from the keys that are given.              *)
Given(raw, key, default) == IF key \in DOMAIN raw THEN raw[key] ELSE default
=============================================================================
