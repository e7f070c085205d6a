------------------------------ MODULE ScanGraph ------------------------------
(***************************************************************************)
(* secrets_detection scans and redacts Python data: containers that may be *)
(* shared and cyclic (scanner/python_scan.rs), on behalf of a hook         *)
(* (plugin.rs, scan_payload_attr).  A first pass counts; if it finds       *)
(* something and redact is on, a second pass rebuilds the data.            *)
(*                                                                         *)
(* A container is a record of its kind and its values; an object holds     *)
(* attributes (kids) and values under keys of __dict__ that are no strings *)
(* (extras).  A string is Secret or Redacted.  The recursion is a stack of *)
(* frames; a string or a back-reference is scanned in the step that meets  *)
(* it.  model_dump and the state it serialises are not modelled.           *)
(***************************************************************************)
EXTENDS Integers, Sequences, FiniteSets, Functions

CONSTANTS Graphs,       \* the data a hook may be given: functions from 1..n to containers
          Configs,      \* the configurations
          Keys,         \* the keys of a dict and the names of an object's attributes, in order
          Secret,       \* a string in which a pattern finds a secret
          Redacted      \* a string without one

Root == 1
None == 0
Strings == {Secret, Redacted}
Kinds == {"dict", "list", "tuple", "object"}

\* Containers numbered 1..n that hold strings and one another.
Values(n) == (1..n) \cup Strings
GraphsOn(n) == [1..n -> [kind: Kinds, kids: Seq(Values(n)), extras: Seq(Values(n))]]

\* Only a dict and an object name their values, and only an object has values under other keys.
Named(c) == c.kind \in {"dict", "object"}
WellFormed(c) == /\ Named(c) => Len(c.kids) <= Len(Keys)
                 /\ c.kind # "object" => c.extras = <<>>

ASSUME ScanAssumption ==
    /\ Secret # Redacted
    /\ Strings \cap Nat = {}
    /\ Keys \in Seq(STRING)
    /\ \A g \in Graphs : /\ IsFiniteSet(DOMAIN g) /\ Root \in DOMAIN g
                         /\ g \in GraphsOn(Cardinality(DOMAIN g))
                         /\ \A i \in DOMAIN g : WellFormed(g[i])
    /\ \A c \in Configs : /\ c.min \in Nat /\ c.redact \in BOOLEAN /\ c.block \in BOOLEAN
                          /\ c.allow \subseteq Seq(STRING) /\ c.deny \subseteq Seq(STRING)

VARIABLES original,     \* the data as the gateway sent it
          config,       \* the plugin's configuration
          heap,         \* all containers: the original ones and those a scan made
          pass,         \* "find", "redact", "done"
          stack,        \* the calls in progress, the innermost last
          seen,         \* containers being scanned
          memo,         \* what stands for a container while it is being scanned
          found,        \* what the first pass counted
          answer        \* the result of the hook

vars == <<original, config, heap, pass, stack, seen, memo, found, answer>>

-----------------------------------------------------------------------------
(* config.rs: which field paths are scanned and traversed.                 *)

StartsWith(path, prefix) ==
    /\ Len(path) >= Len(prefix)
    /\ \A i \in 1..Len(prefix) : path[i] = prefix[i]

DeniedExactly(path) == path \in config.deny                   \* mutant
Denied(path) == \E p \in config.deny : StartsWith(path, p)

ShouldScan(path) ==
    /\ ~Denied(path)
    /\ config.allow = {} \/ \E p \in config.allow : StartsWith(path, p)

ShouldTraverse(path) ==
    \/ path = <<>>
    \/ /\ ~Denied(path)
       /\ \/ config.allow = {}
          \/ \E p \in config.allow : StartsWith(path, p) \/ StartsWith(p, path)

-----------------------------------------------------------------------------
(* Frames.                                                                 *)

Blank(kind) == [kind |-> kind, kids |-> <<>>, extras |-> <<>>]
Fresh == Cardinality(DOMAIN heap) + 1
Bind(f, x, v) == [y \in DOMAIN f \cup {x} |-> IF y = x THEN v ELSE f[y]]
Add(container) == Bind(heap, Fresh, container)

Top == stack[Len(stack)]
Below == SubSeq(stack, 1, Len(stack) - 1)
Part(f) == IF f.part = "kids" THEN heap[f.node].kids ELSE heap[f.node].extras
Exhausted(f) == Len(f.values) = Len(Part(f))
Child == Part(Top)[Len(Top.values) + 1]

\* Only keys that are strings are part of a path.
ChildPath ==
    IF Top.part = "kids" /\ Named(heap[Top.node])
        THEN Append(Top.path, Keys[Len(Top.values) + 1])
        ELSE Top.path

\* rebuild_state of an object: its __dict__ if all keys are strings, else what string keys hold.
HasRebuildState(o) == heap[o].kids # <<>> \/ heap[o].extras = <<>>

Frame(node, path, part, copy) ==
    [node |-> node, path |-> path, part |-> part, copy |-> copy,
     values |-> <<>>, partCount |-> 0, count |-> 0, rebuilt |-> FALSE]

\* What a call makes before it looks at its first value.
CopyKind(node) == IF heap[node].kind = "tuple" THEN "list" ELSE heap[node].kind
FirstPart(node) ==
    IF heap[node].kind = "object" /\ ~HasRebuildState(node) THEN "extras" ELSE "kids"

Marked(node) == seen \cup {node}
Unmark(node) == seen \ {node}

Enter(node, path, frames) ==
    /\ seen' = Marked(node)
    /\ IF pass' = "redact"
       THEN /\ heap' = Add(Blank(CopyKind(node)))
            /\ memo' = Bind(memo, node, Fresh)
            /\ stack' = Append(frames, Frame(node, path, FirstPart(node), Fresh))
       ELSE /\ UNCHANGED <<heap, memo>>
            /\ stack' = Append(frames, Frame(node, path, FirstPart(node), None))

InPlace(f) == f.node                                          \* mutant
Made(f) == f.copy

\* A dict or a list takes each value at once, the others when they are complete.
Accept(frames, h, value, n) ==
    LET f == frames[Len(frames)]
    IN  /\ stack' = [frames EXCEPT ![Len(frames)] =
                        [f EXCEPT !.values = Append(@, value), !.partCount = @ + n]]
        /\ heap' = IF f.copy # None /\ heap[f.node].kind \in {"dict", "list"}
                       THEN [h EXCEPT ![Made(f)].kids = Append(@, value)]
                       ELSE h

-----------------------------------------------------------------------------
(* The values of a frame, one at a time.                                   *)

Scanning == /\ pass # "done"
            /\ ~Exhausted(Top)

ScanString ==
    /\ Scanning
    /\ Child \in Strings
    /\ LET hit == Child = Secret /\ ShouldScan(ChildPath)
       IN  Accept(stack, heap, IF hit THEN Redacted ELSE Child, IF hit THEN 1 ELSE 0)
    /\ UNCHANGED <<original, config, pass, seen, memo, found, answer>>

\* The first pass does not enter what no configured field leads to, the second enters everything.
SkipField ==
    /\ Scanning
    /\ pass = "find"
    /\ Child \notin Strings
    /\ ~ShouldTraverse(ChildPath)
    /\ Accept(stack, heap, Child, 0)
    /\ UNCHANGED <<original, config, pass, seen, memo, found, answer>>

Enterable == /\ Scanning
             /\ Child \notin Strings
             /\ (pass = "find") => ShouldTraverse(ChildPath)

Itself(c) == c                                                \* mutant
StandIn(c) == IF c \in DOMAIN memo THEN memo[c] ELSE c

BackReference ==
    /\ Enterable
    /\ Child \in seen
    /\ Accept(stack, heap, StandIn(Child), 0)
    /\ UNCHANGED <<original, config, pass, seen, memo, found, answer>>

Descend ==
    /\ Enterable
    /\ Child \notin seen
    /\ UNCHANGED <<original, config, pass, found, answer>>
    /\ Enter(Child, ChildPath, stack)

-----------------------------------------------------------------------------
(* What a complete frame returns.                                          *)

\* All that Steps leads to from a set, in at most bound steps.
Closure(Steps(_), from, bound) ==
    LET layer[n \in 0..bound] == IF n = 0 THEN from ELSE Steps(layer[n - 1])
    IN  UNION {layer[n] : n \in 0..bound}

\* Values that can be reached from v in the heap h.
ReachableIn(h, v) ==
    LET Held(S) == UNION {Range(h[i].kids) \cup Range(h[i].extras) : i \in S \ Strings}
    IN  Closure(Held, {v}, Cardinality(DOMAIN h))

Substitute(s, placeholder, replacement) ==
    [i \in DOMAIN s |-> IF s[i] = placeholder THEN replacement ELSE s[i]]

PlaceholderStays(h, v, placeholder, replacement) == h         \* mutant

\* A tuple cannot be assigned to: its own items are walked, never compared.
ReplacePlaceholder(h, v, placeholder, replacement) ==
    LET walked == ReachableIn(h, v)
    IN  [i \in DOMAIN h |->
            IF i \in walked /\ h[i].kind # "tuple"
                THEN [h[i] EXCEPT !.kids = Substitute(@, placeholder, replacement),
                                  !.extras = Substitute(@, placeholder, replacement)]
                ELSE h[i]]

\* values_equal: equal strings, the same object, or containers that agree item by item;
\* a pair that is already being compared counts as equal.
SameItems(h, s, t) ==
    LET Comparable(p) == /\ p[1] # p[2]
                         /\ \A i \in 1..2 : p[i] \notin Strings
                         /\ h[p[1]].kind = h[p[2]].kind
                         /\ h[p[1]].kind # "object"
                         /\ Len(h[p[1]].kids) = Len(h[p[2]].kids)
        Items(p) == {<<h[p[1]].kids[i], h[p[2]].kids[i]>> : i \in DOMAIN h[p[1]].kids}
        Steps(P) == UNION {Items(p) : p \in {q \in P : Comparable(q)}}
        pairs == Closure(Steps, {<<s[i], t[i]>> : i \in DOMAIN s \cap DOMAIN t}, Cardinality(DOMAIN h))
    IN  /\ Len(s) = Len(t)
        /\ \A p \in pairs : p[1] = p[2] \/ Comparable(p)

Complete(kind) == /\ pass # "done"
                  /\ Exhausted(Top)
                  /\ heap[Top.node].kind = kind

ShouldBlock(count) == config.block /\ count >= config.min

\* scan_payload_attr with what the scans returned: the verdict, the payload, the metrics.
Answer(count, value) ==
    [continue |-> ~ShouldBlock(count),
     payload  |-> IF config.redact /\ count # 0 THEN value ELSE Root,
     count    |-> count,
     outcome  |-> CASE ShouldBlock(count) -> "blocked"
                    [] ~ShouldBlock(count) /\ config.redact /\ count # 0 -> "masked"
                    [] OTHER -> "none"]

OncePerPass(node) == IF pass = "find" THEN seen ELSE Unmark(node)  \* mutant
Released(node) == Unmark(node)

\* The innermost call returns value and count with the heap h.
Return(h, value, count) ==
    /\ UNCHANGED <<original, config>>
    /\ IF Len(stack) > 1
       THEN /\ Accept(Below, h, value, count)
            /\ seen' = Released(Top.node)
            /\ memo' = IF heap[Top.node].kind \in {"tuple", "object"}
                           THEN Restrict(memo, DOMAIN memo \ {Top.node}) ELSE memo
            /\ UNCHANGED <<pass, found, answer>>
       ELSE IF pass = "find" /\ config.redact /\ count # 0
       THEN /\ found' = count
            /\ pass' = "redact"
            /\ UNCHANGED answer
            /\ Enter(Root, <<>>, <<>>)
       ELSE /\ pass' = "done"
            /\ found' = IF pass = "find" THEN count ELSE found
            /\ answer' = Answer(count, IF count = 0 THEN Root ELSE value)
            /\ heap' = h
            /\ stack' = <<>>
            /\ seen' = {}
            /\ memo' = <<>>

FindComplete ==
    /\ pass = "find"
    /\ Exhausted(Top)
    /\ Top.part = "extras" \/ heap[Top.node].extras = <<>>
    /\ Return(heap, Top.node, Top.count + Top.partCount)

FinishMapping ==
    /\ pass = "redact"
    /\ Complete("dict") \/ Complete("list")
    /\ Return(heap, Top.copy, Top.partCount)

\* The tuple is made of its scanned items; its placeholder is replaced in what they hold.
FinishTuple ==
    /\ pass = "redact"
    /\ Complete("tuple")
    /\ LET made == [kind |-> "tuple", kids |-> Top.values, extras |-> <<>>]
           h == ReplacePlaceholder(Add(made), Fresh, Top.copy, Fresh)
       IN  Return(h, Fresh, Top.partCount)

\* An object whose attributes changed is rebuilt.
AttributesChanged ==
    Top.partCount > 0 \/ ~SameItems(heap, Top.values, heap[Top.node].kids)

ExtrasOf(f) == [f EXCEPT !.part = "extras", !.values = <<>>,
                         !.partCount = 0, !.count = @ + f.partCount]

\* From the attributes to the values under other keys.  Attributes that did not change leave the
\* blank copy behind and give way to another one, which holds them as they were.
TurnToExtras ==
    /\ pass # "done"
    /\ Exhausted(Top)
    /\ Top.part = "kids"
    /\ heap[Top.node].extras # <<>>
    /\ LET f == ExtrasOf(Top)
           kids == heap[Top.node].kids
       IN  IF pass = "find"
           THEN /\ stack' = Append(Below, f)
                /\ UNCHANGED <<heap, memo>>
           ELSE IF AttributesChanged
           THEN /\ heap' = [heap EXCEPT ![Top.copy].kids = Top.values]
                /\ stack' = Append(Below, [f EXCEPT !.rebuilt = TRUE])
                /\ UNCHANGED memo
           ELSE /\ heap' = Add([Blank("object") EXCEPT !.kids = kids])
                /\ stack' = Append(Below, [f EXCEPT !.copy = Fresh])
                /\ memo' = [memo EXCEPT ![Top.node] = Fresh]
    /\ UNCHANGED <<original, config, pass, seen, found, answer>>

FinishAttributes ==
    /\ pass = "redact"
    /\ Complete("object")
    /\ Top.part = "kids"
    /\ heap[Top.node].extras = <<>>
    /\ IF AttributesChanged
       THEN Return([heap EXCEPT ![Top.copy].kids = Top.values], Top.copy, Top.partCount)
       ELSE Return(heap, Top.node, Top.partCount)

\* Extras count as changed only by what was found in them, or if the attributes changed.
FinishExtras ==
    /\ pass = "redact"
    /\ Complete("object")
    /\ Top.part = "extras"
    /\ IF Top.partCount > 0 \/ Top.rebuilt
       THEN Return([heap EXCEPT ![Top.copy].extras = Top.values], Top.copy, Top.count + Top.partCount)
       ELSE Return(heap, Top.node, Top.count + Top.partCount)

-----------------------------------------------------------------------------
Init ==
    /\ original \in Graphs
    /\ config \in Configs
    /\ heap = original
    /\ pass = "find"
    /\ stack = <<[node |-> Root, path |-> <<>>, copy |-> None, values |-> <<>>, partCount |-> 0,
                  count |-> 0, rebuilt |-> FALSE,
                  part |-> IF original[Root].kids = <<>> /\ original[Root].extras # <<>>
                               THEN "extras" ELSE "kids"]>>
    /\ seen = {Root}
    /\ memo = <<>>
    /\ found = 0
    /\ answer = <<>>

\* The hook has returned.
Returned == pass = "done" /\ UNCHANGED vars

Next ==
    \/ ScanString
    \/ SkipField
    \/ BackReference
    \/ Descend
    \/ FindComplete
    \/ FinishMapping
    \/ FinishTuple
    \/ TurnToExtras
    \/ FinishAttributes
    \/ FinishExtras
    \/ Returned

Spec == Init /\ [][Next]_vars

-----------------------------------------------------------------------------
(* Properties.                                                             *)

Ids == DOMAIN heap

\* Neither a scan nor the replacement of placeholders, which assigns into whatever it reaches,
\* changes a container the gateway still holds (cycle_rewrite.rs:9-66).
OriginalsUntouched == \A i \in DOMAIN original : heap[i] = original[i]

\* The two passes walk the data differently and count the same (plugin.rs:179-187): the hook's
\* verdict does not depend on which of them it rests on.
PassesAgree == (pass = "done" /\ config.redact) => answer.count = found

\* The pairs of values that stand at equal places in the answered payload and in the original,
\* along all paths, those through back-references included.
Corresponding ==
    LET Both(p) == p[1] \notin Strings /\ p[2] \notin Strings
        Zipped(s, t) == {<<s[i], t[i]>> : i \in DOMAIN s \cap DOMAIN t}
        Within(p) == Zipped(heap[p[1]].kids, heap[p[2]].kids)
                         \cup Zipped(heap[p[1]].extras, heap[p[2]].extras)
        Steps(P) == UNION {Within(p) : p \in {q \in P : Both(q)}}
    IN  Closure(Steps, {<<answer.payload, Root>>}, Cardinality(DOMAIN heap))

\* The redacted payload has the shape of the original: the same kinds of container with as many
\* values at every place, cycles closed, no placeholder left (python_scan.rs:334-361).
ShapeKept ==
    (pass = "done") =>
        \A p \in Corresponding :
            \/ p[1] \in Strings /\ p[2] \in Strings
            \/ /\ p[1] \in Ids /\ p[2] \in Ids
               /\ heap[p[1]].kind = heap[p[2]].kind
               /\ Len(heap[p[1]].kids) = Len(heap[p[2]].kids)
               /\ Len(heap[p[1]].extras) = Len(heap[p[2]].extras)

\* No object is reached from what it holds under keys that are no strings.  Such values count as
\* changed only by what was found in them, so one that leads back may lead to data that was rebuilt.
ExtrasLeadAway(g) == \A o \in DOMAIN g : \A v \in Range(g[o].extras) : o \notin ReachableIn(g, v)

\* Without field lists no secret is left anywhere in a redacted payload: not in a container that
\* occurs twice, not behind a back-reference, whose container was rebuilt meanwhile
\* (python_scan.rs:257-265).
NothingLeaks ==
    (pass = "done" /\ config.redact /\ config.allow = {} /\ config.deny = {}) =>
        Secret \notin ReachableIn(heap, answer.payload)

\* The places of the original along paths that enter no container twice, with their field paths
\* and what stands there in the answered payload.
Places ==
    LET Pathed(w, i) == IF Named(heap[w.old]) THEN Append(w.path, Keys[i]) ELSE w.path
        Place(w, new, old, path) == [new |-> new, old |-> old, path |-> path, on |-> w.on \cup {w.old}]
        Following(w) ==
            {Place(w, heap[w.new].kids[i], heap[w.old].kids[i], Pathed(w, i)) :
                i \in DOMAIN heap[w.old].kids \cap DOMAIN heap[w.new].kids}
            \cup {Place(w, heap[w.new].extras[i], heap[w.old].extras[i], w.path) :
                i \in DOMAIN heap[w.old].extras \cap DOMAIN heap[w.new].extras}
        Steps(P) == UNION {Following(w) : w \in {v \in P : /\ v.old \notin v.on \cup Strings
                                                         /\ v.new \notin Strings}}
    IN  Closure(Steps, {[new |-> answer.payload, old |-> Root, path |-> <<>>, on |-> {}]},
                Cardinality(DOMAIN original))

\* What the configuration says of a path: the fields on it are listed or not.
FieldsOn(path) == {SubSeq(path, 1, n) : n \in 0..Len(path)}
Configured(path) == /\ FieldsOn(path) \cap config.deny = {}
                    /\ config.allow # {} => FieldsOn(path) \cap config.allow # {}

\* A secret is redacted at exactly the places whose field paths the configuration scans, even if its
\* container occurs at other places too, which are not scanned (config.rs:75-100).
FieldsHonoured ==
    (pass = "done" /\ answer.payload # Root) =>
        \A w \in Places : (w.old = Secret) => ((w.new = Redacted) <=> Configured(w.path))

=============================================================================
