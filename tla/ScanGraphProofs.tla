--------------------------- MODULE ScanGraphProofs ---------------------------
(***************************************************************************)
(* What a scan does to the data of a hook, for every graph of containers,  *)
(* shared and cyclic, of any size, and for every configuration:            *)
(*   - it leaves the containers of the gateway as they were;               *)
(*   - its two passes count the same (the calls in progress are those of   *)
(*     one walk over the graph, whose count is a function of the graph);   *)
(*   - the second pass redacts a secret exactly at the places that the     *)
(*     field lists name (every value it returns is certified for the one   *)
(*     place it was made for);                                             *)
(*   - without field lists no secret is left anywhere in the payload, if   *)
(*     no object leads back to itself through its extras (every value of a *)
(*     copy stands for one of the original: a copy of it, or itself if it  *)
(*     is clean).                                                          *)
(* Induction goes through the first-order theorem on well-founded          *)
(* relations (LEMMA Induction).                                            *)
(***************************************************************************)
EXTENDS ScanGraph, SequenceTheorems, FiniteSetTheorems, WellFoundedInduction, TLAPS

(* A heap in which the original containers are as the gateway sent them.   *)
Keeps(h) ==
    /\ IsFiniteSet(DOMAIN h)
    /\ DOMAIN original \subseteq DOMAIN h
    /\ \A i \in DOMAIN original : h[i] = original[i]

(* What a call writes to is a container it made itself, or none.           *)
OwnCopy(f) == "copy" \in DOMAIN f /\ f.copy \in Nat \ DOMAIN original

Frames(s) == s \in Seq(Range(s)) /\ \A f \in Range(s) : OwnCopy(f)

(* The inductive invariant.                                                *)
CallsInv == Frames(stack) /\ (pass # "done" => Len(stack) > 0)
HeapInv == original \in Graphs /\ Keeps(heap)
UntouchedInv == HeapInv /\ CallsInv

(***************************************************************************)
(* Sequences of frames.                                                    *)
(***************************************************************************)

LEMMA FramesFacts ==
  ASSUME NEW s, Frames(s)
  PROVE  /\ Len(s) \in Nat /\ DOMAIN s = 1..Len(s)
         /\ \A i \in 1..Len(s) : s[i] \in Range(s) /\ OwnCopy(s[i])
  BY LenProperties DEF Frames, Range

(* A sequence of such frames is one, whatever set it is taken from.        *)
LEMMA FramesOf ==
  ASSUME NEW S, \A f \in S : OwnCopy(f), NEW s \in Seq(S)
  PROVE  Frames(s)
  <1>1. Len(s) \in Nat /\ s \in [1..Len(s) -> S]
    BY LenProperties
  <1>2. Range(s) \subseteq S /\ s \in [1..Len(s) -> Range(s)]
    BY <1>1 DEF Range
  <1>3. s \in Seq(Range(s))
    BY <1>1, <1>2, SeqDef
  <1> QED BY <1>2, <1>3 DEF Frames

LEMMA NoFrames == Frames(<< >>)
  <1>1. << >> \in Seq({}) /\ \A f \in {} : OwnCopy(f)
    BY EmptySeq
  <1> QED BY <1>1, FramesOf

LEMMA FramesPush ==
  ASSUME NEW s, Frames(s), NEW f, OwnCopy(f)
  PROVE  Frames(Append(s, f)) /\ Len(Append(s, f)) = Len(s) + 1
  <1> DEFINE S == Range(s) \cup {f}
  <1>1. s \in Seq(S) /\ f \in S /\ \A g \in S : OwnCopy(g)
    <2>1. s \in Seq(Range(s)) /\ Range(s) \subseteq S
      BY DEF Frames
    <2>2. s \in Seq(S)
      <3>1. Len(s) \in Nat /\ s \in [1..Len(s) -> Range(s)]
        BY <2>1, LenProperties
      <3>2. s \in [1..Len(s) -> S]
        BY <2>1, <3>1
      <3> QED BY <3>1, <3>2, SeqDef
    <2> QED BY <2>2 DEF Frames
  <1> HIDE DEF S
  <1>2. Append(s, f) \in Seq(S) /\ Len(Append(s, f)) = Len(s) + 1
    BY <1>1, AppendProperties
  <1> QED BY <1>1, <1>2, FramesOf

LEMMA FramesBelow ==
  ASSUME NEW s, Frames(s), Len(s) > 0
  PROVE  /\ Frames(SubSeq(s, 1, Len(s) - 1))
         /\ Len(SubSeq(s, 1, Len(s) - 1)) = Len(s) - 1
  <1>1. s \in Seq(Range(s)) /\ Len(s) \in Nat
    BY FramesFacts DEF Frames
  <1>2. \A i \in 1..Len(s) - 1 : s[i] \in Range(s)
    BY <1>1, FramesFacts
  <1> DEFINE n == Len(s) - 1
  <1>3. n \in Nat /\ n + 1 = Len(s) /\ \A i \in 1..n : s[i] \in Range(s)
    BY <1>1, <1>2
  <1> HIDE DEF n
  <1>4. SubSeq(s, 1, n) \in Seq(Range(s)) /\ Len(SubSeq(s, 1, n)) = n
    <2>1. CASE n = 0
      <3>1. SubSeq(s, 1, n) = << >>
        BY <2>1, SubSeqEmpty
      <3> QED BY <2>1, <3>1, EmptySeq
    <2>2. CASE n > 0
      <3>1. SubSeq(s, 1, n) \in Seq(Range(s)) /\ Len(SubSeq(s, 1, n)) = n - 1 + 1
        BY <1>3, <2>2, SubSeqProperties
      <3> QED BY <1>3, <3>1
    <2> QED BY <1>3, <2>1, <2>2
  <1>5. \A f \in Range(s) : OwnCopy(f)
    BY DEF Frames
  <1>6. Frames(SubSeq(s, 1, n))
    BY <1>4, <1>5, FramesOf
  <1> QED BY <1>4, <1>6 DEF n

(***************************************************************************)
(* Heaps.                                                                  *)
(***************************************************************************)

(* The number of a new container is no original's.                         *)
LEMMA FreshIsNew ==
  ASSUME HeapInv
  PROVE  Fresh \in Nat \ DOMAIN original
  <1> DEFINE n == Cardinality(DOMAIN original)
  <1>1. DOMAIN original = 1..n
    BY ScanAssumption DEF HeapInv, GraphsOn
  <1>2. n <= Cardinality(DOMAIN heap) /\ n \in Nat /\ Cardinality(DOMAIN heap) \in Nat
    BY FS_Subset, FS_CardinalityType DEF HeapInv, Keeps
  <1> HIDE DEF n
  <1> QED BY <1>1, <1>2 DEF Fresh

(* No original container holds anything but originals and strings.         *)
LEMMA OriginalsClosed ==
  ASSUME HeapInv, NEW i \in DOMAIN original, NEW x \in Nat \ DOMAIN original
  PROVE  /\ original[i] \in [kind: {original[i].kind}, kids: {original[i].kids},
                             extras: {original[i].extras}]
         /\ original[i].kids = [j \in DOMAIN original[i].kids |-> original[i].kids[j]]
         /\ original[i].extras = [j \in DOMAIN original[i].extras |-> original[i].extras[j]]
         /\ \A j \in DOMAIN original[i].kids : original[i].kids[j] # x
         /\ \A j \in DOMAIN original[i].extras : original[i].extras[j] # x
  <1> DEFINE n == Cardinality(DOMAIN original)
  <1>1. original \in GraphsOn(n)
    BY ScanAssumption DEF HeapInv
  <1>2. DOMAIN original = 1..n
    BY <1>1 DEF GraphsOn
  <1>3. x \notin Values(n)
    <2>1. x \notin 1..n
      BY <1>2
    <2>2. x \notin Strings
      BY ScanAssumption
    <2> QED BY <2>1, <2>2 DEF Values
  <1> HIDE DEF n
  <1>4. original[i] \in [kind: Kinds, kids: Seq(Values(n)), extras: Seq(Values(n))]
    BY <1>1, <1>2 DEF GraphsOn
  <1>5. original[i].kids \in Seq(Values(n)) /\ original[i].extras \in Seq(Values(n))
    BY <1>4
  <1>6. \A s \in Seq(Values(n)) : /\ s = [j \in DOMAIN s |-> s[j]]
                                 /\ \A j \in DOMAIN s : s[j] # x
    BY <1>3, LenProperties
  <1> QED BY <1>4, <1>5, <1>6

LEMMA AddKeeps ==
  ASSUME NEW h, Keeps(h), NEW id, id \notin DOMAIN original, NEW c
  PROVE  Keeps(Bind(h, id, c))
  <1>1. DOMAIN Bind(h, id, c) = DOMAIN h \cup {id}
    BY DEF Bind
  <1>2. IsFiniteSet(DOMAIN h \cup {id})
    BY FS_AddElement DEF Keeps
  <1>3. \A i \in DOMAIN original : Bind(h, id, c)[i] = h[i]
    BY DEF Bind, Keeps
  <1> QED BY <1>1, <1>2, <1>3 DEF Keeps

LEMMA AssignKeeps ==
  ASSUME NEW h, Keeps(h), NEW id, id \notin DOMAIN original, NEW c
  PROVE  Keeps([h EXCEPT ![id] = c])
  BY DEF Keeps

LEMMA SubstituteNone ==
  ASSUME NEW s, NEW x, NEW r, s = [j \in DOMAIN s |-> s[j]],
         \A j \in DOMAIN s : s[j] # x
  PROVE  Substitute(s, x, r) = s
  BY DEF Substitute

(* No original holds a placeholder, so replacing one changes none.         *)
LEMMA ReplaceKeeps ==
  ASSUME HeapInv, NEW h, Keeps(h), NEW v, NEW r,
         NEW placeholder \in Nat \ DOMAIN original
  PROVE  Keeps(ReplacePlaceholder(h, v, placeholder, r))
  <1> DEFINE new == ReplacePlaceholder(h, v, placeholder, r)
  <1>1. DOMAIN new = DOMAIN h
    BY DEF ReplacePlaceholder
  <1>2. ASSUME NEW i \in DOMAIN original
        PROVE  new[i] = original[i]
    <2> DEFINE o == original[i]
    <2>1. h[i] = o /\ i \in DOMAIN h
      BY DEF Keeps
    <2>2. /\ o \in [kind: {o.kind}, kids: {o.kids}, extras: {o.extras}]
          /\ o.kids = [j \in DOMAIN o.kids |-> o.kids[j]]
          /\ o.extras = [j \in DOMAIN o.extras |-> o.extras[j]]
          /\ \A j \in DOMAIN o.kids : o.kids[j] # placeholder
          /\ \A j \in DOMAIN o.extras : o.extras[j] # placeholder
      BY OriginalsClosed
    <2> HIDE DEF o
    <2>3. Substitute(o.kids, placeholder, r) = o.kids
      BY <2>2, SubstituteNone
    <2>4. Substitute(o.extras, placeholder, r) = o.extras
      BY <2>2, SubstituteNone
    <2>5. \/ new[i] = h[i]
          \/ new[i] = [h[i] EXCEPT !.kids = Substitute(h[i].kids, placeholder, r),
                                   !.extras = Substitute(h[i].extras, placeholder, r)]
      BY <2>1 DEF ReplacePlaceholder
    <2> HIDE DEF new
    <2>6. [o EXCEPT !.kids = o.kids, !.extras = o.extras] = o
      BY <2>2
    <2> QED BY <2>1, <2>3, <2>4, <2>5, <2>6 DEF o
  <1> HIDE DEF new
  <1>3. Keeps(new)
    BY <1>1, <1>2 DEF Keeps
  <1> QED BY <1>3 DEF new

(***************************************************************************)
(* What the actions are made of.                                           *)
(***************************************************************************)

LEMMA AcceptKeeps ==
  ASSUME NEW frames, Frames(frames), Len(frames) > 0, NEW h, Keeps(h),
         NEW value, NEW n, Accept(frames, h, value, n)
  PROVE  Keeps(heap') /\ Frames(stack') /\ Len(stack') > 0
  <1> DEFINE last == Len(frames)
             f == frames[last]
             more == [f EXCEPT !.values = Append(@, value), !.partCount = @ + n]
  <1>1. /\ last \in Nat /\ last \in 1..last /\ OwnCopy(f)
        /\ frames \in Seq(Range(frames)) /\ \A g \in Range(frames) : OwnCopy(g)
    BY FramesFacts DEF Frames
  <1>2. OwnCopy(more)
    BY <1>1 DEF OwnCopy
  <1>3. stack' = [frames EXCEPT ![last] = more]
    BY DEF Accept
  <1>4. \/ heap' = h
        \/ heap' = [h EXCEPT ![f.copy].kids = Append(@, value)]
    BY DEF Accept, Made
  <1>5. f.copy \notin DOMAIN original
    BY <1>1 DEF OwnCopy
  <1> HIDE DEF more, f
  <1>6. Keeps(heap')
    <2>1. [h EXCEPT ![f.copy].kids = Append(@, value)]
            = [h EXCEPT ![f.copy] = [h[f.copy] EXCEPT !.kids = Append(@, value)]]
      OBVIOUS
    <2> DEFINE x == [h[f.copy] EXCEPT !.kids = Append(@, value)]
    <2>2. heap' = h \/ heap' = [h EXCEPT ![f.copy] = x]
      BY <1>4, <2>1
    <2> HIDE DEF x
    <2>3. Keeps([h EXCEPT ![f.copy] = x])
      BY <1>5 DEF Keeps
    <2> QED BY <2>2, <2>3
  <1>7. Frames(stack') /\ Len(stack') > 0
    <2> DEFINE S == Range(frames) \cup {more}
    <2>1. frames \in [1..last -> Range(frames)]
      BY <1>1, LenProperties
    <2>2. stack' \in [1..last -> S]
      BY <1>1, <1>3, <2>1
    <2>3. \A g \in S : OwnCopy(g)
      BY <1>1, <1>2
    <2> HIDE DEF S
    <2>4. stack' \in Seq(S) /\ Len(stack') = last
      <3>1. stack' \in Seq(S)
        BY <1>1, <2>2, SeqDef
      <3>2. DOMAIN stack' = 1..last /\ DOMAIN stack' = 1..Len(stack') /\ Len(stack') \in Nat
        BY <2>2, <3>1, LenProperties
      <3> QED BY <1>1, <3>1, <3>2
    <2> QED BY <2>3, <2>4, FramesOf
  <1> QED BY <1>6, <1>7

LEMMA FrameOwns ==
  ASSUME NEW node, NEW path, NEW part, NEW copy \in Nat \ DOMAIN original
  PROVE  OwnCopy(Frame(node, path, part, copy))
  BY DEF OwnCopy, Frame

LEMMA EnterKeeps ==
  ASSUME HeapInv, NEW node, NEW path, NEW frames, Frames(frames),
         Enter(node, path, frames)
  PROVE  Keeps(heap') /\ Frames(stack') /\ Len(stack') > 0
  <1>1. None \in Nat \ DOMAIN original
    BY ScanAssumption DEF None, HeapInv, GraphsOn
  <1>2. Fresh \in Nat \ DOMAIN original
    BY FreshIsNew
  <1>3. Keeps(heap) /\ Keeps(Add(Blank(CopyKind(node))))
    BY <1>2, AddKeeps DEF HeapInv, Add
  <1>4. \/ heap' = heap
        \/ heap' = Add(Blank(CopyKind(node)))
    BY DEF Enter
  <1>5. PICK copy \in {None, Fresh} :
          stack' = Append(frames, Frame(node, path, FirstPart(node), copy))
    BY DEF Enter
  <1>6. OwnCopy(Frame(node, path, FirstPart(node), copy))
    BY <1>1, <1>2, <1>5, FrameOwns
  <1>7. Frames(stack') /\ Len(stack') = Len(frames) + 1 /\ Len(frames) \in Nat
    BY <1>5, <1>6, FramesPush, FramesFacts
  <1> QED BY <1>3, <1>4, <1>7

(* A call in progress. *)
LEMMA TopFacts ==
  ASSUME UntouchedInv, pass # "done"
  PROVE  /\ Frames(stack) /\ Len(stack) > 0 /\ Len(stack) \in Nat
         /\ OwnCopy(Top) /\ Top.copy \in Nat \ DOMAIN original
         /\ Frames(Below) /\ Len(Below) = Len(stack) - 1
         /\ Keeps(heap) /\ HeapInv
  BY FramesFacts, FramesBelow
     DEF UntouchedInv, CallsInv, HeapInv, Top, Below, OwnCopy

LEMMA ReturnKeeps ==
  ASSUME UntouchedInv, pass # "done", NEW h, Keeps(h), NEW value, NEW count,
         Return(h, value, count)
  PROVE  Keeps(heap') /\ Frames(stack') /\ (pass' # "done" => Len(stack') > 0)
  <1>1. CASE Len(stack) > 1
    <2>1. Accept(Below, h, value, count)
      BY <1>1 DEF Return
    <2>2. Len(Below) > 0
      BY <1>1, TopFacts
    <2> QED BY <2>1, <2>2, TopFacts, AcceptKeeps
  <1>2. CASE ~(Len(stack) > 1) /\ pass = "find" /\ config.redact /\ count # 0
    <2>1. Enter(Root, << >>, << >>)
      BY <1>2 DEF Return
    <2>2. Frames(<< >>)
      BY NoFrames
    <2> QED BY <2>1, <2>2, TopFacts, EnterKeeps
  <1>3. CASE ~(Len(stack) > 1) /\ ~(pass = "find" /\ config.redact /\ count # 0)
    <2>1. heap' = h /\ stack' = << >> /\ pass' = "done"
      BY <1>3 DEF Return
    <2>2. Frames(<< >>)
      BY NoFrames
    <2> QED BY <2>1, <2>2
  <1> QED BY <1>1, <1>2, <1>3

(***************************************************************************)
(* The inductive invariant.                                                *)
(***************************************************************************)

LEMMA UntouchedInit == Init => UntouchedInv
  <1> SUFFICES ASSUME Init PROVE UntouchedInv
    OBVIOUS
  <1> DEFINE first == [node |-> Root, path |-> << >>, copy |-> None, values |-> << >>,
                       partCount |-> 0, count |-> 0, rebuilt |-> FALSE,
                       part |-> IF original[Root].kids = << >> /\ original[Root].extras # << >>
                                    THEN "extras" ELSE "kids"]
  <1>1. original \in Graphs /\ heap = original /\ stack = <<first>>
    BY DEF Init
  <1>2. DOMAIN original = 1..Cardinality(DOMAIN original) /\ Root \in DOMAIN original
    BY <1>1, ScanAssumption DEF GraphsOn
  <1>3. IsFiniteSet(DOMAIN original) /\ Cardinality(DOMAIN original) \in Nat
    BY <1>1, ScanAssumption, FS_CardinalityType
  <1>4. Keeps(heap)
    BY <1>1, <1>3 DEF Keeps
  <1>5. OwnCopy(first)
    <2>1. first.copy = 0 /\ "copy" \in DOMAIN first
      BY DEF None
    <2>2. 0 \notin DOMAIN original
      BY <1>2, <1>3
    <2> QED BY <2>1, <2>2 DEF OwnCopy
  <1> HIDE DEF first
  <1>6. Frames(<<first>>) /\ Len(<<first>>) = 1
    <2>1. <<first>> \in Seq({first})
      OBVIOUS
    <2>2. \A f \in {first} : OwnCopy(f)
      BY <1>5
    <2> QED BY <2>1, <2>2, FramesOf
  <1> QED BY <1>1, <1>4, <1>6 DEF UntouchedInv, HeapInv, CallsInv

LEMMA UntouchedStep == UntouchedInv /\ [Next]_vars => UntouchedInv'
  <1> SUFFICES ASSUME UntouchedInv, [Next]_vars PROVE UntouchedInv'
    OBVIOUS
  <1> DEFINE Good == Keeps(heap') /\ Frames(stack') /\ (pass' # "done" => Len(stack') > 0)
  <1>0. ASSUME original' = original, Good
        PROVE  UntouchedInv'
    BY <1>0 DEF UntouchedInv, HeapInv, CallsInv, Keeps, Frames, OwnCopy
  <1>1. CASE ScanString \/ SkipField \/ BackReference
    <2>1. pass # "done" /\ original' = original
      BY <1>1 DEF ScanString, SkipField, BackReference, Enterable, Scanning
    <2>2. \E value, n : Accept(stack, heap, value, n)
      BY <1>1 DEF ScanString, SkipField, BackReference
    <2>3. Good
      BY <2>1, <2>2, TopFacts, AcceptKeeps
    <2> HIDE DEF Good
    <2> QED BY <1>0, <2>1, <2>3
  <1>2. CASE Descend
    <2>1. pass # "done" /\ original' = original
      BY <1>2 DEF Descend, Enterable, Scanning
    <2>2. Enter(Child, ChildPath, stack)
      BY <1>2 DEF Descend
    <2>3. Good
      BY <2>1, <2>2, TopFacts, EnterKeeps
    <2> HIDE DEF Good
    <2> QED BY <1>0, <2>1, <2>3
  <1>3. ASSUME pass # "done", NEW h, Keeps(h), NEW value, NEW count, Return(h, value, count)
        PROVE  UntouchedInv'
    <2>1. Good
      BY <1>3, ReturnKeeps
    <2>2. original' = original
      BY <1>3 DEF Return
    <2> HIDE DEF Good
    <2> QED BY <1>0, <2>1, <2>2
  <1>4. ASSUME pass # "done", NEW new PROVE Keeps([heap EXCEPT ![Top.copy] = new])
    BY <1>4, TopFacts, AssignKeeps
  <1>5. CASE FindComplete
    <2>1. pass # "done" /\ Return(heap, Top.node, Top.count + Top.partCount)
      BY <1>5 DEF FindComplete
    <2> QED BY <1>3, <2>1, TopFacts
  <1>6. CASE FinishMapping
    <2>1. pass # "done" /\ Return(heap, Top.copy, Top.partCount)
      BY <1>6 DEF FinishMapping
    <2> QED BY <1>3, <2>1, TopFacts
  <1>7. CASE FinishTuple
    <2> DEFINE made == [kind |-> "tuple", kids |-> Top.values, extras |-> << >>]
               h == ReplacePlaceholder(Add(made), Fresh, Top.copy, Fresh)
    <2>1. pass # "done" /\ Return(h, Fresh, Top.partCount)
      BY <1>7 DEF FinishTuple
    <2> HIDE DEF made
    <2>2. Keeps(Add(made))
      BY <2>1, TopFacts, FreshIsNew, AddKeeps DEF Add
    <2>3. Keeps(h)
      BY <2>1, <2>2, TopFacts, ReplaceKeeps
    <2> HIDE DEF h
    <2> QED BY <1>3, <2>1, <2>3
  <1>8. CASE TurnToExtras
    <2> DEFINE f == ExtrasOf(Top)
    <2>1. pass # "done" /\ original' = original /\ pass' = pass
      BY <1>8 DEF TurnToExtras
    <2>2. OwnCopy(f) /\ OwnCopy([f EXCEPT !.rebuilt = TRUE])
          /\ OwnCopy([f EXCEPT !.copy = Fresh])
      BY <2>1, TopFacts, FreshIsNew DEF OwnCopy, ExtrasOf
    <2>3. \E g \in {f, [f EXCEPT !.rebuilt = TRUE], [f EXCEPT !.copy = Fresh]} :
            stack' = Append(Below, g)
      BY <1>8 DEF TurnToExtras
    <2> HIDE DEF f
    <2>4. Frames(stack') /\ Len(stack') > 0
      <3>1. PICK g : OwnCopy(g) /\ stack' = Append(Below, g)
        BY <2>2, <2>3
      <3>2. Frames(Below) /\ Len(Below) \in Nat
        BY <2>1, TopFacts
      <3> QED BY <3>1, <3>2, FramesPush
    <2>5. Keeps(heap')
      <3>1. \/ heap' = heap
            \/ \E x : heap' = [heap EXCEPT ![Top.copy] = x]
            \/ \E x : heap' = Add(x)
        <4>1. \/ heap' = heap
              \/ heap' = [heap EXCEPT ![Top.copy] = [heap[Top.copy] EXCEPT !.kids = Top.values]]
              \/ heap' = Add([Blank("object") EXCEPT !.kids = heap[Top.node].kids])
          BY <1>8 DEF TurnToExtras
        <4> QED BY <4>1
      <3>2. \A c : Keeps(Add(c))
        BY <2>1, TopFacts, FreshIsNew, AddKeeps DEF Add
      <3>3. CASE \E x : heap' = [heap EXCEPT ![Top.copy] = x]
        BY <1>4, <2>1, <3>3, Zenon
      <3>4. Keeps(heap)
        BY <2>1, TopFacts
      <3> QED BY <3>1, <3>2, <3>3, <3>4
    <2> QED BY <1>0, <2>1, <2>4, <2>5
  <1>9. CASE FinishAttributes \/ FinishExtras
    <2>1. pass # "done"
      BY <1>9 DEF FinishAttributes, FinishExtras
    <2>2. PICK h, value, count :
            /\ Return(h, value, count)
            /\ \/ h = heap
               \/ h = [heap EXCEPT ![Top.copy] = [heap[Top.copy] EXCEPT !.kids = Top.values]]
               \/ h = [heap EXCEPT ![Top.copy] = [heap[Top.copy] EXCEPT !.extras = Top.values]]
      BY <1>9 DEF FinishAttributes, FinishExtras
    <2>3. Keeps(h)
      BY <1>4, <2>1, <2>2, TopFacts
    <2> QED BY <1>3, <2>1, <2>2, <2>3
  <1>10. CASE Returned \/ UNCHANGED vars
    BY <1>10 DEF Returned, vars, UntouchedInv, HeapInv, CallsInv, Keeps, Frames, OwnCopy
  <1> QED BY <1>1, <1>2, <1>5, <1>6, <1>7, <1>8, <1>9, <1>10 DEF Next

(* cycle_rewrite.rs:9-66, python_scan.rs:240-361.  Whatever the data and   *)
(* however its containers are shared, a scan changes none of them: a call  *)
(* assigns into containers it made, and the placeholders it replaces       *)
(* occur in no other.                                                      *)
THEOREM OriginalsUntouchedHolds == Spec => []OriginalsUntouched
  <1>1. UntouchedInv => OriginalsUntouched
    BY DEF UntouchedInv, HeapInv, Keeps, OriginalsUntouched
  <1> QED BY <1>1, UntouchedInit, UntouchedStep, PTL DEF Spec


(***************************************************************************)
(* Induction and sums.                                                     *)
(***************************************************************************)

(* Induction over the naturals as a statement about a set.                 *)
LEMMA Induction ==
  ASSUME NEW S \in SUBSET Nat, 0 \in S, \A n \in S : n + 1 \in S
  PROVE  S = Nat
  <1> DEFINE T == Nat \ S
             Less == {p \in Nat \X Nat : p[1] < p[2]}
  <1> SUFFICES ASSUME T # {} PROVE FALSE
    OBVIOUS
  <1>1. IsWellFoundedOn(Less, Nat)
    BY NatLessThanWellFounded DEF OpToRel
  <1>2. \A x, y \in Nat : x < y => <<x, y>> \in Less
    OBVIOUS
  <1>3. T \subseteq Nat
    OBVIOUS
  <1> HIDE DEF Less
  <1>4. \E x \in T : \A y \in T : ~(<<y, x>> \in Less)
    <2> HIDE DEF T
    <2> QED BY <1>1, <1>3, WFMin
  <1>5. PICK x \in T : \A y \in T : ~(y < x)
    BY <1>2, <1>4
  <1>6. x # 0 /\ x - 1 \in Nat /\ x - 1 \notin T
    BY <1>5
  <1>7. x - 1 \in S /\ (x - 1) + 1 = x
    BY <1>6
  <1> QED BY <1>7

(* The sums of the beginnings of a sequence of numbers.                    *)
AreSums(s, v) == /\ s \in [0..Len(v) -> Nat]
                 /\ s[0] = 0
                 /\ \A i \in 1..Len(v) : s[i] = s[i - 1] + v[i]
Sums(v) == CHOOSE s : AreSums(s, v)
Total(v) == Sums(v)[Len(v)]

LEMMA SumsExist ==
  ASSUME NEW v \in Seq(Nat)
  PROVE  AreSums(Sums(v), v)
  <1> DEFINE m == Len(v)
             UpTo(n, s) == /\ s \in [0..n -> Nat]
                           /\ s[0] = 0
                           /\ \A i \in 1..n : s[i] = s[i - 1] + v[i]
             S == {n \in Nat : n <= m => \E s : UpTo(n, s)}
  <1>1. m \in Nat /\ \A i \in 1..m : v[i] \in Nat
    BY LenProperties
  <1> HIDE DEF m
  <1>2. 0 \in S
    <2> DEFINE s == [i \in 0..0 |-> 0]
    <2>1. UpTo(0, s)
      OBVIOUS
    <2> QED BY <2>1
  <1>3. ASSUME NEW n \in S PROVE n + 1 \in S
    <2>0. SUFFICES ASSUME n + 1 <= m PROVE \E s : UpTo(n + 1, s)
      <3> HIDE DEF UpTo
      <3> QED OBVIOUS
    <2>1. PICK s : UpTo(n, s)
      <3>1. n \in Nat /\ n <= m
        BY <1>1, <2>0
      <3> HIDE DEF UpTo
      <3> QED BY <3>1
    <2> DEFINE t == [i \in 0..(n + 1) |-> IF i = n + 1 THEN s[n] + v[n + 1] ELSE s[i]]
    <2>2. s[n] + v[n + 1] \in Nat
      <3>1. n \in Nat /\ n + 1 \in 1..m /\ n \in 0..n
        BY <1>1, <2>0
      <3> QED BY <1>1, <2>1, <3>1
    <2>3. t \in [0..(n + 1) -> Nat]
      BY <2>1, <2>2
    <2>4. t[0] = 0
      BY <2>1
    <2>5. \A i \in 1..(n + 1) : t[i] = t[i - 1] + v[i]
      BY <2>1
    <2>6. UpTo(n + 1, t)
      BY <2>3, <2>4, <2>5
    <2> QED BY <2>6
  <1>4. S = Nat
    <2>1. S \in SUBSET Nat
      OBVIOUS
    <2> HIDE DEF S
    <2> QED BY <1>2, <1>3, <2>1, Induction, Zenon
  <1>5. \E s : UpTo(m, s)
    <2>1. m \in S /\ m <= m
      <3> HIDE DEF S
      <3> QED BY <1>1, <1>4
    <2> HIDE DEF UpTo
    <2> QED BY <2>1
  <1>6. \E s : AreSums(s, v)
    <2>1. PICK s : UpTo(m, s)
      BY <1>5
    <2>2. AreSums(s, v)
      BY <2>1 DEF m, AreSums
    <2> QED BY <2>2
  <1> QED BY <1>6 DEF Sums

LEMMA SumsFacts ==
  ASSUME NEW v \in Seq(Nat)
  PROVE  /\ Len(v) \in Nat /\ Total(v) \in Nat
         /\ Sums(v)[0] = 0
         /\ \A i \in 0..Len(v) : Sums(v)[i] \in Nat
         /\ \A i \in 0..(Len(v) - 1) : Sums(v)[i + 1] = Sums(v)[i] + v[i + 1]
         /\ \A i \in 0..Len(v) : i = Len(v) => Sums(v)[i] = Total(v)
         /\ Len(v) = 0 => Total(v) = 0
  <1>1. Len(v) \in Nat
    BY LenProperties
  <1>2. AreSums(Sums(v), v)
    BY SumsExist
  <1>3. Len(v) \in 0..Len(v) /\ Sums(v)[Len(v)] \in Nat
    BY <1>1, <1>2 DEF AreSums
  <1>4. \A i \in 0..(Len(v) - 1) : i + 1 \in 1..Len(v) /\ (i + 1) - 1 = i
    BY <1>1
  <1>5. \A i \in 0..(Len(v) - 1) : Sums(v)[i + 1] = Sums(v)[i] + v[i + 1]
    BY <1>2, <1>4 DEF AreSums
  <1> QED BY <1>1, <1>2, <1>3, <1>5 DEF AreSums, Total

(* What adds up to nothing.                                                *)
LEMMA SumsOfZeros ==
  ASSUME NEW v \in Seq(Nat), \A i \in 1..Len(v) : v[i] = 0
  PROVE  Total(v) = 0
  <1> DEFINE S == {n \in Nat : n <= Len(v) => Sums(v)[n] = 0}
  <1>1. 0 \in S
    BY SumsFacts
  <1>2. ASSUME NEW n \in S PROVE n + 1 \in S
    <2> SUFFICES ASSUME n + 1 <= Len(v) PROVE Sums(v)[n + 1] = 0
      OBVIOUS
    <2>1. Len(v) \in Nat
      BY SumsFacts
    <2>2. Sums(v)[n] = 0 /\ n \in 0..(Len(v) - 1) /\ v[n + 1] = 0
      BY <2>1
    <2>3. Sums(v)[n + 1] = Sums(v)[n] + v[n + 1]
      BY <2>2, SumsFacts
    <2> QED BY <2>2, <2>3
  <1>3. S = Nat
    <2>1. S \in SUBSET Nat
      OBVIOUS
    <2> HIDE DEF S
    <2> QED BY <1>1, <1>2, <2>1, Induction
  <1>4. Sums(v)[Len(v)] = 0
    BY <1>3, SumsFacts
  <1> QED BY <1>4 DEF Total

(* And what a sum of nothing is made of.                                   *)
LEMMA ZeroSums ==
  ASSUME NEW v \in Seq(Nat), Total(v) = 0
  PROVE  \A i \in 1..Len(v) : v[i] = 0
  <1> DEFINE m == Len(v)
             S == {n \in Nat : n <= m => /\ Sums(v)[m - n] = 0
                                         /\ \A i \in 1..m : i > m - n => v[i] = 0}
  <1>1. /\ m \in Nat /\ Sums(v)[m] = 0 /\ \A i \in 1..m : v[i] \in Nat
        /\ \A i \in 0..m : Sums(v)[i] \in Nat
        /\ \A i \in 0..(m - 1) : Sums(v)[i + 1] = Sums(v)[i] + v[i + 1]
    BY SumsFacts, LenProperties DEF Total
  <1> HIDE DEF m
  <1>2. 0 \in S
    BY <1>1
  <1>3. ASSUME NEW n \in S PROVE n + 1 \in S
    <2> SUFFICES ASSUME n + 1 <= m
                 PROVE  /\ Sums(v)[m - (n + 1)] = 0
                        /\ \A i \in 1..m : i > m - (n + 1) => v[i] = 0
      OBVIOUS
    <2> DEFINE k == m - (n + 1)
    <2>1. /\ k \in 0..(m - 1) /\ k + 1 = m - n /\ k \in 0..m /\ k + 1 \in 1..m
          /\ Sums(v)[k + 1] = 0 /\ \A i \in 1..m : i > k + 1 => v[i] = 0
      BY <1>1
    <2> HIDE DEF k
    <2>2. Sums(v)[k] = 0 /\ v[k + 1] = 0
      <3>1. Sums(v)[k] \in Nat /\ v[k + 1] \in Nat /\ 0 = Sums(v)[k] + v[k + 1]
        BY <1>1, <2>1
      <3> QED BY <3>1
    <2>3. \A i \in 1..m : i > k => v[i] = 0
      BY <2>1, <2>2
    <2> QED BY <2>2, <2>3 DEF k
  <1>4. S = Nat
    <2>1. S \in SUBSET Nat
      OBVIOUS
    <2> HIDE DEF S
    <2> QED BY <1>2, <1>3, <2>1, Induction, Zenon
  <1>5. \A i \in 1..m : i > m - m => v[i] = 0
    <2>1. m \in S /\ m <= m
      <3> HIDE DEF S
      <3> QED BY <1>1, <1>4
    <2> QED BY <2>1
  <1> QED BY <1>1, <1>5 DEF m


(***************************************************************************)
(* What a graph counts: the number of secrets that a walk along all paths  *)
(* meets, where a container that is being walked is not walked again.      *)
(***************************************************************************)

Labels == STRING
FieldPaths == Seq(Labels)
Parts == {"kids", "extras"}

(* The graph g and the configuration c of a hook, as constants.            *)
Scans(c, path) ==
    /\ ~\E p \in c.deny : StartsWith(path, p)
    /\ c.allow = {} \/ \E p \in c.allow : StartsWith(path, p)
Traverses(c, path) ==
    \/ path = << >>
    \/ /\ ~\E p \in c.deny : StartsWith(path, p)
       /\ \/ c.allow = {}
          \/ \E p \in c.allow : StartsWith(path, p) \/ StartsWith(p, path)

Items(g, node, part) == IF part = "kids" THEN g[node].kids ELSE g[node].extras
PathAt(g, node, path, part, i) ==
    IF part = "kids" /\ Named(g[node]) THEN Append(path, Keys[i]) ELSE path

(* A walk is told by its container, its field path and the containers that *)
(* are being walked; T gives the count of each.                            *)
Walks(g) == (DOMAIN g) \X FieldPaths \X (SUBSET DOMAIN g)
Worth(c, T, v, path, on) ==
    IF v \in Strings THEN (IF v = Secret /\ Scans(c, path) THEN 1 ELSE 0)
                     ELSE T[<<v, path, on>>]
Worths(g, c, T, node, path, on, part) ==
    [i \in 1..Len(Items(g, node, part)) |->
        Worth(c, T, Items(g, node, part)[i], PathAt(g, node, path, part, i), on)]
Held(g, c, T, node, path, on, part) == Total(Worths(g, c, T, node, path, on \cup {node}, part))
Counted(g, c, T, node, path, on) ==
    IF node \in on THEN 0
    ELSE Held(g, c, T, node, path, on, "kids") + Held(g, c, T, node, path, on, "extras")
IsTally(g, c, T) ==
    /\ T \in [Walks(g) -> Nat]
    /\ \A node \in DOMAIN g, path \in FieldPaths, on \in SUBSET DOMAIN g :
         T[<<node, path, on>>] = Counted(g, c, T, node, path, on)

LEMMA GraphFacts ==
  ASSUME NEW g \in Graphs
  PROVE  /\ IsFiniteSet(DOMAIN g) /\ Root \in DOMAIN g /\ DOMAIN g \subseteq Nat \ {0}
         /\ DOMAIN g \cap Strings = {} /\ Secret \in Strings /\ Secret # Redacted
         /\ \A i \in DOMAIN g : /\ g[i].kids \in Seq(DOMAIN g \cup Strings)
                                /\ g[i].extras \in Seq(DOMAIN g \cup Strings)
                                /\ g[i].kind \in Kinds
                                /\ WellFormed(g[i])
  <1> DEFINE n == Cardinality(DOMAIN g)
  <1>1. /\ IsFiniteSet(DOMAIN g) /\ Root \in DOMAIN g /\ g \in GraphsOn(n)
        /\ \A i \in DOMAIN g : WellFormed(g[i])
    BY ScanAssumption
  <1>2. n \in Nat
    BY <1>1, FS_CardinalityType
  <1> HIDE DEF n
  <1>3. DOMAIN g = 1..n /\ \A i \in 1..n : g[i] \in [kind: Kinds, kids: Seq(Values(n)), extras: Seq(Values(n))]
    BY <1>1 DEF GraphsOn
  <1>4. 1..n \subseteq Nat \ {0} /\ Values(n) = DOMAIN g \cup Strings
    BY <1>2, <1>3 DEF Values
  <1>5. \A i \in DOMAIN g : /\ g[i].kids \in Seq(Values(n)) /\ g[i].extras \in Seq(Values(n))
                            /\ g[i].kind \in Kinds
    BY <1>3
  <1>6. Strings \cap Nat = {} /\ Secret # Redacted /\ Secret \in Strings
    BY ScanAssumption DEF Strings
  <1> QED BY <1>1, <1>3, <1>4, <1>5, <1>6

LEMMA ItemsFacts ==
  ASSUME NEW g \in Graphs, NEW node \in DOMAIN g, NEW part \in Parts, NEW path \in FieldPaths
  PROVE  /\ Items(g, node, part) \in Seq(DOMAIN g \cup Strings)
         /\ Len(Items(g, node, part)) \in Nat
         /\ \A i \in 1..Len(Items(g, node, part)) :
              /\ Items(g, node, part)[i] \in DOMAIN g \cup Strings
              /\ PathAt(g, node, path, part, i) \in FieldPaths
              /\ \/ PathAt(g, node, path, part, i) = path
                 \/ \E k \in Labels : PathAt(g, node, path, part, i) = Append(path, k)
  <1>1. Items(g, node, part) \in Seq(DOMAIN g \cup Strings)
    BY GraphFacts DEF Items, Parts
  <1>2. /\ Len(Items(g, node, part)) \in Nat
        /\ \A i \in 1..Len(Items(g, node, part)) : Items(g, node, part)[i] \in DOMAIN g \cup Strings
    BY <1>1, LenProperties
  <1>3. ASSUME NEW i \in 1..Len(Items(g, node, part)), part = "kids", Named(g[node])
        PROVE  Keys[i] \in Labels
    <2>1. Len(g[node].kids) <= Len(Keys) /\ Keys \in Seq(Labels)
      BY <1>3, GraphFacts, ScanAssumption DEF WellFormed, Labels
    <2>2. Items(g, node, part) = g[node].kids /\ Len(Keys) \in Nat
      BY <1>3, <2>1, LenProperties DEF Items
    <2>3. i \in 1..Len(Keys)
      BY <1>2, <2>1, <2>2
    <2> QED BY <2>1, <2>3, LenProperties
  <1>4. \A k \in Labels : Append(path, k) \in FieldPaths
    BY AppendProperties DEF FieldPaths
  <1> QED BY <1>1, <1>2, <1>3, <1>4 DEF PathAt

AreWorths(g, c, T, node, path, on, part, v) ==
    /\ v \in Seq(Nat) /\ Len(v) = Len(Items(g, node, part)) /\ Len(v) \in Nat
    /\ \A i \in 1..Len(v) :
         v[i] = Worth(c, T, Items(g, node, part)[i], PathAt(g, node, path, part, i), on)

LEMMA WorthsFacts ==
  ASSUME NEW g \in Graphs, NEW c, NEW T \in [Walks(g) -> Nat],
         NEW node \in DOMAIN g, NEW path \in FieldPaths, NEW on \in SUBSET DOMAIN g, NEW part \in Parts
  PROVE  AreWorths(g, c, T, node, path, on, part, Worths(g, c, T, node, path, on, part))
  <1> DEFINE v == Worths(g, c, T, node, path, on, part)
             m == Len(Items(g, node, part))
  <1>1. m \in Nat
    BY ItemsFacts
  <1>2. \A i \in 1..m : Worth(c, T, Items(g, node, part)[i], PathAt(g, node, path, part, i), on) \in Nat
    <2> TAKE i \in 1..m
    <2>1. Items(g, node, part)[i] \in DOMAIN g \cup Strings /\ PathAt(g, node, path, part, i) \in FieldPaths
      BY ItemsFacts
    <2> QED BY <2>1 DEF Worth, Walks
  <1> HIDE DEF m
  <1>3. /\ v \in [1..m -> Nat]
        /\ \A i \in 1..m : v[i] = Worth(c, T, Items(g, node, part)[i], PathAt(g, node, path, part, i), on)
    BY <1>2 DEF Worths, m
  <1> HIDE DEF v
  <1>4. v \in Seq(Nat) /\ Len(v) = m
    <2>1. v \in Seq(Nat)
      BY <1>1, <1>3, SeqDef
    <2>2. DOMAIN v = 1..m /\ DOMAIN v = 1..Len(v) /\ Len(v) \in Nat
      BY <1>3, <2>1, LenProperties
    <2> QED BY <1>1, <2>1, <2>2
  <1>5. AreWorths(g, c, T, node, path, on, part, v)
    BY <1>1, <1>3, <1>4 DEF AreWorths, m
  <1> QED BY <1>5 DEF v

LEMMA HeldType ==
  ASSUME NEW g \in Graphs, NEW c, NEW T \in [Walks(g) -> Nat],
         NEW node \in DOMAIN g, NEW path \in FieldPaths, NEW on \in SUBSET DOMAIN g
  PROVE  /\ Held(g, c, T, node, path, on, "kids") \in Nat
         /\ Held(g, c, T, node, path, on, "extras") \in Nat
         /\ Counted(g, c, T, node, path, on) \in Nat
  <1>1. on \cup {node} \in SUBSET DOMAIN g /\ "kids" \in Parts /\ "extras" \in Parts
    BY DEF Parts
  <1>2. \A part \in Parts : Held(g, c, T, node, path, on, part) \in Nat
    <2> TAKE part \in Parts
    <2>1. AreWorths(g, c, T, node, path, on \cup {node}, part, Worths(g, c, T, node, path, on \cup {node}, part))
      BY <1>1, WorthsFacts
    <2>2. Worths(g, c, T, node, path, on \cup {node}, part) \in Seq(Nat)
      BY <2>1 DEF AreWorths
    <2> QED BY <2>2, SumsFacts DEF Held
  <1> QED BY <1>1, <1>2 DEF Counted

(* How many containers are not being walked.                               *)
Left(g, on) == Cardinality(DOMAIN g \ on)

LEMMA LeftFacts ==
  ASSUME NEW g \in Graphs, NEW on \in SUBSET DOMAIN g
  PROVE  /\ Left(g, on) \in Nat /\ Left(g, on) <= Left(g, {})
         /\ Left(g, on) <= 0 => on = DOMAIN g
         /\ \A node \in DOMAIN g : node \notin on =>
               /\ on \cup {node} \in SUBSET DOMAIN g
               /\ Left(g, on \cup {node}) = Left(g, on) - 1
  <1> DEFINE N == DOMAIN g
  <1>1. IsFiniteSet(N)
    BY GraphFacts
  <1>2. IsFiniteSet(N \ on) /\ Cardinality(N \ on) \in Nat
    BY <1>1, FS_Subset, FS_CardinalityType
  <1>3. Cardinality(N \ on) <= Cardinality(N \ {})
    <2>1. N \ on \subseteq N \ {} /\ IsFiniteSet(N \ {})
      BY <1>1
    <2> QED BY <2>1, FS_Subset
  <1>4. Cardinality(N \ on) <= 0 => on = N
    <2>1. Cardinality(N \ on) <= 0 => N \ on = {}
      BY <1>2, FS_EmptySet
    <2> QED BY <2>1
  <1>5. ASSUME NEW node \in N, node \notin on
        PROVE  Cardinality(N \ (on \cup {node})) = Cardinality(N \ on) - 1
    <2>1. N \ (on \cup {node}) = (N \ on) \ {node} /\ node \in N \ on
      BY <1>5
    <2>2. Cardinality((N \ on) \ {node}) = Cardinality(N \ on) - 1
      BY <1>2, <2>1, FS_RemoveElement
    <2> QED BY <2>1, <2>2
  <1>6. \A node \in N : on \cup {node} \in SUBSET N
    OBVIOUS
  <1> QED BY <1>2, <1>3, <1>4, <1>5, <1>6 DEF Left

(* The counts exist: by the number of containers that are not yet walked.  *)
LEMMA TallyExists ==
  ASSUME NEW g \in Graphs, NEW c
  PROVE  \E T : IsTally(g, c, T)
  <1> DEFINE N == DOMAIN g
             UpTo(n, T) ==
                /\ T \in [Walks(g) -> Nat]
                /\ \A node \in N, path \in FieldPaths, on \in SUBSET N :
                     Left(g, on) <= n => T[<<node, path, on>>] = Counted(g, c, T, node, path, on)
             S == {n \in Nat : \E T : UpTo(n, T)}
  <1>1. \A on \in SUBSET N : Left(g, on) \in Nat
    BY LeftFacts
  <1>4. 0 \in S
    <2> DEFINE T == [w \in Walks(g) |-> 0]
    <2>1. T \in [Walks(g) -> Nat]
      OBVIOUS
    <2>2. ASSUME NEW node \in N, NEW path \in FieldPaths, NEW on \in SUBSET N, Left(g, on) <= 0
          PROVE  T[<<node, path, on>>] = Counted(g, c, T, node, path, on)
      <3>1. node \in on
        BY LeftFacts, <2>2
      <3>2. <<node, path, on>> \in Walks(g)
        BY DEF Walks
      <3> QED BY <3>1, <3>2 DEF Counted
    <2> HIDE DEF T
    <2>3. UpTo(0, T)
      BY <2>1, <2>2
    <2> QED BY <2>3
  <1>5. ASSUME NEW n \in S PROVE n + 1 \in S
    <2>1. PICK T : UpTo(n, T)
      OBVIOUS
    <2> DEFINE U == [w \in Walks(g) |-> Counted(g, c, T, w[1], w[2], w[3])]
    <2>2. \A node \in N, path \in FieldPaths, on \in SUBSET N :
            /\ <<node, path, on>> \in Walks(g)
            /\ U[<<node, path, on>>] = Counted(g, c, T, node, path, on)
            /\ Counted(g, c, T, node, path, on) \in Nat
      BY <2>1, HeldType DEF Walks
    <2>3. U \in [Walks(g) -> Nat]
      BY <2>2 DEF Walks
    <2> HIDE DEF U
    <2>4. ASSUME NEW node \in N, NEW path \in FieldPaths, NEW on \in SUBSET N,
                 Left(g, on) <= n + 1, node \notin on, NEW part \in Parts
          PROVE  Held(g, c, T, node, path, on, part) = Held(g, c, U, node, path, on, part)
      <3> DEFINE more == on \cup {node}
      <3>1. more \in SUBSET N /\ Left(g, more) <= n
        BY LeftFacts, <2>4
      <3> HIDE DEF more
      <3>2. \A m \in N, p \in FieldPaths : U[<<m, p, more>>] = T[<<m, p, more>>]
        BY <2>1, <2>2, <3>1
      <3>3. \A i \in 1..Len(Items(g, node, part)) :
              Worth(c, T, Items(g, node, part)[i], PathAt(g, node, path, part, i), more)
                = Worth(c, U, Items(g, node, part)[i], PathAt(g, node, path, part, i), more)
        <4> TAKE i \in 1..Len(Items(g, node, part))
        <4>1. Items(g, node, part)[i] \in DOMAIN g \cup Strings /\ PathAt(g, node, path, part, i) \in FieldPaths
          BY ItemsFacts
        <4> QED BY <3>2, <4>1 DEF Worth
      <3>4. Worths(g, c, T, node, path, more, part) = Worths(g, c, U, node, path, more, part)
        BY <3>3 DEF Worths
      <3> QED BY <3>4 DEF Held, more
    <2>5. ASSUME NEW node \in N, NEW path \in FieldPaths, NEW on \in SUBSET N, Left(g, on) <= n + 1
          PROVE  U[<<node, path, on>>] = Counted(g, c, U, node, path, on)
      <3>1. Counted(g, c, T, node, path, on) = Counted(g, c, U, node, path, on)
        BY <2>4, <2>5 DEF Counted, Parts
      <3> QED BY <2>2, <3>1
    <2>6. UpTo(n + 1, U)
      BY <2>3, <2>5
    <2> QED BY <2>6
  <1>6. S = Nat
    <2>1. S \in SUBSET Nat
      OBVIOUS
    <2> HIDE DEF S
    <2> QED BY <1>4, <1>5, <2>1, Induction
  <1>7. Left(g, {}) \in Nat /\ \A on \in SUBSET N : Left(g, on) <= Left(g, {})
    BY LeftFacts
  <1>8. PICK T : UpTo(Left(g, {}), T)
    <2>1. Left(g, {}) \in S
      <3> HIDE DEF S
      <3> QED BY <1>6, <1>7
    <2> QED BY <2>1
  <1>9. IsTally(g, c, T)
    BY <1>7, <1>8 DEF IsTally
  <1> QED BY <1>9

(***************************************************************************)
(* Field paths.                                                            *)
(***************************************************************************)

LEMMA LongerPath ==
  ASSUME NEW path \in FieldPaths, NEW k \in Labels
  PROVE  /\ Append(path, k) # << >>
         /\ \A p \in FieldPaths : StartsWith(path, p) => StartsWith(Append(path, k), p)
         /\ \A p \in FieldPaths : StartsWith(p, Append(path, k)) => StartsWith(p, path)
         /\ \A p \in FieldPaths : StartsWith(Append(path, k), p) => StartsWith(path, p) \/ StartsWith(p, path)
  <1> DEFINE q == Append(path, k)
  <1>1. /\ q \in FieldPaths /\ Len(path) \in Nat /\ Len(q) = Len(path) + 1
        /\ \A i \in 1..Len(path) : q[i] = path[i]
    <2>1. path \in Seq(Labels) /\ Len(path) \in Nat
      BY LenProperties DEF FieldPaths
    <2>2. /\ q \in Seq(Labels) /\ Len(q) = Len(path) + 1
          /\ \A i \in 1..Len(path) : q[i] = path[i]
      BY <2>1, AppendProperties
    <2> QED BY <2>1, <2>2 DEF FieldPaths
  <1> HIDE DEF q
  <1>2. \A p \in FieldPaths : Len(p) \in Nat
    BY LenProperties DEF FieldPaths
  <1>3. q # << >>
    BY <1>1, EmptySeq
  <1>4. ASSUME NEW p \in FieldPaths, StartsWith(path, p) PROVE StartsWith(q, p)
    BY <1>1, <1>2, <1>4 DEF StartsWith
  <1>5. ASSUME NEW p \in FieldPaths, StartsWith(p, q) PROVE StartsWith(p, path)
    BY <1>1, <1>2, <1>5 DEF StartsWith
  <1>6. ASSUME NEW p \in FieldPaths, StartsWith(q, p) PROVE StartsWith(path, p) \/ StartsWith(p, path)
    <2>1. Len(p) <= Len(path) \/ Len(p) = Len(path) + 1
      BY <1>1, <1>2, <1>6 DEF StartsWith
    <2> QED BY <1>1, <1>2, <1>6, <2>1 DEF StartsWith
  <1> QED BY <1>3, <1>4, <1>5, <1>6 DEF q

(* What is not traversed is not scanned, and neither is what lies under it.*)
LEMMA NotTraversed ==
  ASSUME NEW c \in Configs, NEW path \in FieldPaths, ~Traverses(c, path)
  PROVE  /\ ~Scans(c, path)
         /\ \A k \in Labels : ~Traverses(c, Append(path, k))
  <1>1. c.allow \subseteq FieldPaths /\ c.deny \subseteq FieldPaths
    BY ScanAssumption DEF FieldPaths, Labels
  <1>2. ~Scans(c, path)
    BY DEF Scans, Traverses
  <1>3. ASSUME NEW k \in Labels PROVE ~Traverses(c, Append(path, k))
    BY <1>1, LongerPath DEF Traverses
  <1> QED BY <1>2, <1>3

(* There is nothing to find where the first pass does not go.              *)
LEMMA NothingSkipped ==
  ASSUME NEW g \in Graphs, NEW c \in Configs, NEW T, IsTally(g, c, T)
  PROVE  \A node \in DOMAIN g, path \in FieldPaths, on \in SUBSET DOMAIN g :
            ~Traverses(c, path) => T[<<node, path, on>>] = 0
  <1> DEFINE N == DOMAIN g
             S == {n \in Nat : \A node \in N, path \in FieldPaths, on \in SUBSET N :
                     Left(g, on) <= n /\ ~Traverses(c, path) => T[<<node, path, on>>] = 0}
  <1>1. \A on \in SUBSET N : Left(g, on) \in Nat
    BY LeftFacts
  <1>4. /\ T \in [Walks(g) -> Nat]
        /\ \A node \in N, path \in FieldPaths, on \in SUBSET N :
              T[<<node, path, on>>] = Counted(g, c, T, node, path, on)
    BY DEF IsTally
  <1>5. 0 \in S
    <2>1. ASSUME NEW node \in N, NEW path \in FieldPaths, NEW on \in SUBSET N, Left(g, on) <= 0
          PROVE  T[<<node, path, on>>] = 0
      BY LeftFacts, <1>4, <2>1 DEF Counted
    <2> QED BY <2>1
  <1>6. ASSUME NEW n \in S PROVE n + 1 \in S
    <2>1. ASSUME NEW node \in N, NEW path \in FieldPaths, NEW on \in SUBSET N,
                 Left(g, on) <= n + 1, ~Traverses(c, path), node \notin on, NEW part \in Parts
          PROVE  Held(g, c, T, node, path, on, part) = 0
      <3> DEFINE more == on \cup {node}
                 v == Worths(g, c, T, node, path, more, part)
      <3>1. more \in SUBSET N /\ Left(g, more) <= n
        BY LeftFacts, <2>1
      <3> HIDE DEF more
      <3>2. \A m \in N, p \in FieldPaths : ~Traverses(c, p) => T[<<m, p, more>>] = 0
        BY <3>1
      <3>3. /\ v \in Seq(Nat) /\ Len(v) = Len(Items(g, node, part))
            /\ \A i \in 1..Len(v) :
                 v[i] = Worth(c, T, Items(g, node, part)[i], PathAt(g, node, path, part, i), more)
        <4>1. AreWorths(g, c, T, node, path, more, part, v)
          BY <1>4, <3>1, WorthsFacts
        <4> QED BY <4>1 DEF AreWorths
      <3>4. \A i \in 1..Len(v) : v[i] = 0
        <4> TAKE i \in 1..Len(v)
        <4>1. /\ Items(g, node, part)[i] \in N \cup Strings
              /\ PathAt(g, node, path, part, i) \in FieldPaths
              /\ ~Traverses(c, PathAt(g, node, path, part, i))
          <5>1. i \in 1..Len(Items(g, node, part))
            BY <3>3
          <5>2. /\ Items(g, node, part)[i] \in N \cup Strings
                /\ PathAt(g, node, path, part, i) \in FieldPaths
                /\ \/ PathAt(g, node, path, part, i) = path
                   \/ \E k \in Labels : PathAt(g, node, path, part, i) = Append(path, k)
            BY <5>1, ItemsFacts
          <5> QED BY <2>1, <5>2, NotTraversed
        <4>2. ~Scans(c, PathAt(g, node, path, part, i))
          BY <4>1, NotTraversed
        <4> QED BY <3>2, <3>3, <4>1, <4>2 DEF Worth
      <3>5. Total(v) = 0
        BY <3>3, <3>4, SumsOfZeros
      <3> QED BY <3>5 DEF Held, more
    <2>2. ASSUME NEW node \in N, NEW path \in FieldPaths, NEW on \in SUBSET N,
                 Left(g, on) <= n + 1, ~Traverses(c, path)
          PROVE  T[<<node, path, on>>] = 0
      BY <1>4, <2>1, <2>2 DEF Counted, Parts
    <2> QED BY <2>2
  <1>7. S = Nat
    <2>1. S \in SUBSET Nat
      OBVIOUS
    <2> HIDE DEF S
    <2> QED BY <1>5, <1>6, <2>1, Induction
  <1>8. ASSUME NEW node \in N, NEW path \in FieldPaths, NEW on \in SUBSET N, ~Traverses(c, path)
        PROVE  T[<<node, path, on>>] = 0
    <2>1. Left(g, on) \in S
      <3> HIDE DEF S
      <3> QED BY <1>1, <1>7
    <2> QED BY <1>1, <1>8, <2>1
  <1> QED BY <1>8


(***************************************************************************)
(* Stacks.                                                                 *)
(***************************************************************************)

IsSeq(s) == s \in Seq(Range(s))

LEMMA IsSeqOf ==
  ASSUME NEW S, NEW s \in Seq(S)
  PROVE  /\ IsSeq(s) /\ Len(s) \in Nat /\ DOMAIN s = 1..Len(s)
         /\ \A i \in 1..Len(s) : s[i] \in S
  <1>1. Len(s) \in Nat /\ s \in [1..Len(s) -> S]
    BY LenProperties
  <1>2. s \in [1..Len(s) -> Range(s)]
    BY <1>1 DEF Range
  <1>3. s \in Seq(Range(s))
    BY <1>1, <1>2, SeqDef
  <1> QED BY <1>1, <1>3 DEF IsSeq

LEMMA IsSeqFacts ==
  ASSUME NEW s, IsSeq(s)
  PROVE  /\ Len(s) \in Nat /\ DOMAIN s = 1..Len(s)
         /\ \A i \in 1..Len(s) : s[i] \in Range(s)
         /\ s \in [1..Len(s) -> Range(s)]
  BY LenProperties DEF IsSeq, Range

LEMMA IsSeqPush ==
  ASSUME NEW s, IsSeq(s), NEW e
  PROVE  /\ IsSeq(Append(s, e)) /\ Len(Append(s, e)) = Len(s) + 1
         /\ \A i \in 1..Len(s) : Append(s, e)[i] = s[i]
         /\ Append(s, e)[Len(s) + 1] = e
  <1> DEFINE S == Range(s) \cup {e}
  <1>1. Len(s) \in Nat /\ s \in [1..Len(s) -> S]
    BY IsSeqFacts
  <1>2. s \in Seq(S) /\ e \in S
    BY <1>1, SeqDef
  <1> HIDE DEF S
  <1>3. /\ Append(s, e) \in Seq(S) /\ Len(Append(s, e)) = Len(s) + 1
        /\ \A i \in 1..Len(s) : Append(s, e)[i] = s[i]
        /\ Append(s, e)[Len(s) + 1] = e
    BY <1>2, AppendProperties
  <1> QED BY <1>3, IsSeqOf

LEMMA IsSeqFront ==
  ASSUME NEW s, IsSeq(s), Len(s) > 0
  PROVE  LET t == SubSeq(s, 1, Len(s) - 1)
         IN  /\ IsSeq(t) /\ Len(t) = Len(s) - 1
             /\ \A i \in 1..(Len(s) - 1) : t[i] = s[i]
  <1> DEFINE n == Len(s) - 1
  <1>1. s \in Seq(Range(s)) /\ Len(s) \in Nat /\ n \in Nat /\ n + 1 = Len(s)
    BY IsSeqFacts DEF IsSeq
  <1>2. \A i \in 1..n : s[i] \in Range(s)
    BY <1>1, IsSeqFacts
  <1> HIDE DEF n
  <1>3. /\ SubSeq(s, 1, n) \in Seq(Range(s)) /\ Len(SubSeq(s, 1, n)) = n
        /\ \A i \in 1..n : SubSeq(s, 1, n)[i] = s[i]
    <2>1. CASE n = 0
      <3>1. SubSeq(s, 1, n) = << >>
        BY <2>1, SubSeqEmpty
      <3> QED BY <2>1, <3>1, EmptySeq
    <2>2. CASE n > 0
      <3>1. /\ SubSeq(s, 1, n) \in Seq(Range(s)) /\ Len(SubSeq(s, 1, n)) = n - 1 + 1
            /\ \A i \in 1..(n - 1 + 1) : SubSeq(s, 1, n)[i] = s[1 + i - 1]
        BY <1>2, <1>1, <2>2, SubSeqProperties
      <3> QED BY <1>1, <3>1
    <2> QED BY <1>1, <2>1, <2>2
  <1>4. IsSeq(SubSeq(s, 1, n))
    BY <1>3, IsSeqOf
  <1> QED BY <1>3, <1>4 DEF n

(* The stack t is s with another frame on top.                             *)
TopIs(s, e, t) == /\ IsSeq(t) /\ Len(t) = Len(s)
                  /\ \A i \in 1..(Len(s) - 1) : t[i] = s[i]
                  /\ t[Len(s)] = e

LEMMA TopReplaced ==
  ASSUME NEW s, IsSeq(s), Len(s) > 0, NEW e
  PROVE  /\ TopIs(s, e, [s EXCEPT ![Len(s)] = e])
         /\ TopIs(s, e, Append(SubSeq(s, 1, Len(s) - 1), e))
  <1> DEFINE n == Len(s)
             S == Range(s) \cup {e}
             t == [s EXCEPT ![n] = e]
             b == SubSeq(s, 1, n - 1)
             u == Append(b, e)
  <1>1. n \in Nat /\ n > 0 /\ s \in [1..n -> S] /\ DOMAIN s = 1..n
    BY IsSeqFacts
  <1>2. TopIs(s, e, t)
    <2>1. e \in S
      OBVIOUS
    <2> HIDE DEF S, n
    <2>2. /\ t \in [1..n -> S] /\ t[n] = e /\ \A i \in 1..(n - 1) : t[i] = s[i]
      BY <1>1, <2>1
    <2>3. t \in Seq(S)
      BY <1>1, <2>2, SeqDef
    <2> HIDE DEF t
    <2>4. IsSeq(t) /\ Len(t) = n
      <3>1. DOMAIN t = 1..n /\ DOMAIN t = 1..Len(t) /\ Len(t) \in Nat
        BY <2>2, <2>3, LenProperties
      <3> QED BY <1>1, <2>3, <3>1, IsSeqOf
    <2>5. TopIs(s, e, t)
      BY <2>2, <2>4 DEF TopIs, n
    <2> QED BY <2>5
  <1>3. TopIs(s, e, u)
    <2>1. /\ IsSeq(b) /\ Len(b) = n - 1
          /\ \A i \in 1..(n - 1) : b[i] = s[i]
      BY IsSeqFront
    <2> HIDE DEF b
    <2>2. /\ IsSeq(u) /\ Len(u) = n - 1 + 1 /\ u[n - 1 + 1] = e
          /\ \A i \in 1..(n - 1) : u[i] = b[i]
      BY <2>1, IsSeqPush
    <2>3. n - 1 + 1 = n
      BY <1>1
    <2> HIDE DEF u, n
    <2>4. TopIs(s, e, u)
      BY <2>1, <2>2, <2>3 DEF TopIs, n
    <2> QED BY <2>4
  <1> QED BY <1>2, <1>3

(***************************************************************************)
(* The calls in progress.                                                  *)
(***************************************************************************)

FrameFields == {"node", "path", "part", "copy", "values", "partCount", "count", "rebuilt"}
FrameItems(g, f) == Items(g, f.node, f.part)

(* A call that is on its way through a container that is not in on.        *)
CallOK(g, on, f) ==
    /\ DOMAIN f = FrameFields /\ on \subseteq DOMAIN g
    /\ f.node \in DOMAIN g \ on /\ f.path \in FieldPaths /\ f.part \in Parts
    /\ IsSeq(f.values) /\ Len(f.values) <= Len(FrameItems(g, f))
    /\ f.part = "extras" => g[f.node].extras # << >>

(* It has counted what it has walked.                                      *)
CountOK(g, c, T, on, f) ==
    /\ f.partCount = Sums(Worths(g, c, T, f.node, f.path, on \cup {f.node}, f.part))[Len(f.values)]
    /\ f.count = IF f.part = "kids" THEN 0 ELSE Held(g, c, T, f.node, f.path, on, "kids")

FrameOK(g, c, T, on, f) == CallOK(g, on, f) /\ CountOK(g, c, T, on, f)

(* The call e is for the next value of the call f.                         *)
CalledBy(g, f, e) ==
    /\ Len(f.values) < Len(FrameItems(g, f))
    /\ FrameItems(g, f)[Len(f.values) + 1] = e.node
    /\ PathAt(g, f.node, f.path, f.part, Len(f.values) + 1) = e.path

(* The containers of the first n calls.                                    *)
Running(s, n) == {s[j].node : j \in 1..n}

Calls(g, c, T, s) ==
    /\ IsSeq(s)
    /\ \A k \in 1..Len(s) : FrameOK(g, c, T, Running(s, k - 1), s[k])
    /\ \A k \in 1..(Len(s) - 1) : CalledBy(g, s[k], s[k + 1])
    /\ Len(s) > 0 => s[1].node = Root /\ s[1].path = << >>

LEMMA RunningSame ==
  ASSUME NEW s, NEW t, NEW n \in Nat, \A i \in 1..n : t[i] = s[i]
  PROVE  \A k \in 0..n : Running(t, k) = Running(s, k)
  BY DEF Running

LEMMA RunningMore ==
  ASSUME NEW s, NEW n \in Nat, n > 0
  PROVE  Running(s, n) = Running(s, n - 1) \cup {s[n].node}
  <1>1. 1..n = (1..(n - 1)) \cup {n}
    OBVIOUS
  <1> QED BY <1>1 DEF Running

LEMMA CallsTop ==
  ASSUME NEW g, NEW c, NEW T, NEW s, Calls(g, c, T, s), Len(s) > 0, NEW e, NEW t,
         FrameOK(g, c, T, Running(s, Len(s) - 1), e), TopIs(s, e, t),
         e.node = s[Len(s)].node, e.path = s[Len(s)].path
  PROVE  Calls(g, c, T, t) /\ Len(t) = Len(s) /\ Running(t, Len(t)) = Running(s, Len(s))
  <1> DEFINE n == Len(s)
  <1>1. n \in Nat /\ n > 0 /\ Len(t) = n /\ IsSeq(t) /\ t[n] = e /\ \A i \in 1..(n - 1) : t[i] = s[i]
    BY IsSeqFacts DEF Calls, TopIs
  <1>2. \A i \in 1..n : t[i].node = s[i].node /\ t[i].path = s[i].path
    BY <1>1
  <1> HIDE DEF n
  <1>3. \A k \in 0..n : Running(t, k) = Running(s, k)
    <2> TAKE k \in 0..n
    <2>1. \A i \in 1..k : t[i].node = s[i].node
      BY <1>1, <1>2
    <2> QED BY <2>1 DEF Running
  <1>4. \A k \in 1..n : FrameOK(g, c, T, Running(t, k - 1), t[k])
    <2> TAKE k \in 1..n
    <2>1. Running(t, k - 1) = Running(s, k - 1)
      BY <1>1, <1>3
    <2>2. CASE k = n
      BY <1>1, <2>1, <2>2 DEF n
    <2>3. CASE k # n
      <3>1. t[k] = s[k]
        BY <1>1, <2>3
      <3> QED BY <2>1, <3>1 DEF Calls, n
    <2> QED BY <2>2, <2>3
  <1>5. \A k \in 1..(n - 1) : CalledBy(g, t[k], t[k + 1])
    <2> TAKE k \in 1..(n - 1)
    <2>1. t[k] = s[k] /\ k + 1 \in 1..n
      BY <1>1
    <2>2. CalledBy(g, s[k], s[k + 1])
      BY DEF Calls, n
    <2> QED BY <1>2, <2>1, <2>2 DEF CalledBy
  <1>6. t[1].node = Root /\ t[1].path = << >>
    BY <1>1, <1>2 DEF Calls, n
  <1>7. Calls(g, c, T, t)
    BY <1>1, <1>4, <1>5, <1>6 DEF Calls
  <1>8. Running(t, n) = Running(s, n)
    BY <1>1, <1>3
  <1> QED BY <1>1, <1>7, <1>8 DEF n

LEMMA CallsPush ==
  ASSUME NEW g, NEW c, NEW T, NEW s, Calls(g, c, T, s), NEW e,
         FrameOK(g, c, T, Running(s, Len(s)), e),
         Len(s) > 0 => CalledBy(g, s[Len(s)], e),
         Len(s) = 0 => e.node = Root /\ e.path = << >>
  PROVE  /\ Calls(g, c, T, Append(s, e)) /\ Len(Append(s, e)) = Len(s) + 1
         /\ Running(Append(s, e), Len(s) + 1) = Running(s, Len(s)) \cup {e.node}
  <1> DEFINE n == Len(s)
             t == Append(s, e)
  <1>1. n \in Nat /\ Len(t) = n + 1 /\ IsSeq(t) /\ t[n + 1] = e /\ \A i \in 1..n : t[i] = s[i]
    BY IsSeqFacts, IsSeqPush DEF Calls
  <1> HIDE DEF n, t
  <1>2. \A k \in 0..n : Running(t, k) = Running(s, k)
    BY <1>1, RunningSame
  <1>3. \A k \in 1..(n + 1) : FrameOK(g, c, T, Running(t, k - 1), t[k])
    <2> TAKE k \in 1..(n + 1)
    <2>1. Running(t, k - 1) = Running(s, k - 1)
      BY <1>1, <1>2
    <2>2. CASE k = n + 1
      BY <1>1, <2>1, <2>2 DEF n
    <2>3. CASE k # n + 1
      <3>1. t[k] = s[k] /\ k \in 1..n
        BY <1>1, <2>3
      <3> QED BY <2>1, <3>1 DEF Calls, n
    <2> QED BY <2>2, <2>3
  <1>4. \A k \in 1..n : CalledBy(g, t[k], t[k + 1])
    <2> TAKE k \in 1..n
    <2>1. CASE k = n
      BY <1>1, <2>1 DEF n
    <2>2. CASE k # n
      <3>1. t[k] = s[k] /\ k + 1 \in 1..n /\ t[k + 1] = s[k + 1] /\ k \in 1..(n - 1)
        BY <1>1, <2>2
      <3> QED BY <3>1 DEF Calls, n
    <2> QED BY <2>1, <2>2
  <1>5. t[1].node = Root /\ t[1].path = << >>
    <2>1. CASE n = 0
      BY <1>1, <2>1 DEF n
    <2>2. CASE n > 0
      BY <1>1, <2>2 DEF Calls, n
    <2> QED BY <1>1, <2>1, <2>2
  <1>6. Calls(g, c, T, t)
    <2>1. Len(t) - 1 = n
      BY <1>1
    <2> QED BY <1>1, <1>3, <1>4, <1>5, <2>1 DEF Calls
  <1>7. Running(t, n + 1) = Running(s, n) \cup {e.node}
    <2>1. Running(t, n + 1) = Running(t, (n + 1) - 1) \cup {t[n + 1].node}
      BY <1>1, RunningMore
    <2> QED BY <1>1, <1>2, <2>1
  <1> QED BY <1>1, <1>6, <1>7 DEF n, t

LEMMA CallsPop ==
  ASSUME NEW g, NEW c, NEW T, NEW s, Calls(g, c, T, s), Len(s) > 0
  PROVE  LET b == SubSeq(s, 1, Len(s) - 1)
         IN  /\ Calls(g, c, T, b) /\ Len(b) = Len(s) - 1
             /\ Running(b, Len(b)) = Running(s, Len(s) - 1)
             /\ Running(s, Len(s) - 1) = Running(s, Len(s)) \ {s[Len(s)].node}
             /\ Len(b) > 0 => CalledBy(g, b[Len(b)], s[Len(s)])
  <1> DEFINE n == Len(s)
             b == SubSeq(s, 1, n - 1)
  <1>1. n \in Nat /\ n > 0 /\ Len(b) = n - 1 /\ IsSeq(b) /\ \A i \in 1..(n - 1) : b[i] = s[i]
    BY IsSeqFacts, IsSeqFront DEF Calls
  <1> HIDE DEF n, b
  <1>2. \A k \in 0..(n - 1) : Running(b, k) = Running(s, k)
    <2>1. n - 1 \in Nat
      BY <1>1
    <2> QED BY <1>1, <2>1, RunningSame
  <1>3. \A k \in 1..(n - 1) : FrameOK(g, c, T, Running(b, k - 1), b[k])
    <2> TAKE k \in 1..(n - 1)
    <2>1. Running(b, k - 1) = Running(s, k - 1) /\ b[k] = s[k] /\ k \in 1..n
      BY <1>1, <1>2
    <2> QED BY <2>1 DEF Calls, n
  <1>4. \A k \in 1..(n - 1) : CalledBy(g, s[k], s[k + 1])
    BY DEF Calls, n
  <1>5. \A k \in 1..(n - 2) : CalledBy(g, b[k], b[k + 1])
    <2> TAKE k \in 1..(n - 2)
    <2>1. b[k] = s[k] /\ b[k + 1] = s[k + 1] /\ k \in 1..(n - 1)
      BY <1>1
    <2> QED BY <1>4, <2>1
  <1>6. Len(b) > 0 => b[1].node = Root /\ b[1].path = << >>
    BY <1>1 DEF Calls, n
  <1>7. Calls(g, c, T, b)
    <2>1. Len(b) - 1 = n - 2
      BY <1>1
    <2> QED BY <1>1, <1>3, <1>5, <1>6, <2>1 DEF Calls
  <1>8. Running(s, n - 1) = Running(s, n) \ {s[n].node}
    <2>1. Running(s, n) = Running(s, n - 1) \cup {s[n].node}
      BY <1>1, RunningMore
    <2>2. s[n].node \notin Running(s, n - 1)
      BY <1>1 DEF Calls, n, FrameOK, CallOK
    <2> QED BY <2>1, <2>2
  <1>9. Len(b) > 0 => CalledBy(g, b[Len(b)], s[n])
    <2> HAVE Len(b) > 0
    <2>1. Len(b) \in 1..(n - 1) /\ Len(b) + 1 = n
      BY <1>1
    <2> QED BY <1>1, <1>4, <2>1
  <1>10. Running(b, Len(b)) = Running(s, n - 1)
    BY <1>1, <1>2
  <1> QED BY <1>1, <1>7, <1>8, <1>9, <1>10 DEF n, b

LEMMA NoCalls == ASSUME NEW g, NEW c, NEW T PROVE Calls(g, c, T, << >>) /\ Running(<< >>, 0) = {}
  <1>1. << >> \in Seq({}) /\ Len(<< >>) = 0
    BY EmptySeq
  <1>2. IsSeq(<< >>)
    BY <1>1, IsSeqOf
  <1> QED BY <1>1, <1>2 DEF Calls, Running


(***************************************************************************)
(* What a call does to the counts.                                         *)
(***************************************************************************)

FrameWorths(g, c, T, on, f) == Worths(g, c, T, f.node, f.path, on \cup {f.node}, f.part)

FrameSums(g, c, T, on, f, v, m) ==
    /\ v \in Seq(Nat) /\ Len(v) = m /\ m = Len(FrameItems(g, f)) /\ m \in Nat
    /\ on \cup {f.node} \in SUBSET DOMAIN g
    /\ \A i \in 1..m :
         v[i] = Worth(c, T, FrameItems(g, f)[i],
                      PathAt(g, f.node, f.path, f.part, i), on \cup {f.node})
    /\ Len(f.values) \in 0..m
    /\ f.partCount \in Nat /\ f.count \in Nat
    /\ f.partCount = Sums(v)[Len(f.values)]

LEMMA FrameFacts ==
  ASSUME NEW g \in Graphs, NEW c, NEW T, IsTally(g, c, T),
         NEW on, NEW f, FrameOK(g, c, T, on, f)
  PROVE  FrameSums(g, c, T, on, f, FrameWorths(g, c, T, on, f), Len(FrameItems(g, f)))
  <1> DEFINE more == on \cup {f.node}
             v == Worths(g, c, T, f.node, f.path, more, f.part)
             m == Len(FrameItems(g, f))
  <1>1. f.node \in DOMAIN g /\ f.path \in FieldPaths /\ f.part \in Parts /\ IsSeq(f.values)
        /\ Len(f.values) <= m /\ on \in SUBSET DOMAIN g
    BY DEF FrameOK, CallOK
  <1>2. more \in SUBSET DOMAIN g /\ T \in [Walks(g) -> Nat]
    BY <1>1 DEF IsTally
  <1> HIDE DEF more
  <1>3. /\ v \in Seq(Nat) /\ Len(v) = m /\ m \in Nat
        /\ \A i \in 1..Len(v) : v[i] = Worth(c, T, FrameItems(g, f)[i],
                                             PathAt(g, f.node, f.path, f.part, i), more)
    <2>1. m \in Nat
      BY <1>1, ItemsFacts DEF FrameItems
    <2>2. /\ v \in Seq(Nat) /\ Len(v) = Len(Items(g, f.node, f.part))
          /\ \A i \in 1..Len(v) : v[i] = Worth(c, T, Items(g, f.node, f.part)[i],
                                               PathAt(g, f.node, f.path, f.part, i), more)
      <3>1. AreWorths(g, c, T, f.node, f.path, more, f.part, v)
        BY <1>1, <1>2, WorthsFacts
      <3> QED BY <3>1 DEF AreWorths
    <2> QED BY <2>1, <2>2 DEF FrameItems
  <1>4. Len(f.values) \in 0..m
    BY <1>1, <1>3, IsSeqFacts
  <1> HIDE DEF v, m
  <1>5. Sums(v)[Len(f.values)] \in Nat
    BY <1>3, <1>4, SumsFacts
  <1>6. Held(g, c, T, f.node, f.path, on, "kids") \in Nat
    BY <1>1, <1>2, HeldType
  <1>7. f.partCount \in Nat /\ f.count \in Nat
    BY <1>5, <1>6 DEF FrameOK, CountOK, v, more
  <1>8. v = FrameWorths(g, c, T, on, f)
    BY DEF v, more, FrameWorths
  <1>9. f.partCount = Sums(v)[Len(f.values)]
    BY DEF FrameOK, CountOK, v, more
  <1>10. FrameSums(g, c, T, on, f, v, m)
    BY <1>2, <1>3, <1>4, <1>7, <1>9 DEF m, more, FrameSums
  <1> QED BY <1>8, <1>10 DEF m

(* The next value is worth what its walk counts.                           *)
LEMMA FrameTakes ==
  ASSUME NEW g \in Graphs, NEW c, NEW T, IsTally(g, c, T),
         NEW on, NEW f, FrameOK(g, c, T, on, f),
         Len(f.values) # Len(FrameItems(g, f)), NEW value, NEW n,
         n = Worth(c, T, FrameItems(g, f)[Len(f.values) + 1],
                   PathAt(g, f.node, f.path, f.part, Len(f.values) + 1), on \cup {f.node})
  PROVE  FrameOK(g, c, T, on, [f EXCEPT !.values = Append(@, value), !.partCount = @ + n])
  <1> DEFINE e == [f EXCEPT !.values = Append(@, value), !.partCount = @ + n]
             k == Len(f.values)
             v == FrameWorths(g, c, T, on, f)
             m == Len(FrameItems(g, f))
  <1>1. /\ v \in Seq(Nat) /\ Len(v) = m /\ m \in Nat /\ k \in 0..m /\ f.partCount = Sums(v)[k]
        /\ \A i \in 1..m : v[i] = Worth(c, T, FrameItems(g, f)[i],
                                        PathAt(g, f.node, f.path, f.part, i), on \cup {f.node})
    <2>1. FrameSums(g, c, T, on, f, v, m)
      BY FrameFacts
    <2> QED BY <2>1 DEF FrameSums
  <1>2. k \in 0..(m - 1) /\ k + 1 \in 1..m
    BY <1>1
  <1>3. IsSeq(Append(f.values, value)) /\ Len(Append(f.values, value)) = k + 1
    BY IsSeqPush DEF FrameOK, CallOK
  <1>4. /\ DOMAIN f = FrameFields /\ DOMAIN e = DOMAIN f
        /\ e.node = f.node /\ e.path = f.path /\ e.part = f.part /\ e.count = f.count
        /\ e.values = Append(f.values, value) /\ e.partCount = f.partCount + n
    BY DEF FrameOK, CallOK, FrameFields
  <1>5. n = v[k + 1]
    BY <1>1, <1>2
  <1>6. f.partCount = Sums(v)[k]
    BY <1>1
  <1> HIDE DEF v, e, k, m
  <1>7. Sums(v)[k + 1] = Sums(v)[k] + v[k + 1]
    BY <1>1, <1>2, SumsFacts
  <1>8. e.partCount = Sums(v)[Len(e.values)]
    BY <1>3, <1>4, <1>5, <1>6, <1>7
  <1>9. CountOK(g, c, T, on, e)
    BY <1>4, <1>8 DEF FrameOK, CountOK, v, FrameWorths
  <1>10. CallOK(g, on, e)
    BY <1>2, <1>3, <1>4 DEF FrameOK, CallOK, FrameItems, m
  <1> QED BY <1>9, <1>10 DEF FrameOK, e

(* A call that has walked all values of its container returns its count.   *)
HasCounted(g, c, T, on, f) ==
    /\ f.part = "extras" \/ g[f.node].extras = << >> =>
         T[<<f.node, f.path, on>>] = f.count + f.partCount
    /\ f.part = "kids" => f.count = 0
    /\ f.part = "kids" => f.partCount = Held(g, c, T, f.node, f.path, on, "kids")
    /\ f.count \in Nat /\ f.partCount \in Nat

LEMMA FrameReturns ==
  ASSUME NEW g \in Graphs, NEW c, NEW T, IsTally(g, c, T),
         NEW on, NEW f, FrameOK(g, c, T, on, f),
         Len(f.values) = Len(FrameItems(g, f))
  PROVE  HasCounted(g, c, T, on, f)
  <1> DEFINE v == FrameWorths(g, c, T, on, f)
             kids == Held(g, c, T, f.node, f.path, on, "kids")
             extras == Held(g, c, T, f.node, f.path, on, "extras")
  <1>1. /\ v \in Seq(Nat) /\ Len(v) = Len(f.values) /\ f.partCount = Sums(v)[Len(f.values)]
        /\ f.partCount \in Nat /\ f.count \in Nat
    <2>1. FrameSums(g, c, T, on, f, v, Len(FrameItems(g, f)))
      BY FrameFacts
    <2> QED BY <2>1 DEF FrameSums
  <1>2. f.partCount = Held(g, c, T, f.node, f.path, on, f.part)
    BY <1>1 DEF Total, Held, FrameWorths
  <1>3. f.count = IF f.part = "kids" THEN 0 ELSE kids
    BY DEF FrameOK, CountOK
  <1>4. /\ f.node \in DOMAIN g \ on /\ f.path \in FieldPaths /\ f.part \in Parts
        /\ f.part = "extras" => g[f.node].extras # << >>
        /\ on \in SUBSET DOMAIN g
    BY DEF FrameOK, CallOK
  <1>5. T[<<f.node, f.path, on>>] = kids + extras
    BY <1>4 DEF IsTally, Counted
  <1>6. ASSUME g[f.node].extras = << >> PROVE extras = 0
    <2> DEFINE w == Worths(g, c, T, f.node, f.path, on \cup {f.node}, "extras")
    <2>1. w \in Seq(Nat) /\ Len(w) = Len(Items(g, f.node, "extras"))
      <3>1. on \cup {f.node} \in SUBSET DOMAIN g /\ T \in [Walks(g) -> Nat] /\ "extras" \in Parts
        BY <1>4 DEF IsTally, Parts
      <3>2. AreWorths(g, c, T, f.node, f.path, on \cup {f.node}, "extras", w)
        BY <1>4, <3>1, WorthsFacts
      <3> QED BY <3>2 DEF AreWorths
    <2>2. Len(w) = 0
      BY <1>6, <2>1, EmptySeq DEF Items
    <2>3. Total(w) = 0
      BY <2>1, <2>2, SumsFacts
    <2> QED BY <2>3 DEF Held
  <1>7. kids \in Nat /\ extras \in Nat
    BY <1>4, HeldType DEF IsTally
  <1> HIDE DEF kids, extras, v
  <1>8. f.part = "kids" \/ f.part = "extras"
    BY <1>4 DEF Parts
  <1>9. f.part = "kids" => f.partCount = kids
    BY <1>2 DEF kids
  <1>10. f.part = "extras" => f.partCount = extras
    BY <1>2 DEF extras
  <1>11. f.part = "extras" \/ g[f.node].extras = << >> => T[<<f.node, f.path, on>>] = f.count + f.partCount
    BY <1>3, <1>4, <1>5, <1>6, <1>7, <1>8, <1>9, <1>10
  <1> QED BY <1>1, <1>3, <1>9, <1>11 DEF kids, HasCounted

(* A call begins with nothing counted.                                     *)
LEMMA FrameBegins ==
  ASSUME NEW g \in Graphs, NEW c, NEW T, IsTally(g, c, T),
         NEW on \in SUBSET DOMAIN g, NEW f, DOMAIN f = FrameFields,
         f.node \in DOMAIN g \ on, f.path \in FieldPaths, f.part \in Parts,
         f.part = "extras" => g[f.node].extras # << >> /\ g[f.node].kids = << >>,
         f.values = << >>, f.partCount = 0, f.count = 0
  PROVE  FrameOK(g, c, T, on, f)
  <1>1. IsSeq(f.values) /\ Len(f.values) = 0
    BY IsSeqOf, EmptySeq
  <1>2. Len(FrameItems(g, f)) \in Nat
    BY ItemsFacts DEF FrameItems
  <1>3. CallOK(g, on, f)
    BY <1>1, <1>2 DEF CallOK
  <1> DEFINE v(part) == Worths(g, c, T, f.node, f.path, on \cup {f.node}, part)
  <1>4. \A part \in Parts : v(part) \in Seq(Nat) /\ Len(v(part)) = Len(Items(g, f.node, part))
    <2>1. on \cup {f.node} \in SUBSET DOMAIN g /\ T \in [Walks(g) -> Nat]
      BY DEF IsTally
    <2> TAKE part \in Parts
    <2>2. AreWorths(g, c, T, f.node, f.path, on \cup {f.node}, part, v(part))
      BY <2>1, WorthsFacts
    <2> QED BY <2>2 DEF AreWorths
  <1>5. f.partCount = Sums(v(f.part))[Len(f.values)]
    BY <1>1, <1>4, SumsFacts
  <1>6. ASSUME f.part = "extras" PROVE Held(g, c, T, f.node, f.path, on, "kids") = 0
    <2>1. v("kids") \in Seq(Nat) /\ Len(v("kids")) = 0
      BY <1>4, <1>6, EmptySeq DEF Items, Parts
    <2>2. Total(v("kids")) = 0
      BY <2>1, SumsFacts
    <2> QED BY <2>2 DEF Held
  <1>7. CountOK(g, c, T, on, f)
    BY <1>5, <1>6 DEF CountOK, Parts
  <1> QED BY <1>3, <1>7 DEF FrameOK

(* A call turns to the extras with its count so far.                       *)
LEMMA FrameTurns ==
  ASSUME NEW g \in Graphs, NEW c, NEW T, IsTally(g, c, T),
         NEW on, NEW f, FrameOK(g, c, T, on, f),
         Len(f.values) = Len(FrameItems(g, f)), f.part = "kids", g[f.node].extras # << >>,
         NEW e, DOMAIN e = FrameFields, e.node = f.node, e.path = f.path, e.part = "extras",
         e.values = << >>, e.partCount = 0, e.count = f.count + f.partCount
  PROVE  FrameOK(g, c, T, on, e)
  <1>1. IsSeq(e.values) /\ Len(e.values) = 0
    BY IsSeqOf, EmptySeq
  <1>2. /\ e.node \in DOMAIN g \ on /\ e.path \in FieldPaths /\ e.part \in Parts
        /\ on \cup {e.node} \in SUBSET DOMAIN g /\ on \in SUBSET DOMAIN g
    BY DEF FrameOK, CallOK, Parts
  <1>3. Len(FrameItems(g, e)) \in Nat
    BY <1>2, ItemsFacts DEF FrameItems
  <1>4. CallOK(g, on, e)
    BY <1>1, <1>2, <1>3 DEF CallOK
  <1> DEFINE v == Worths(g, c, T, e.node, e.path, on \cup {e.node}, e.part)
  <1>5. v \in Seq(Nat)
    <2>1. T \in [Walks(g) -> Nat]
      BY DEF IsTally
    <2>2. AreWorths(g, c, T, e.node, e.path, on \cup {e.node}, e.part, v)
      BY <1>2, <2>1, WorthsFacts
    <2> QED BY <2>2 DEF AreWorths
  <1>6. e.partCount = Sums(v)[Len(e.values)]
    BY <1>1, <1>5, SumsFacts
  <1>7. e.count = Held(g, c, T, e.node, e.path, on, "kids")
    <2>1. f.count = 0 /\ f.partCount = Held(g, c, T, f.node, f.path, on, "kids") /\ f.partCount \in Nat
      <3>1. HasCounted(g, c, T, on, f)
        BY FrameReturns
      <3> QED BY <3>1 DEF HasCounted
    <2> QED BY <2>1
  <1>8. CountOK(g, c, T, on, e)
    BY <1>6, <1>7 DEF CountOK
  <1> QED BY <1>4, <1>8 DEF FrameOK


(***************************************************************************)
(* The counts of both passes.                                              *)
(***************************************************************************)

GraphCount(T) == T[<<Root, << >>, {}>>]

(* The calls in progress, and what the first pass has left.                *)
Tallied(T) ==
    /\ IsTally(original, config, T)
    /\ Calls(original, config, T, stack)
    /\ pass = "redact" => found = GraphCount(T)

TallyOf(g, c) == CHOOSE T : IsTally(g, c, T)

CountInv ==
    /\ config \in Configs
    /\ pass \in {"find", "redact", "done"}
    /\ pass = "redact" => config.redact
    /\ pass # "done" => Len(stack) > 0
    /\ seen = Running(stack, Len(stack))
    /\ PassesAgree
    /\ \E T : T = TallyOf(original, config) /\ Tallied(T)

TallyInv == UntouchedInv /\ CountInv

LEMMA Unchanging ==
  ASSUME UntouchedInv
  PROVE  /\ original \in Graphs
         /\ \A i \in DOMAIN original : heap[i] = original[i]
  BY DEF UntouchedInv, HeapInv, Keeps

(* What the call in progress is about to look at.                          *)
AtChild(g, f) == /\ Len(f.values) # Len(FrameItems(g, f))
                 /\ Child = FrameItems(g, f)[Len(f.values) + 1]
                 /\ ChildPath = PathAt(g, f.node, f.path, f.part, Len(f.values) + 1)
                 /\ Child \in DOMAIN g \cup Strings
                 /\ ChildPath \in FieldPaths

LEMMA ScanningFacts ==
  ASSUME UntouchedInv, Len(stack) > 0, NEW T, Tallied(T)
  PROVE  /\ FrameOK(original, config, T, Running(stack, Len(stack) - 1), Top)
         /\ Running(stack, Len(stack)) = Running(stack, Len(stack) - 1) \cup {Top.node}
         /\ Part(Top) = FrameItems(original, Top)
         /\ heap[Top.node] = original[Top.node]
         /\ Top.node \in DOMAIN original
         /\ ~Exhausted(Top) => AtChild(original, Top)
  <1> DEFINE n == Len(stack)
  <1>1. n \in Nat /\ n > 0 /\ Top = stack[n] /\ Calls(original, config, T, stack)
    BY IsSeqFacts DEF Tallied, Calls, Top
  <1>2. FrameOK(original, config, T, Running(stack, n - 1), Top)
    BY <1>1 DEF Calls
  <1>3. Running(stack, n) = Running(stack, n - 1) \cup {Top.node}
    BY <1>1, RunningMore
  <1>4. /\ Top.node \in DOMAIN original /\ Top.path \in FieldPaths /\ Top.part \in Parts
        /\ IsSeq(Top.values) /\ Len(Top.values) <= Len(FrameItems(original, Top))
    BY <1>2 DEF FrameOK, CallOK
  <1>5. heap[Top.node] = original[Top.node] /\ original \in Graphs
    BY <1>4, Unchanging
  <1>6. Part(Top) = FrameItems(original, Top)
    BY <1>4, <1>5 DEF Part, FrameItems, Items, Parts
  <1>7. ASSUME ~Exhausted(Top) PROVE AtChild(original, Top)
    <2> DEFINE f == Top
               k == Len(f.values) + 1
    <2>1. Len(f.values) # Len(FrameItems(original, f))
      BY <1>6, <1>7 DEF Exhausted
    <2>2. Len(f.values) \in Nat /\ Len(FrameItems(original, f)) \in Nat
      BY <1>4, <1>5, IsSeqFacts, ItemsFacts DEF FrameItems
    <2>3. k \in 1..Len(FrameItems(original, f))
      BY <1>4, <2>1, <2>2
    <2>4. Child = FrameItems(original, f)[k] /\ ChildPath = PathAt(original, f.node, f.path, f.part, k)
      BY <1>5, <1>6 DEF Child, ChildPath, PathAt
    <2>5. /\ FrameItems(original, f)[k] \in DOMAIN original \cup Strings
          /\ PathAt(original, f.node, f.path, f.part, k) \in FieldPaths
      BY <1>4, <1>5, <2>3, ItemsFacts DEF FrameItems
    <2> QED BY <2>1, <2>4, <2>5 DEF AtChild
  <1> QED BY <1>1, <1>2, <1>3, <1>4, <1>5, <1>6, <1>7

LEMMA AcceptTally ==
  ASSUME NEW g \in Graphs, NEW c, NEW T, IsTally(g, c, T), NEW s, Calls(g, c, T, s), Len(s) > 0,
         NEW f, f = s[Len(s)], Len(f.values) # Len(FrameItems(g, f)),
         NEW h, NEW value, NEW n,
         n = Worth(c, T, FrameItems(g, f)[Len(f.values) + 1],
                   PathAt(g, f.node, f.path, f.part, Len(f.values) + 1), Running(s, Len(s))),
         Accept(s, h, value, n)
  PROVE  /\ Calls(g, c, T, stack') /\ Len(stack') = Len(s)
         /\ Running(stack', Len(stack')) = Running(s, Len(s))
  <1> DEFINE e == [f EXCEPT !.values = Append(@, value), !.partCount = @ + n]
             on == Running(s, Len(s) - 1)
  <1>1. IsSeq(s) /\ Len(s) \in Nat /\ FrameOK(g, c, T, on, f)
    BY IsSeqFacts DEF Calls
  <1>2. Running(s, Len(s)) = on \cup {f.node}
    BY <1>1, RunningMore
  <1>3. stack' = [s EXCEPT ![Len(s)] = e]
    BY DEF Accept
  <1>4. FrameOK(g, c, T, on, e)
    <2> HIDE DEF on
    <2> QED BY <1>1, <1>2, FrameTakes
  <1>5. e.node = f.node /\ e.path = f.path
    BY <1>1 DEF FrameOK, CallOK, FrameFields
  <1> HIDE DEF e, on
  <1>6. TopIs(s, e, stack')
    BY <1>1, <1>3, TopReplaced
  <1> QED BY <1>4, <1>5, <1>6, CallsTop DEF on

LEMMA EnterTally ==
  ASSUME UntouchedInv, NEW c, NEW T, IsTally(original, c, T),
         NEW s, Calls(original, c, T, s), NEW node \in DOMAIN original, NEW path \in FieldPaths,
         node \notin Running(s, Len(s)), Running(s, Len(s)) \subseteq DOMAIN original,
         Enter(node, path, s),
         \A e : Len(s) > 0 /\ e.node = node /\ e.path = path => CalledBy(original, s[Len(s)], e),
         Len(s) = 0 => node = Root /\ path = << >>
  PROVE  /\ Calls(original, c, T, stack') /\ Len(stack') = Len(s) + 1
         /\ Running(stack', Len(stack')) = Running(s, Len(s)) \cup {node}
  <1>1. PICK copy : stack' = Append(s, Frame(node, path, FirstPart(node), copy))
    BY DEF Enter
  <1> DEFINE e == Frame(node, path, FirstPart(node), copy)
  <1>2. /\ DOMAIN e = FrameFields /\ e.node = node /\ e.path = path /\ e.part = FirstPart(node)
        /\ e.values = << >> /\ e.partCount = 0 /\ e.count = 0
    BY DEF Frame, FrameFields
  <1>3. original \in Graphs /\ heap[node] = original[node]
    BY Unchanging
  <1>4. /\ FirstPart(node) \in Parts
        /\ FirstPart(node) = "extras" => original[node].extras # << >> /\ original[node].kids = << >>
    BY <1>3 DEF FirstPart, HasRebuildState, Parts
  <1> HIDE DEF e
  <1>5. FrameOK(original, c, T, Running(s, Len(s)), e)
    BY <1>2, <1>3, <1>4, FrameBegins
  <1>6. Len(s) > 0 => CalledBy(original, s[Len(s)], e)
    BY <1>2
  <1>7. stack' = Append(s, e)
    BY <1>1 DEF e
  <1>8. /\ Calls(original, c, T, Append(s, e)) /\ Len(Append(s, e)) = Len(s) + 1
        /\ Running(Append(s, e), Len(s) + 1) = Running(s, Len(s)) \cup {e.node}
    BY <1>2, <1>5, <1>6, CallsPush
  <1> QED BY <1>2, <1>7, <1>8

LEMMA CallsWithin ==
  ASSUME NEW g, NEW c, NEW T, NEW s, Calls(g, c, T, s)
  PROVE  Running(s, Len(s)) \subseteq DOMAIN g
  BY DEF Calls, FrameOK, CallOK, Running

(* A call returns what its container counts to the call below it, or ends  *)
(* its pass.                                                               *)
LEMMA ReturnTally ==
  ASSUME TallyInv, pass # "done", NEW T, Tallied(T), T = TallyOf(original, config),
         NEW h, NEW value, NEW count,
         count = T[<<Top.node, Top.path, Running(stack, Len(stack) - 1)>>],
         Return(h, value, count)
  PROVE  CountInv'
  <1> DEFINE g == original
             c == config
             b == Below
             n == Len(stack)
  <1>1. /\ UntouchedInv /\ CountInv /\ g \in Graphs /\ c \in Configs /\ IsTally(g, c, T)
        /\ Calls(g, c, T, stack) /\ n > 0 /\ n \in Nat /\ seen = Running(stack, n)
    BY Unchanging, IsSeqFacts DEF TallyInv, CountInv, Tallied, Calls
  <1>2. original' = original /\ config' = config
    BY DEF Return
  <1>3. /\ Calls(g, c, T, b) /\ Len(b) = n - 1
        /\ Running(b, Len(b)) = Running(stack, n - 1)
        /\ Running(stack, n - 1) = Running(stack, n) \ {Top.node}
        /\ Len(b) > 0 => CalledBy(g, b[Len(b)], Top)
    BY <1>1, CallsPop DEF Below, Top
  <1>4. /\ FrameOK(g, c, T, Running(stack, n - 1), Top)
        /\ Top.node \in DOMAIN g
    BY <1>1, ScanningFacts
  <1> HIDE DEF g, c, b, n
  <1>5. CASE n > 1
    <2> DEFINE f == b[Len(b)]
               k == Len(f.values) + 1
    <2>1. Accept(b, h, value, count) /\ seen' = seen \ {Top.node} /\ pass' = pass /\ found' = found /\ answer' = answer
      BY <1>5 DEF Return, Released, Unmark, b, n
    <2>2. Len(b) > 0
      BY <1>1, <1>3, <1>5
    <2>3. /\ Len(f.values) < Len(FrameItems(g, f)) /\ FrameItems(g, f)[k] = Top.node
          /\ PathAt(g, f.node, f.path, f.part, k) = Top.path
      BY <1>3, <2>2 DEF CalledBy
    <2>4. Top.node \notin Strings
      BY <1>1, <1>4, GraphFacts
    <2>5. IsSeq(f.values) /\ IsSeq(b) /\ Len(b) \in 1..Len(b) /\ f.node \in DOMAIN g /\ f.part \in Parts /\ f.path \in FieldPaths
      BY <1>3, <2>2, IsSeqFacts DEF Calls, FrameOK, CallOK
    <2>6. Len(f.values) # Len(FrameItems(g, f))
      <3>1. Len(f.values) \in Nat /\ Len(FrameItems(g, f)) \in Nat
        BY <1>1, <2>5, IsSeqFacts, ItemsFacts DEF FrameItems
      <3> QED BY <2>3, <3>1
    <2>7. count = Worth(c, T, FrameItems(g, f)[k], PathAt(g, f.node, f.path, f.part, k), Running(b, Len(b)))
      BY <1>3, <2>3, <2>4 DEF Worth, n
    <2>8. /\ Calls(g, c, T, stack') /\ Len(stack') = Len(b)
          /\ Running(stack', Len(stack')) = Running(b, Len(b))
      BY <1>1, <1>3, <2>1, <2>2, <2>6, <2>7, AcceptTally
    <2>9. seen' = Running(stack', Len(stack'))
      BY <1>1, <1>3, <2>1, <2>8
    <2>10. Tallied(T)'
      BY <1>1, <1>2, <2>1, <2>8 DEF Tallied, g, c
    <2>11. PassesAgree'
      BY <1>1, <1>2, <2>1 DEF CountInv, PassesAgree
    <2> QED BY <1>1, <1>2, <2>1, <2>2, <2>8, <2>9, <2>10, <2>11 DEF CountInv
  <1>6. CASE ~(n > 1)
    <2>1. n = 1 /\ Len(b) = 0 /\ Running(stack, n - 1) = {}
      <3>1. n = 1
        BY <1>1, <1>6
      <3> QED BY <1>3, <3>1 DEF Running
    <2>2. Top.node = Root /\ Top.path = << >>
      BY <1>1, <2>1 DEF Calls, Top, n
    <2>3. count = GraphCount(T)
      BY <2>1, <2>2 DEF GraphCount, n
    <2>4. Calls(g, c, T, << >>) /\ Running(<< >>, 0) = {} /\ Len(<< >>) = 0
      BY NoCalls
    <2>5. CASE pass = "find" /\ config.redact /\ count # 0
      <3>1. found' = count /\ pass' = "redact" /\ answer' = answer /\ Enter(Root, << >>, << >>) /\ seen' = seen \cup {Root}
        BY <1>6, <2>5 DEF Return, n, Enter, Marked
      <3>2. Root \in DOMAIN g /\ << >> \in FieldPaths
        BY <1>1, GraphFacts, EmptySeq DEF FieldPaths
      <3>3. Calls(original, config, T, << >>) /\ Len(<< >>) = 0 /\ Running(<< >>, Len(<< >>)) = {}
            /\ IsTally(original, config, T) /\ Root \in DOMAIN original
        BY <1>1, <2>4, <3>2 DEF g, c
      <3>4. /\ Calls(original, config, T, stack') /\ Len(stack') = Len(<< >>) + 1
            /\ Running(stack', Len(stack')) = Running(<< >>, Len(<< >>)) \cup {Root}
        <4>1. \A e : Len(<< >>) > 0 /\ e.node = Root /\ e.path = << >> => CalledBy(original, (<< >>)[Len(<< >>)], e)
          BY <3>3
        <4>2. Root \notin Running(<< >>, Len(<< >>)) /\ Running(<< >>, Len(<< >>)) \subseteq DOMAIN original
          BY <3>3
        <4> QED BY <1>1, <3>1, <3>2, <3>3, <4>1, <4>2, EnterTally
      <3>5. seen = {Root}
        <4>1. Running(stack, n) = Running(stack, n - 1) \cup {Top.node}
          BY <1>1, RunningMore DEF Top, n
        <4> QED BY <1>1, <2>1, <2>2, <4>1
      <3>6. seen' = Running(stack', Len(stack'))
        BY <3>1, <3>3, <3>4, <3>5
      <3>7. Tallied(T)'
        BY <1>1, <1>2, <2>3, <3>1, <3>4 DEF Tallied, g, c, GraphCount
      <3>8. PassesAgree'
        BY <3>1 DEF PassesAgree
      <3>9. Len(stack') > 0
        BY <3>3, <3>4
      <3> QED BY <1>1, <1>2, <2>5, <3>1, <3>6, <3>7, <3>8, <3>9 DEF CountInv, c
    <2>6. CASE ~(pass = "find" /\ config.redact /\ count # 0)
      <3>1. /\ pass' = "done" /\ found' = (IF pass = "find" THEN count ELSE found)
            /\ answer' = Answer(count, IF count = 0 THEN Root ELSE value)
            /\ stack' = << >> /\ seen' = {}
        BY <1>6, <2>6 DEF Return, n
      <3>2. answer'.count = count
        BY <3>1 DEF Answer
      <3>3. found' = count
        BY <1>1, <2>3, <3>1 DEF Tallied, CountInv
      <3>4. PassesAgree'
        BY <3>2, <3>3 DEF PassesAgree
      <3>5. seen' = Running(stack', Len(stack'))
        BY <2>4, <3>1
      <3>6. Tallied(T)'
        BY <1>1, <1>2, <2>4, <3>1 DEF Tallied, g, c
      <3> QED BY <1>1, <1>2, <3>1, <3>4, <3>5, <3>6 DEF CountInv, c
    <2> QED BY <2>5, <2>6
  <1> QED BY <1>5, <1>6

LEMMA CountInit == Init => CountInv
  <1> SUFFICES ASSUME Init PROVE CountInv
    OBVIOUS
  <1> DEFINE e == [node |-> Root, path |-> << >>, copy |-> None, values |-> << >>,
                   partCount |-> 0, count |-> 0, rebuilt |-> FALSE,
                   part |-> IF original[Root].kids = << >> /\ original[Root].extras # << >>
                                THEN "extras" ELSE "kids"]
  <1>1. /\ original \in Graphs /\ config \in Configs /\ stack = <<e>> /\ pass = "find"
        /\ seen = {Root}
    BY DEF Init
  <1>2. PICK T : T = TallyOf(original, config) /\ IsTally(original, config, T)
    BY <1>1, TallyExists DEF TallyOf
  <1>3. /\ DOMAIN e = FrameFields /\ e.node = Root /\ e.path = << >> /\ e.part \in Parts
        /\ e.part = "extras" => original[Root].extras # << >> /\ original[Root].kids = << >>
        /\ e.values = << >> /\ e.partCount = 0 /\ e.count = 0
    BY DEF FrameFields, Parts
  <1> HIDE DEF e
  <1>4. Root \in DOMAIN original /\ << >> \in FieldPaths
    BY <1>1, GraphFacts, EmptySeq DEF FieldPaths
  <1>5. FrameOK(original, config, T, {}, e)
    BY <1>1, <1>2, <1>3, <1>4, FrameBegins
  <1>6. Calls(original, config, T, << >>) /\ Running(<< >>, 0) = {} /\ Len(<< >>) = 0
    BY NoCalls
  <1>7. Append(<< >>, e) = <<e>>
    OBVIOUS
  <1>8. /\ Calls(original, config, T, <<e>>) /\ Len(<<e>>) = 1
        /\ Running(<<e>>, 1) = {Root}
    <2>1. PICK s : s = << >>
      OBVIOUS
    <2>2. /\ Calls(original, config, T, s) /\ Running(s, Len(s)) = {} /\ Len(s) = 0
          /\ Append(s, e) = <<e>>
      BY <1>6, <1>7, <2>1
    <2>3. FrameOK(original, config, T, Running(s, Len(s)), e)
      BY <1>5, <2>2
    <2>4. /\ Calls(original, config, T, Append(s, e)) /\ Len(Append(s, e)) = Len(s) + 1
          /\ Running(Append(s, e), Len(s) + 1) = Running(s, Len(s)) \cup {e.node}
      <3>1. /\ Len(s) > 0 => CalledBy(original, s[Len(s)], e)
            /\ Len(s) = 0 => e.node = Root /\ e.path = << >>
        BY <1>3, <2>2
      <3>2. Calls(original, config, T, s)
        BY <2>2
      <3> QED BY <2>3, <3>1, <3>2, CallsPush
    <2> QED BY <1>3, <2>2, <2>4
  <1>9. Tallied(T)
    BY <1>1, <1>2, <1>8 DEF Tallied
  <1> QED BY <1>1, <1>2, <1>8, <1>9 DEF CountInv, PassesAgree

(* A step that leaves the calls as they are.                               *)
LEMMA CountStutter ==
  ASSUME CountInv, UNCHANGED vars
  PROVE  CountInv'
  <1>1. PICK T : T = TallyOf(original, config) /\ Tallied(T)
    BY DEF CountInv
  <1>2. Tallied(T)'
    BY <1>1 DEF Tallied, vars
  <1>3. PassesAgree'
    BY DEF CountInv, PassesAgree, vars
  <1> QED BY <1>1, <1>2, <1>3 DEF CountInv, vars

LEMMA CountStep ==
  ASSUME TallyInv, [Next]_vars
  PROVE  CountInv'
  <1>1. PICK T : T = TallyOf(original, config) /\ Tallied(T)
    BY DEF TallyInv, CountInv
  <1> DEFINE g == original
             c == config
             n == Len(stack)
             f == Top
  <1>2. /\ UntouchedInv /\ CountInv /\ g \in Graphs /\ c \in Configs /\ IsTally(g, c, T)
        /\ Calls(g, c, T, stack) /\ seen = Running(stack, n)
        /\ pass \in {"find", "redact", "done"}
    BY <1>1, Unchanging DEF TallyInv, CountInv, Tallied
  <1>3. ASSUME pass # "done"
        PROVE  /\ n > 0 /\ n \in Nat /\ f = stack[n]
               /\ FrameOK(g, c, T, Running(stack, n - 1), f)
               /\ Running(stack, n) = Running(stack, n - 1) \cup {f.node}
               /\ Part(f) = FrameItems(g, f) /\ heap[f.node] = g[f.node] /\ f.node \in DOMAIN g
               /\ ~Exhausted(f) => AtChild(g, f)
    BY <1>1, <1>2, <1>3, ScanningFacts, IsSeqFacts DEF CountInv, Calls, Top
  <1> HIDE DEF g, c, n
  \* A step within the innermost call.
  <1>4. ASSUME pass # "done", UNCHANGED <<original, config, pass, seen, found, answer>>,
               Calls(g, c, T, stack'), Len(stack') = n,
               Running(stack', Len(stack')) = Running(stack, n)
        PROVE  CountInv'
    <2>1. Tallied(T)'
      BY <1>1, <1>4 DEF Tallied, g, c
    <2>2. PassesAgree'
      BY <1>4 DEF PassesAgree
    <2> QED BY <1>1, <1>2, <1>3, <1>4, <2>1, <2>2 DEF CountInv, c
  <1>5. ASSUME pass # "done", ~Exhausted(f), NEW h, NEW value, NEW count,
               count = Worth(c, T, Child, ChildPath, seen), Accept(stack, h, value, count),
               UNCHANGED <<original, config, pass, seen, found, answer>>
        PROVE  CountInv'
    <2>1. /\ n > 0 /\ f = stack[n] /\ Len(f.values) # Len(FrameItems(g, f))
          /\ count = Worth(c, T, FrameItems(g, f)[Len(f.values) + 1],
                           PathAt(g, f.node, f.path, f.part, Len(f.values) + 1), Running(stack, n))
      BY <1>2, <1>3, <1>5 DEF AtChild
    <2> HIDE DEF f
    <2>2. /\ Calls(g, c, T, stack') /\ Len(stack') = n
          /\ Running(stack', Len(stack')) = Running(stack, n)
      <3>1. /\ g \in Graphs /\ IsTally(g, c, T) /\ Calls(g, c, T, stack) /\ Len(stack) > 0
            /\ f = stack[Len(stack)] /\ Len(f.values) # Len(FrameItems(g, f))
            /\ count = Worth(c, T, FrameItems(g, f)[Len(f.values) + 1],
                             PathAt(g, f.node, f.path, f.part, Len(f.values) + 1),
                             Running(stack, Len(stack)))
            /\ Accept(stack, h, value, count)
        BY <1>2, <1>5, <2>1 DEF n
      <3>2. /\ Calls(g, c, T, stack') /\ Len(stack') = Len(stack)
            /\ Running(stack', Len(stack')) = Running(stack, Len(stack))
        BY <3>1, AcceptTally
      <3> QED BY <3>2 DEF n
    <2> QED BY <1>4, <1>5, <2>2
  <1>6. \A path : ShouldScan(path) <=> Scans(c, path)
    BY DEF ShouldScan, Denied, Scans, c
  <1>7. \A path : ShouldTraverse(path) <=> Traverses(c, path)
    BY DEF ShouldTraverse, Denied, Traverses, c
  <1>8. CASE ScanString
    <2> DEFINE hit == Child = Secret /\ ShouldScan(ChildPath)
    <2>1. /\ pass # "done" /\ ~Exhausted(f) /\ Child \in Strings
          /\ Accept(stack, heap, IF hit THEN Redacted ELSE Child, IF hit THEN 1 ELSE 0)
          /\ UNCHANGED <<original, config, pass, seen, found, answer>>
      BY <1>8 DEF ScanString, Scanning
    <2>2. (IF hit THEN 1 ELSE 0) = Worth(c, T, Child, ChildPath, seen)
      BY <1>6, <2>1 DEF Worth
    <2> HIDE DEF hit, f
    <2> QED BY <1>5, <2>1, <2>2
  <1>9. CASE SkipField
    <2>1. /\ pass # "done" /\ ~Exhausted(f) /\ Child \notin Strings /\ ~ShouldTraverse(ChildPath)
          /\ Accept(stack, heap, Child, 0)
          /\ UNCHANGED <<original, config, pass, seen, found, answer>>
      BY <1>9 DEF SkipField, Scanning
    <2>2. Child \in DOMAIN g /\ ChildPath \in FieldPaths /\ seen \in SUBSET DOMAIN g
      BY <1>2, <1>3, <2>1, CallsWithin DEF AtChild, n
    <2>3. T[<<Child, ChildPath, seen>>] = 0
      BY <1>2, <1>7, <2>1, <2>2, NothingSkipped
    <2>4. 0 = Worth(c, T, Child, ChildPath, seen)
      BY <2>1, <2>3 DEF Worth
    <2> HIDE DEF f
    <2> QED BY <1>5, <2>1, <2>4
  <1>10. CASE BackReference
    <2>1. /\ pass # "done" /\ ~Exhausted(f) /\ Child \notin Strings /\ Child \in seen
          /\ Accept(stack, heap, StandIn(Child), 0)
          /\ UNCHANGED <<original, config, pass, seen, found, answer>>
      BY <1>10 DEF BackReference, Enterable, Scanning
    <2>2. Child \in DOMAIN g /\ ChildPath \in FieldPaths /\ seen \in SUBSET DOMAIN g
      BY <1>2, <1>3, <2>1, CallsWithin DEF AtChild, n
    <2>3. T[<<Child, ChildPath, seen>>] = 0
      BY <1>2, <2>1, <2>2 DEF IsTally, Counted
    <2>4. 0 = Worth(c, T, Child, ChildPath, seen)
      BY <2>1, <2>3 DEF Worth
    <2> HIDE DEF f
    <2> QED BY <1>5, <2>1, <2>4
  <1>11. CASE Descend
    <2>1. /\ pass # "done" /\ ~Exhausted(f) /\ Child \notin Strings /\ Child \notin seen
          /\ Enter(Child, ChildPath, stack)
          /\ UNCHANGED <<original, config, pass, found, answer>>
      BY <1>11 DEF Descend, Enterable, Scanning
    <2>2. /\ Child \in DOMAIN g /\ ChildPath \in FieldPaths /\ seen \subseteq DOMAIN g
          /\ n > 0 /\ f = stack[n]
      BY <1>2, <1>3, <2>1, CallsWithin DEF AtChild, n
    <2>3. /\ Len(f.values) \in Nat /\ Len(FrameItems(g, f)) \in Nat
          /\ Len(f.values) <= Len(FrameItems(g, f))
      <3>1. /\ IsSeq(f.values) /\ f.node \in DOMAIN g /\ f.part \in Parts /\ f.path \in FieldPaths
            /\ Len(f.values) <= Len(FrameItems(g, f))
        BY <1>3, <2>1 DEF FrameOK, CallOK
      <3> QED BY <1>2, <3>1, IsSeqFacts, ItemsFacts DEF FrameItems
    <2>4. \A e : e.node = Child /\ e.path = ChildPath => CalledBy(g, stack[n], e)
      <3>1. AtChild(g, f)
        BY <1>3, <2>1
      <3> HIDE DEF f
      <3> QED BY <2>2, <2>3, <3>1 DEF AtChild, CalledBy
    <2>5. /\ Calls(g, c, T, stack') /\ Len(stack') = n + 1
          /\ Running(stack', Len(stack')) = Running(stack, n) \cup {Child}
      <3>1. /\ Child \in DOMAIN original /\ Child \notin Running(stack, Len(stack))
            /\ Running(stack, Len(stack)) \subseteq DOMAIN original
            /\ \A e : Len(stack) > 0 /\ e.node = Child /\ e.path = ChildPath =>
                        CalledBy(original, stack[Len(stack)], e)
            /\ Len(stack) = 0 => Child = Root /\ ChildPath = << >>
            /\ IsTally(original, c, T) /\ Calls(original, c, T, stack)
        BY <1>2, <2>1, <2>2, <2>4 DEF n, g
      <3>2. /\ Calls(original, c, T, stack') /\ Len(stack') = Len(stack) + 1
            /\ Running(stack', Len(stack')) = Running(stack, Len(stack)) \cup {Child}
        BY <1>2, <2>1, <2>2, <3>1, EnterTally
      <3> QED BY <3>2 DEF n, g
    <2>6. seen' = Running(stack', Len(stack'))
      BY <1>2, <2>1, <2>5 DEF Enter, Marked
    <2>7. Tallied(T)'
      BY <1>1, <2>1, <2>5 DEF Tallied, g, c
    <2>8. PassesAgree'
      BY <2>1 DEF PassesAgree
    <2>9. Len(stack') > 0
      BY <1>3, <2>1, <2>5
    <2> QED BY <1>1, <1>2, <2>1, <2>6, <2>7, <2>8, <2>9 DEF CountInv, c
  \* A complete call.
  <1>12. ASSUME pass # "done", Exhausted(f) PROVE HasCounted(g, c, T, Running(stack, n - 1), f)
    <2>1. Len(f.values) = Len(FrameItems(g, f))
      BY <1>3, <1>12 DEF Exhausted
    <2> HIDE DEF f
    <2> QED BY <1>2, <1>3, <1>12, <2>1, FrameReturns
  <1>13. ASSUME pass # "done", NEW h, NEW value, NEW count, Return(h, value, count),
                count = T[<<f.node, f.path, Running(stack, n - 1)>>]
         PROVE  CountInv'
    BY <1>1, <1>13, ReturnTally DEF n
  <1>14. ASSUME pass # "done", Exhausted(f), f.part = "extras" \/ heap[f.node].extras = << >>,
                NEW h, NEW value, Return(h, value, f.count + f.partCount)
         PROVE  CountInv'
    <2>1. f.count + f.partCount = T[<<f.node, f.path, Running(stack, n - 1)>>]
      BY <1>3, <1>12, <1>14 DEF HasCounted
    <2> HIDE DEF f
    <2> QED BY <1>13, <1>14, <2>1
  <1>15. ASSUME pass # "done", Exhausted(f), f.part = "kids", heap[f.node].extras = << >>,
                NEW h, NEW value, Return(h, value, f.partCount)
         PROVE  CountInv'
    <2>1. f.count = 0 /\ f.partCount \in Nat
      BY <1>12, <1>15 DEF HasCounted
    <2>2. f.count + f.partCount = f.partCount
      BY <2>1
    <2>3. Return(h, value, f.count + f.partCount)
      BY <1>15, <2>2
    <2> HIDE DEF f
    <2> QED BY <1>14, <1>15, <2>3
  <1>16. ASSUME pass # "done", heap[f.node].kind # "object"
         PROVE  f.part = "kids" /\ heap[f.node].extras = << >>
    <2>1. heap[f.node].extras = << >>
      BY <1>2, <1>3, <1>16, GraphFacts DEF WellFormed
    <2> QED BY <1>3, <1>16, <2>1 DEF FrameOK, CallOK, Parts
  <1>17. CASE FindComplete
    <2>1. /\ pass # "done" /\ Exhausted(f)
          /\ f.part = "extras" \/ heap[f.node].extras = << >>
          /\ Return(heap, f.node, f.count + f.partCount)
      BY <1>17 DEF FindComplete
    <2> HIDE DEF f
    <2> QED BY <1>14, <2>1
  <1>18. CASE FinishMapping
    <2>1. /\ pass # "done" /\ Exhausted(f) /\ heap[f.node].kind # "object"
          /\ Return(heap, f.copy, f.partCount)
      BY <1>18 DEF FinishMapping, Complete
    <2> HIDE DEF f
    <2> QED BY <1>15, <1>16, <2>1
  <1>19. CASE FinishTuple
    <2>1. /\ pass # "done" /\ Exhausted(f) /\ heap[f.node].kind # "object"
          /\ \E h : Return(h, Fresh, f.partCount)
      BY <1>19 DEF FinishTuple, Complete
    <2> HIDE DEF f
    <2> QED BY <1>15, <1>16, <2>1
  <1>20. CASE TurnToExtras
    <2>1. /\ pass # "done" /\ Exhausted(f) /\ f.part = "kids" /\ heap[f.node].extras # << >>
          /\ UNCHANGED <<original, config, pass, seen, found, answer>>
      BY <1>20 DEF TurnToExtras
    <2> DEFINE e0 == ExtrasOf(f)
    <2>2. PICK e \in {e0, [e0 EXCEPT !.rebuilt = TRUE], [e0 EXCEPT !.copy = Fresh]} :
             stack' = Append(Below, e)
      BY <1>20 DEF TurnToExtras
    <2>3. DOMAIN f = FrameFields
      BY <1>3, <2>1 DEF FrameOK, CallOK
    <2>4. /\ DOMAIN e = FrameFields /\ e.node = f.node /\ e.path = f.path /\ e.part = "extras"
          /\ e.values = << >> /\ e.partCount = 0 /\ e.count = f.count + f.partCount
      BY <2>2, <2>3 DEF ExtrasOf, FrameFields
    <2>5. /\ Len(f.values) = Len(FrameItems(g, f)) /\ g[f.node].extras # << >>
          /\ FrameOK(g, c, T, Running(stack, n - 1), f) /\ f = stack[n]
      BY <1>3, <2>1 DEF Exhausted
    <2> HIDE DEF f, e0
    <2>6. FrameOK(g, c, T, Running(stack, n - 1), e)
      BY <1>2, <2>1, <2>4, <2>5, FrameTurns
    <2>7. TopIs(stack, e, stack')
      <3>1. IsSeq(stack) /\ Len(stack) > 0 /\ stack' = Append(SubSeq(stack, 1, Len(stack) - 1), e)
        BY <1>2, <1>3, <2>1, <2>2 DEF Calls, Below, n
      <3> QED BY <3>1, TopReplaced
    <2>8. /\ Calls(g, c, T, stack') /\ Len(stack') = n
          /\ Running(stack', Len(stack')) = Running(stack, n)
      BY <1>2, <1>3, <2>1, <2>4, <2>5, <2>6, <2>7, CallsTop DEF n
    <2> QED BY <1>4, <2>1, <2>8
  <1>21. CASE FinishAttributes
    <2>1. /\ pass # "done" /\ Exhausted(f) /\ f.part = "kids" /\ heap[f.node].extras = << >>
          /\ \E h, value : Return(h, value, f.partCount)
      BY <1>21 DEF FinishAttributes, Complete
    <2> HIDE DEF f
    <2> QED BY <1>15, <2>1
  <1>22. CASE FinishExtras
    <2>1. /\ pass # "done" /\ Exhausted(f) /\ f.part = "extras"
          /\ \E h, value : Return(h, value, f.count + f.partCount)
      BY <1>22 DEF FinishExtras, Complete
    <2> HIDE DEF f
    <2> QED BY <1>14, <2>1
  <1>23. CASE Returned \/ UNCHANGED vars
    BY <1>2, <1>23, CountStutter DEF Returned
  <1> QED BY <1>8, <1>9, <1>10, <1>11, <1>17, <1>18, <1>19, <1>20, <1>21, <1>22, <1>23 DEF Next

(* plugin.rs:179-187.  For every graph of containers and every             *)
(* configuration the second pass counts what the first one counted.  The   *)
(* first may pass by a field that no configured path leads to, because     *)
(* nothing under it counts (NothingSkipped); what both add up is one       *)
(* number, that of the graph.                                              *)
THEOREM PassesAgreeHolds == Spec => []PassesAgree
  <1>1. Init => TallyInv
    BY UntouchedInit, CountInit DEF TallyInv
  <1>2. TallyInv /\ [Next]_vars => TallyInv'
    BY UntouchedStep, CountStep DEF TallyInv
  <1>3. TallyInv => PassesAgree
    BY DEF TallyInv, CountInv
  <1> QED BY <1>1, <1>2, <1>3, PTL DEF Spec


(***************************************************************************)
(* Certificates: sets of places that hold what the configuration says and  *)
(* that are closed, so that a walk over the payload never leaves them.     *)
(***************************************************************************)

PlaceAt(new, old, path, on) == [new |-> new, old |-> old, path |-> path, on |-> on]
PlacesOf(ids, g) == [new: ids \cup Strings, old: DOMAIN g \cup Strings,
                     path: FieldPaths, on: SUBSET DOMAIN g]

(* A value stands well for an old one if its place is in the certificate;  *)
(* what stands for a container that is being walked does not matter.       *)
Fits(R, new, old, path, on) == old \in on \/ PlaceAt(new, old, path, on) \in R
FitsAll(g, R, values, node, path, on, part) ==
    \A i \in DOMAIN values \cap DOMAIN Items(g, node, part) :
        Fits(R, values[i], Items(g, node, part)[i], PathAt(g, node, path, part, i), on \cup {node})

AsConfigured(c, w) == w.old = Secret => ((w.new = Redacted) <=> Scans(c, w.path))
Closed(g, R, h, w) == /\ FitsAll(g, R, h[w.new].kids, w.old, w.path, w.on, "kids")
                      /\ FitsAll(g, R, h[w.new].extras, w.old, w.path, w.on, "extras")

(* The containers in avoid are still being made.                           *)
Certificate(g, c, h, avoid, R) ==
    /\ R \subseteq PlacesOf(DOMAIN h, g)
    /\ \A w \in R : /\ w.old \notin w.on
                    /\ w.old \in Strings <=> w.new \in Strings
                    /\ AsConfigured(c, w)
                    /\ w.old \notin Strings => w.new \notin avoid /\ Closed(g, R, h, w)

(* Values that stay as they are where there is nothing to find.            *)
Identity(g, c, T) ==
    {w \in PlacesOf(DOMAIN g, g) : /\ w.new = w.old /\ w.old \notin w.on
                                   /\ Worth(c, T, w.old, w.path, w.on) = 0}

LEMMA PlaceFacts ==
  ASSUME NEW new, NEW old, NEW path, NEW on
  PROVE  /\ PlaceAt(new, old, path, on).new = new /\ PlaceAt(new, old, path, on).old = old
         /\ PlaceAt(new, old, path, on).path = path /\ PlaceAt(new, old, path, on).on = on
  BY DEF PlaceAt

LEMMA PlaceIn ==
  ASSUME NEW ids, NEW g, NEW new \in ids \cup Strings, NEW old \in DOMAIN g \cup Strings,
         NEW path \in FieldPaths, NEW on \in SUBSET DOMAIN g
  PROVE  PlaceAt(new, old, path, on) \in PlacesOf(ids, g)
  BY DEF PlaceAt, PlacesOf

LEMMA PlaceType ==
  ASSUME NEW ids, NEW g, NEW w \in PlacesOf(ids, g)
  PROVE  /\ w.new \in ids \cup Strings /\ w.old \in DOMAIN g \cup Strings
         /\ w.path \in FieldPaths /\ w.on \in SUBSET DOMAIN g
         /\ w = PlaceAt(w.new, w.old, w.path, w.on)
  BY DEF PlaceAt, PlacesOf

LEMMA FitsMore ==
  ASSUME NEW g, NEW R, NEW U, R \subseteq U, NEW values, NEW node, NEW path, NEW on, NEW part,
         FitsAll(g, R, values, node, path, on, part)
  PROVE  FitsAll(g, U, values, node, path, on, part)
  BY DEF FitsAll, Fits

(* Where a walk counts nothing, every value may stay.                      *)
LEMMA NothingHeld ==
  ASSUME NEW g \in Graphs, NEW c, NEW T, IsTally(g, c, T), NEW node \in DOMAIN g,
         NEW path \in FieldPaths, NEW on \in SUBSET DOMAIN g, NEW part \in Parts,
         Held(g, c, T, node, path, on, part) = 0
  PROVE  FitsAll(g, Identity(g, c, T), Items(g, node, part), node, path, on, part)
  <1> DEFINE more == on \cup {node}
             v == Worths(g, c, T, node, path, more, part)
             items == Items(g, node, part)
  <1>1. more \in SUBSET DOMAIN g /\ T \in [Walks(g) -> Nat]
    BY DEF IsTally
  <1>2. Total(v) = 0
    BY DEF Held
  <1> HIDE DEF more
  <1>3. AreWorths(g, c, T, node, path, more, part, v)
    BY <1>1, WorthsFacts
  <1> HIDE DEF v
  <1>4. /\ \A i \in 1..Len(v) : v[i] = 0
        /\ Len(v) = Len(items) /\ Len(v) \in Nat
        /\ \A i \in 1..Len(v) : v[i] = Worth(c, T, items[i], PathAt(g, node, path, part, i), more)
    BY <1>2, <1>3, ZeroSums DEF AreWorths
  <1>5. DOMAIN items = 1..Len(v)
    <2>1. items \in Seq(DOMAIN g \cup Strings)
      BY ItemsFacts
    <2> HIDE DEF items
    <2> QED BY <1>4, <2>1, LenProperties
  <1>6. ASSUME NEW i \in DOMAIN items
        PROVE  Fits(Identity(g, c, T), items[i], items[i], PathAt(g, node, path, part, i), more)
    <2> DEFINE x == items[i]
               p == PathAt(g, node, path, part, i)
               w == PlaceAt(x, x, p, more)
    <2>1. x \in DOMAIN g \cup Strings /\ p \in FieldPaths
      BY <1>4, <1>5, <1>6, ItemsFacts
    <2>2. Worth(c, T, x, p, more) = 0
      BY <1>4, <1>5, <1>6
    <2> HIDE DEF x, p
    <2>3. w \in PlacesOf(DOMAIN g, g) /\ w.new = x /\ w.old = x /\ w.path = p /\ w.on = more
      BY <1>1, <2>1, PlaceIn, PlaceFacts
    <2> HIDE DEF w
    <2>4. x \notin more => w \in Identity(g, c, T)
      BY <2>2, <2>3 DEF Identity
    <2> QED BY <2>4 DEF Fits, x, p, w
  <1> QED BY <1>6 DEF FitsAll, more

LEMMA IdentityCertifies ==
  ASSUME NEW g \in Graphs, NEW c, NEW T, IsTally(g, c, T), NEW h, NEW avoid,
         DOMAIN g \subseteq DOMAIN h, \A i \in DOMAIN g : h[i] = g[i],
         avoid \cap DOMAIN g = {}
  PROVE  Certificate(g, c, h, avoid, Identity(g, c, T))
  <1> DEFINE R == Identity(g, c, T)
  <1>1. R \subseteq PlacesOf(DOMAIN g, g)
    BY DEF Identity
  <1>2. PlacesOf(DOMAIN g, g) \subseteq PlacesOf(DOMAIN h, g)
    BY DEF PlacesOf
  <1>3. ASSUME NEW w \in R
        PROVE  /\ w.old \notin w.on
               /\ w.old \in Strings <=> w.new \in Strings
               /\ AsConfigured(c, w)
               /\ w.old \notin Strings => w.new \notin avoid /\ Closed(g, R, h, w)
    <2>1. /\ w.new = w.old /\ w.old \notin w.on /\ Worth(c, T, w.old, w.path, w.on) = 0
          /\ w.old \in DOMAIN g \cup Strings /\ w.path \in FieldPaths /\ w.on \in SUBSET DOMAIN g
      BY <1>1, PlaceType DEF Identity
    <2>2. AsConfigured(c, w)
      <3>1. SUFFICES ASSUME w.old = Secret PROVE (w.new = Redacted) <=> Scans(c, w.path)
        BY DEF AsConfigured
      <3>2. Secret \in Strings /\ Secret # Redacted
        BY GraphFacts
      <3>3. (IF Scans(c, w.path) THEN 1 ELSE 0) = 0
        BY <2>1, <3>1, <3>2 DEF Worth
      <3>4. ~Scans(c, w.path)
        BY <3>3
      <3> QED BY <2>1, <3>1, <3>2, <3>4
    <2>3. ASSUME w.old \notin Strings PROVE w.new \notin avoid /\ Closed(g, R, h, w)
      <3>1. w.old \in DOMAIN g /\ T[<<w.old, w.path, w.on>>] = 0
        BY <2>1, <2>3 DEF Worth
      <3>2. /\ Held(g, c, T, w.old, w.path, w.on, "kids") \in Nat
            /\ Held(g, c, T, w.old, w.path, w.on, "extras") \in Nat
        BY <2>1, <3>1, HeldType DEF IsTally
      <3>3. Held(g, c, T, w.old, w.path, w.on, "kids") + Held(g, c, T, w.old, w.path, w.on, "extras") = 0
        BY <2>1, <3>1 DEF IsTally, Counted
      <3>4. /\ Held(g, c, T, w.old, w.path, w.on, "kids") = 0
            /\ Held(g, c, T, w.old, w.path, w.on, "extras") = 0
        BY <3>2, <3>3
      <3>5. /\ FitsAll(g, R, Items(g, w.old, "kids"), w.old, w.path, w.on, "kids")
            /\ FitsAll(g, R, Items(g, w.old, "extras"), w.old, w.path, w.on, "extras")
        BY <2>1, <3>1, <3>4, NothingHeld DEF Parts
      <3> HIDE DEF R
      <3> QED BY <2>1, <3>1, <3>5 DEF Closed, Items
    <2> QED BY <2>1, <2>2, <2>3
  <1> HIDE DEF R
  <1> QED BY <1>1, <1>2, <1>3 DEF Certificate, R

(* One more place.                                                         *)
LEMMA PlaceAdded ==
  ASSUME NEW g, NEW c, NEW h, NEW avoid, NEW R, Certificate(g, c, h, avoid, R),
         NEW w \in PlacesOf(DOMAIN h, g), w.old \notin w.on,
         w.old \in Strings <=> w.new \in Strings, AsConfigured(c, w),
         w.old \notin Strings => w.new \notin avoid /\ Closed(g, R, h, w)
  PROVE  Certificate(g, c, h, avoid, R \cup {w})
  <1> DEFINE U == R \cup {w}
  <1>1. ASSUME NEW x, Closed(g, R, h, x) PROVE Closed(g, U, h, x)
    <2>1. R \subseteq U
      OBVIOUS
    <2> HIDE DEF U
    <2> QED BY <1>1, <2>1, FitsMore DEF Closed
  <1> HIDE DEF U
  <1>2. U \subseteq PlacesOf(DOMAIN h, g)
    BY DEF Certificate, U
  <1>3. \A x \in U : /\ x.old \notin x.on
                    /\ x.old \in Strings <=> x.new \in Strings
                    /\ AsConfigured(c, x)
                    /\ x.old \notin Strings => x.new \notin avoid /\ Closed(g, R, h, x)
    BY DEF Certificate, U
  <1> QED BY <1>1, <1>2, <1>3 DEF Certificate, U

(***************************************************************************)
(* Heaps that change under a certificate.                                  *)
(***************************************************************************)

(* The values of s, but for what was still being made.                     *)
SameBut(s, t, avoid) ==
    /\ DOMAIN t = DOMAIN s
    /\ \A i \in DOMAIN s : t[i] = s[i] \/ s[i] \in avoid
    /\ IsSeq(s) => IsSeq(t)

Evolves(h, j, avoid, touched) ==
    /\ DOMAIN h \subseteq DOMAIN j
    /\ \A x \in DOMAIN h \ touched : /\ SameBut(h[x].kids, j[x].kids, avoid)
                                     /\ SameBut(h[x].extras, j[x].extras, avoid)

(* What is still being made stands only for what is being walked.          *)
LEMMA FitsChanged ==
  ASSUME NEW g, NEW c, NEW h, NEW avoid, avoid \cap Strings = {}, NEW R, Certificate(g, c, h, avoid, R),
         NEW s, NEW t, SameBut(s, t, avoid), NEW node, NEW path, NEW on, NEW part,
         FitsAll(g, R, s, node, path, on, part)
  PROVE  FitsAll(g, R, t, node, path, on, part)
  <1> SUFFICES ASSUME NEW i \in DOMAIN t \cap DOMAIN Items(g, node, part)
               PROVE  Fits(R, t[i], Items(g, node, part)[i], PathAt(g, node, path, part, i), on \cup {node})
    BY DEF FitsAll
  <1> DEFINE x == Items(g, node, part)[i]
             p == PathAt(g, node, path, part, i)
             more == on \cup {node}
             w == PlaceAt(s[i], x, p, more)
  <1>1. i \in DOMAIN s /\ Fits(R, s[i], x, p, more) /\ (t[i] = s[i] \/ s[i] \in avoid)
    BY DEF SameBut, FitsAll
  <1>2. CASE t[i] = s[i]
    BY <1>1, <1>2
  <1>3. CASE s[i] \in avoid /\ x \notin more
    <2> HIDE DEF x, p, more
    <2>1. w \in R /\ w.new = s[i] /\ w.old = x /\ w.on = more
      BY <1>1, <1>3, PlaceFacts DEF Fits
    <2> HIDE DEF w
    <2>2. w.new \notin Strings /\ w.new \in avoid
      BY <1>3, <2>1
    <2> QED BY <2>1, <2>2 DEF Certificate
  <1>4. CASE x \in more
    BY <1>4 DEF Fits
  <1> QED BY <1>1, <1>2, <1>3, <1>4

LEMMA CertificateLasts ==
  ASSUME NEW g, NEW c, NEW h, NEW avoid, avoid \cap Strings = {}, NEW R, Certificate(g, c, h, avoid, R),
         NEW j, NEW touched, touched \subseteq avoid, Evolves(h, j, avoid, touched),
         NEW less, less \cap DOMAIN h \subseteq avoid
  PROVE  Certificate(g, c, j, less, R)
  <1>1. R \subseteq PlacesOf(DOMAIN j, g)
    <2>1. PlacesOf(DOMAIN h, g) \subseteq PlacesOf(DOMAIN j, g)
      BY DEF PlacesOf, Evolves
    <2> QED BY <2>1 DEF Certificate
  <1>2. ASSUME NEW w \in R, w.old \notin Strings
        PROVE  w.new \notin less /\ Closed(g, R, j, w)
    <2>1. /\ w.new \in DOMAIN h /\ w.new \notin avoid
          /\ FitsAll(g, R, h[w.new].kids, w.old, w.path, w.on, "kids")
          /\ FitsAll(g, R, h[w.new].extras, w.old, w.path, w.on, "extras")
      <3>1. w \in PlacesOf(DOMAIN h, g) /\ w.new \notin Strings
        BY <1>2 DEF Certificate
      <3> QED BY <1>2, <3>1, PlaceType DEF Certificate, Closed
    <2>2. /\ SameBut(h[w.new].kids, j[w.new].kids, avoid)
          /\ SameBut(h[w.new].extras, j[w.new].extras, avoid)
      BY <2>1 DEF Evolves
    <2>3. /\ FitsAll(g, R, j[w.new].kids, w.old, w.path, w.on, "kids")
          /\ FitsAll(g, R, j[w.new].extras, w.old, w.path, w.on, "extras")
      BY <2>1, <2>2, FitsChanged
    <2> QED BY <2>1, <2>3 DEF Closed
  <1> QED BY <1>1, <1>2 DEF Certificate


(***************************************************************************)
(* The second pass: what it has made so far.                               *)
(***************************************************************************)

ContainerFields == {"kind", "kids", "extras"}

(* Containers are numbered in the order in which they are made.            *)
Shaped(h) == /\ IsFiniteSet(DOMAIN h) /\ DOMAIN h = 1..Cardinality(DOMAIN h)
             /\ \A i \in DOMAIN h : DOMAIN h[i] = ContainerFields

Copies(s, n) == {s[j].copy : j \in 1..n}

(* The values that a call has collected stand well, and so do those that   *)
(* its copy holds already.                                                 *)
FrameFits(g, R, h, on, f) ==
    /\ f.copy \in DOMAIN h \ DOMAIN g
    /\ FitsAll(g, R, f.values, f.node, f.path, on, f.part)
    /\ FitsAll(g, R, h[f.copy].kids, f.node, f.path, on, "kids")
    /\ IsSeq(h[f.copy].kids)
    /\ g[f.node].kind \in {"dict", "list"} => Len(h[f.copy].kids) = Len(f.values)
    /\ f.part = "extras" /\ ~f.rebuilt => f.count = 0

Rebuilding(g, c, T, R, h, s) ==
    /\ Shaped(h) /\ DOMAIN g \subseteq DOMAIN h
    /\ Identity(g, c, T) \subseteq R
    /\ Certificate(g, c, h, Copies(s, Len(s)), R)
    /\ \A k \in 1..Len(s) : FrameFits(g, R, h, Running(s, k - 1), s[k])
    /\ \A j, k \in 1..Len(s) : s[j].copy = s[k].copy => j = k

(* The heap j has one more container than h.                               *)
Extended(h, id, x, j) ==
    /\ id \in Nat /\ id \notin DOMAIN h /\ Shaped(j) /\ j[id] = x
    /\ \A i \in DOMAIN h : j[i] = h[i]
    /\ DOMAIN j = DOMAIN h \cup {id}

LEMMA NewContainer ==
  ASSUME NEW h, Shaped(h), NEW id, id = Cardinality(DOMAIN h) + 1,
         NEW x, DOMAIN x = ContainerFields, NEW j, j = Bind(h, id, x)
  PROVE  Extended(h, id, x, j)
  <1> DEFINE n == Cardinality(DOMAIN h)
  <1>1. n \in Nat /\ IsFiniteSet(DOMAIN h) /\ DOMAIN h = 1..n
    BY FS_CardinalityType DEF Shaped
  <1>2. DOMAIN j = DOMAIN h \cup {id} /\ j[id] = x
    BY DEF Bind
  <1> HIDE DEF n
  <1>3. id = n + 1 /\ id \notin DOMAIN h
    BY <1>1 DEF n
  <1>4. \A i \in DOMAIN h : j[i] = h[i]
    BY <1>3 DEF Bind
  <1>5. IsFiniteSet(DOMAIN j) /\ Cardinality(DOMAIN j) = n + 1
    <2>1. /\ IsFiniteSet(DOMAIN h \cup {id})
          /\ Cardinality(DOMAIN h \cup {id}) = Cardinality(DOMAIN h) + 1
      BY <1>1, <1>3, FS_AddElement
    <2> QED BY <1>2, <2>1 DEF n
  <1>6. DOMAIN j = 1..(n + 1)
    <2>1. DOMAIN j = (1..n) \cup {n + 1}
      BY <1>1, <1>2, <1>3 DEF n
    <2>2. n \in Nat
      BY <1>1 DEF n
    <2>3. \A m \in Nat : (1..m) \cup {m + 1} = 1..(m + 1)
      OBVIOUS
    <2> QED BY <2>1, <2>2, <2>3
  <1>7. Shaped(j)
    BY <1>2, <1>4, <1>5, <1>6 DEF Shaped
  <1> QED BY <1>1, <1>2, <1>3, <1>4, <1>7 DEF Extended

LEMMA Assigned ==
  ASSUME NEW h, Shaped(h), NEW id, NEW x, id \in DOMAIN h => DOMAIN x = ContainerFields
  PROVE  /\ Shaped([h EXCEPT ![id] = x])
         /\ DOMAIN [h EXCEPT ![id] = x] = DOMAIN h
         /\ id \in DOMAIN h => [h EXCEPT ![id] = x][id] = x
         /\ \A i \in DOMAIN h \ {id} : [h EXCEPT ![id] = x][i] = h[i]
  BY DEF Shaped

LEMMA SameItself == \A s, avoid : SameBut(s, s, avoid)
  BY DEF SameBut

LEMMA EvolvesBy ==
  ASSUME NEW h, NEW j, NEW avoid, NEW touched, DOMAIN h \subseteq DOMAIN j,
         \A i \in DOMAIN h \ touched : j[i] = h[i]
  PROVE  Evolves(h, j, avoid, touched)
  BY SameItself DEF Evolves

LEMMA FrameLasts ==
  ASSUME NEW g, NEW c, NEW h, NEW avoid, avoid \cap Strings = {}, NEW R, Certificate(g, c, h, avoid, R),
         NEW on, NEW f, FrameFits(g, R, h, on, f), NEW j, NEW touched, f.copy \notin touched,
         Evolves(h, j, avoid, touched)
  PROVE  FrameFits(g, R, j, on, f)
  <1> DEFINE s == h[f.copy].kids
             t == j[f.copy].kids
  <1>1. SameBut(s, t, avoid) /\ f.copy \in DOMAIN j \ DOMAIN g
    BY DEF FrameFits, Evolves
  <1>2. FitsAll(g, R, t, f.node, f.path, on, "kids")
    BY <1>1, FitsChanged DEF FrameFits
  <1>3. IsSeq(s) /\ IsSeq(t) /\ DOMAIN s = DOMAIN t
    BY <1>1 DEF SameBut, FrameFits
  <1>4. Len(s) = Len(t)
    <2> HIDE DEF s, t
    <2>1. /\ Len(s) \in Nat /\ DOMAIN s = 1..Len(s)
          /\ Len(t) \in Nat /\ DOMAIN t = 1..Len(t)
      BY <1>3, IsSeqFacts
    <2>2. \A m, k \in Nat : 1..m = 1..k => m = k
      OBVIOUS
    <2> QED BY <1>3, <2>1, <2>2
  <1> QED BY <1>1, <1>2, <1>3, <1>4 DEF FrameFits

LEMMA CopiesFacts ==
  ASSUME NEW g, NEW c, NEW T, NEW R, NEW h, NEW s, Rebuilding(g, c, T, R, h, s)
  PROVE  /\ Copies(s, Len(s)) \subseteq DOMAIN h \ DOMAIN g
         /\ Copies(s, Len(s)) \cap Strings = {}
         /\ DOMAIN h \cap Strings = {} /\ DOMAIN h \subseteq Nat
  <1>1. Copies(s, Len(s)) \subseteq DOMAIN h \ DOMAIN g
    BY DEF Rebuilding, FrameFits, Copies
  <1>2. DOMAIN h \subseteq Nat
    <2>1. DOMAIN h = 1..Cardinality(DOMAIN h) /\ Cardinality(DOMAIN h) \in Nat
      BY FS_CardinalityType DEF Rebuilding, Shaped
    <2> QED BY <2>1
  <1>3. Strings \cap Nat = {}
    BY ScanAssumption
  <1> QED BY <1>1, <1>2, <1>3

(* The innermost call and the heap change together.                        *)
LEMMA RebuildTop ==
  ASSUME NEW g, NEW c, NEW T, NEW R, NEW h, NEW s, Rebuilding(g, c, T, R, h, s), IsSeq(s), Len(s) > 0,
         NEW f, f = s[Len(s)], NEW e, NEW t, TopIs(s, e, t), NEW j, Shaped(j),
         Evolves(h, j, Copies(s, Len(s)), {f.copy}),
         FrameFits(g, R, j, Running(s, Len(s) - 1), e),
         e.copy = f.copy \/ e.copy \notin DOMAIN h
  PROVE  Rebuilding(g, c, T, R, j, t)
  <1> DEFINE n == Len(s)
             avoid == Copies(s, n)
  <1>1. /\ n \in Nat /\ n > 0 /\ Len(t) = n /\ t[n] = e /\ \A i \in 1..(n - 1) : t[i] = s[i]
        /\ f = s[n]
    BY IsSeqFacts DEF TopIs
  <1>2. avoid \cap Strings = {} /\ avoid \subseteq DOMAIN h \ DOMAIN g /\ f.copy \in avoid
    <2>1. f.copy \in avoid
      BY <1>1 DEF Copies
    <2> QED BY <2>1, CopiesFacts
  <1>3. \A k \in 1..(n - 1) : s[k].copy # f.copy /\ s[k].copy \in avoid
    <2> TAKE k \in 1..(n - 1)
    <2>1. k \in 1..n /\ n \in 1..n /\ k # n
      BY <1>1
    <2> QED BY <1>1, <2>1 DEF Rebuilding, Copies
  <1> HIDE DEF n
  <1>4. Certificate(g, c, h, avoid, R) /\ DOMAIN h \subseteq DOMAIN j
    BY DEF Rebuilding, Evolves, n
  <1>5. Copies(t, n) \cap DOMAIN h \subseteq avoid
    <2> SUFFICES ASSUME NEW k \in 1..n, t[k].copy \in DOMAIN h PROVE t[k].copy \in avoid
      BY DEF Copies
    <2>1. CASE k = n
      BY <1>1, <1>2, <2>1
    <2>2. CASE k # n
      BY <1>1, <1>3, <2>2
    <2> QED BY <2>1, <2>2
  <1> HIDE DEF avoid
  <1>6. Certificate(g, c, j, Copies(t, n), R)
    <2>1. Evolves(h, j, avoid, {f.copy}) /\ {f.copy} \subseteq avoid
      BY <1>2 DEF avoid, n
    <2> QED BY <1>2, <1>4, <1>5, <2>1, CertificateLasts
  <1>7. \A k \in 0..(n - 1) : Running(t, k) = Running(s, k)
    <2>1. n - 1 \in Nat
      BY <1>1
    <2> QED BY <1>1, <2>1, RunningSame
  <1>8. \A k \in 1..n : FrameFits(g, R, j, Running(t, k - 1), t[k])
    <2> TAKE k \in 1..n
    <2>1. Running(t, k - 1) = Running(s, k - 1)
      BY <1>1, <1>7
    <2>2. CASE k = n
      BY <1>1, <2>1, <2>2 DEF n
    <2>3. CASE k # n
      <3>1. t[k] = s[k] /\ s[k].copy \notin {f.copy}
        BY <1>1, <1>3, <2>3
      <3>2. FrameFits(g, R, h, Running(s, k - 1), s[k])
        BY DEF Rebuilding, n
      <3>3. Evolves(h, j, avoid, {f.copy})
        BY DEF avoid, n
      <3>4. FrameFits(g, R, j, Running(s, k - 1), s[k])
        BY <1>2, <1>4, <3>1, <3>2, <3>3, FrameLasts
      <3> QED BY <2>1, <3>1, <3>4
    <2> QED BY <2>2, <2>3
  <1>9. \A i, k \in 1..n : t[i].copy = t[k].copy => i = k
    <2>1. \A i \in 1..(n - 1) : t[i].copy # t[n].copy
      BY <1>1, <1>2, <1>3
    <2>2. \A i, k \in 1..n : i # k => (i # n /\ k # n) \/ (i = n /\ k \in 1..(n - 1)) \/ (k = n /\ i \in 1..(n - 1))
      BY <1>1
    <2>3. \A i, k \in 1..n : i # n /\ k # n /\ t[i].copy = t[k].copy => i = k
      <3>1. \A i \in 1..n : i # n => t[i] = s[i]
        BY <1>1
      <3> QED BY <3>1 DEF Rebuilding, n
    <2> QED BY <2>1, <2>2, <2>3
  <1>10. Identity(g, c, T) \subseteq R /\ DOMAIN g \subseteq DOMAIN j
    BY <1>4 DEF Rebuilding
  <1> QED BY <1>1, <1>6, <1>8, <1>9, <1>10 DEF Rebuilding

LEMMA RebuildPush ==
  ASSUME NEW g, NEW c, NEW T, NEW R, NEW h, NEW s, Rebuilding(g, c, T, R, h, s), IsSeq(s),
         NEW e, NEW j, Shaped(j), Evolves(h, j, Copies(s, Len(s)), {}),
         FrameFits(g, R, j, Running(s, Len(s)), e), e.copy \notin DOMAIN h
  PROVE  Rebuilding(g, c, T, R, j, Append(s, e))
  <1> DEFINE n == Len(s)
             t == Append(s, e)
             avoid == Copies(s, n)
  <1>1. n \in Nat /\ Len(t) = n + 1 /\ t[n + 1] = e /\ \A i \in 1..n : t[i] = s[i]
    BY IsSeqFacts, IsSeqPush
  <1>2. avoid \cap Strings = {} /\ avoid \subseteq DOMAIN h \ DOMAIN g
    BY CopiesFacts
  <1>3. \A k \in 1..n : s[k].copy \in avoid
    BY DEF Copies
  <1> HIDE DEF n, t
  <1>4. Certificate(g, c, h, avoid, R) /\ DOMAIN h \subseteq DOMAIN j
    BY DEF Rebuilding, Evolves, n
  <1>5. Copies(t, n + 1) \cap DOMAIN h \subseteq avoid
    <2> SUFFICES ASSUME NEW k \in 1..(n + 1), t[k].copy \in DOMAIN h PROVE t[k].copy \in avoid
      BY DEF Copies
    <2>1. CASE k = n + 1
      BY <1>1, <2>1
    <2>2. CASE k # n + 1
      <3>1. k \in 1..n
        BY <1>1, <2>2
      <3> QED BY <1>1, <1>3, <3>1
    <2> QED BY <2>1, <2>2
  <1> HIDE DEF avoid
  <1>6. Certificate(g, c, j, Copies(t, n + 1), R)
    <2>1. Evolves(h, j, avoid, {}) /\ {} \subseteq avoid
      BY DEF avoid, n
    <2> QED BY <1>2, <1>4, <1>5, <2>1, CertificateLasts
  <1>7. \A k \in 0..n : Running(t, k) = Running(s, k)
    BY <1>1, RunningSame
  <1>8. \A k \in 1..(n + 1) : FrameFits(g, R, j, Running(t, k - 1), t[k])
    <2> TAKE k \in 1..(n + 1)
    <2>1. Running(t, k - 1) = Running(s, k - 1)
      BY <1>1, <1>7
    <2>2. CASE k = n + 1
      BY <1>1, <2>1, <2>2 DEF n
    <2>3. CASE k # n + 1
      <3>1. t[k] = s[k] /\ s[k].copy \notin {} /\ k \in 1..n
        BY <1>1, <2>3
      <3>2. FrameFits(g, R, h, Running(s, k - 1), s[k])
        BY <3>1 DEF Rebuilding, n
      <3>3. Evolves(h, j, avoid, {})
        BY DEF avoid, n
      <3>4. FrameFits(g, R, j, Running(s, k - 1), s[k])
        BY <1>2, <1>4, <3>1, <3>2, <3>3, FrameLasts
      <3> QED BY <2>1, <3>1, <3>4
    <2> QED BY <2>2, <2>3
  <1>9. \A i, k \in 1..(n + 1) : t[i].copy = t[k].copy => i = k
    <2>1. \A i \in 1..n : t[i].copy # t[n + 1].copy
      BY <1>1, <1>2, <1>3
    <2>2. \A i \in 1..(n + 1) : i = n + 1 \/ i \in 1..n
      BY <1>1
    <2>3. \A i, k \in 1..n : t[i].copy = t[k].copy => i = k
      BY <1>1 DEF Rebuilding, n
    <2> QED BY <2>1, <2>2, <2>3
  <1>10. Identity(g, c, T) \subseteq R /\ DOMAIN g \subseteq DOMAIN j
    BY <1>4 DEF Rebuilding
  <1>11. Rebuilding(g, c, T, R, j, t)
    BY <1>1, <1>6, <1>8, <1>9, <1>10 DEF Rebuilding
  <1> QED BY <1>11 DEF t

LEMMA RebuildPop ==
  ASSUME NEW g, NEW c, NEW T, NEW R, NEW h, NEW s, Rebuilding(g, c, T, R, h, s), IsSeq(s), Len(s) > 0,
         NEW b, b = SubSeq(s, 1, Len(s) - 1)
  PROVE  /\ Rebuilding(g, c, T, R, h, b)
         /\ s[Len(s)].copy \notin Copies(b, Len(b))
         /\ Copies(b, Len(b)) \subseteq Copies(s, Len(s))
  <1> DEFINE n == Len(s)
  <1>1. n \in Nat /\ n > 0 /\ Len(b) = n - 1 /\ \A i \in 1..(n - 1) : b[i] = s[i]
    BY IsSeqFacts, IsSeqFront
  <1> HIDE DEF n
  <1>2. \A i \in 1..(n - 1) : i \in 1..n /\ i # n /\ n \in 1..n
    BY <1>1
  <1>3. Copies(b, n - 1) \subseteq Copies(s, n) /\ s[n].copy \notin Copies(b, n - 1)
    <2>1. \A i \in 1..(n - 1) : b[i].copy = s[i].copy /\ s[i].copy # s[n].copy
      BY <1>1, <1>2 DEF Rebuilding, n
    <2> QED BY <1>2, <2>1 DEF Copies
  <1>4. Certificate(g, c, h, Copies(b, n - 1), R)
    BY <1>3 DEF Rebuilding, Certificate, n
  <1>5. \A k \in 0..(n - 1) : Running(b, k) = Running(s, k)
    <2>1. n - 1 \in Nat
      BY <1>1
    <2> QED BY <1>1, <2>1, RunningSame
  <1>6. \A k \in 1..(n - 1) : FrameFits(g, R, h, Running(b, k - 1), b[k])
    <2> TAKE k \in 1..(n - 1)
    <2>1. Running(b, k - 1) = Running(s, k - 1) /\ b[k] = s[k] /\ k \in 1..n
      BY <1>1, <1>2, <1>5
    <2> QED BY <2>1 DEF Rebuilding, n
  <1>7. \A i, k \in 1..(n - 1) : b[i].copy = b[k].copy => i = k
    BY <1>1, <1>2 DEF Rebuilding, n
  <1>8. Rebuilding(g, c, T, R, h, b)
    BY <1>1, <1>4, <1>6, <1>7 DEF Rebuilding
  <1> QED BY <1>1, <1>3, <1>8 DEF n

LEMMA RebuildMore ==
  ASSUME NEW g, NEW c, NEW T, NEW R, NEW h, NEW s, Rebuilding(g, c, T, R, h, s),
         NEW U, R \subseteq U, Certificate(g, c, h, Copies(s, Len(s)), U)
  PROVE  Rebuilding(g, c, T, U, h, s)
  <1>1. \A k \in 1..Len(s) : FrameFits(g, U, h, Running(s, k - 1), s[k])
    BY FitsMore DEF Rebuilding, FrameFits
  <1> QED BY <1>1 DEF Rebuilding

LEMMA RebuildNothing ==
  ASSUME NEW g \in Graphs, NEW c, NEW T, IsTally(g, c, T), NEW h, Shaped(h),
         DOMAIN g \subseteq DOMAIN h, \A i \in DOMAIN g : h[i] = g[i]
  PROVE  Rebuilding(g, c, T, Identity(g, c, T), h, << >>)
  <1>1. Copies(<< >>, Len(<< >>)) = {} /\ Len(<< >>) = 0
    BY EmptySeq DEF Copies
  <1>2. Certificate(g, c, h, {}, Identity(g, c, T))
    BY IdentityCertifies
  <1>3. Rebuilding(g, c, T, Identity(g, c, T), h, << >>)
    <2> DEFINE s == << >>
    <2>1. Copies(s, Len(s)) = {} /\ Len(s) = 0
      BY <1>1
    <2> HIDE DEF s
    <2>2. Rebuilding(g, c, T, Identity(g, c, T), h, s)
      BY <1>2, <2>1 DEF Rebuilding
    <2> QED BY <2>2 DEF s
  <1> QED BY <1>3


(***************************************************************************)
(* What the actions do to what has been made.                              *)
(***************************************************************************)

LEMMA FitsAppend ==
  ASSUME NEW g, NEW R, NEW values, IsSeq(values), NEW node, NEW path, NEW on, NEW part,
         FitsAll(g, R, values, node, path, on, part), NEW value,
         Fits(R, value, Items(g, node, part)[Len(values) + 1],
              PathAt(g, node, path, part, Len(values) + 1), on \cup {node})
  PROVE  FitsAll(g, R, Append(values, value), node, path, on, part)
  <1> DEFINE s == Append(values, value)
             k == Len(values)
  <1>1. /\ IsSeq(s) /\ Len(s) = k + 1 /\ \A i \in 1..k : s[i] = values[i] /\ s[k + 1] = value
        /\ k \in Nat
    BY IsSeqPush, IsSeqFacts
  <1>2. DOMAIN values = 1..k
    BY IsSeqFacts
  <1> HIDE DEF s
  <1>3. DOMAIN s = 1..(k + 1)
    BY <1>1, IsSeqFacts
  <1>4. s[k + 1] = value
    BY IsSeqPush DEF s
  <1> HIDE DEF k
  <1>5. \A i \in DOMAIN s : (i \in DOMAIN values /\ s[i] = values[i]) \/ i = k + 1
    BY <1>1, <1>2, <1>3
  <1>6. ASSUME NEW i \in DOMAIN s \cap DOMAIN Items(g, node, part)
        PROVE  Fits(R, s[i], Items(g, node, part)[i], PathAt(g, node, path, part, i), on \cup {node})
    <2>1. CASE i \in DOMAIN values /\ s[i] = values[i]
      BY <1>6, <2>1 DEF FitsAll
    <2>2. CASE i = k + 1
      BY <1>4, <2>2 DEF k
    <2> QED BY <1>5, <1>6, <2>1, <2>2
  <1>7. FitsAll(g, R, s, node, path, on, part)
    BY <1>6 DEF FitsAll
  <1> QED BY <1>7 DEF s

LEMMA FitsNone ==
  ASSUME NEW g, NEW R, NEW node, NEW path, NEW on, NEW part
  PROVE  FitsAll(g, R, << >>, node, path, on, part) /\ IsSeq(<< >>) /\ Len(<< >>) = 0
  <1>1. << >> \in Seq({}) /\ Len(<< >>) = 0 /\ DOMAIN << >> = {}
    BY EmptySeq
  <1>2. IsSeq(<< >>)
    BY <1>1, IsSeqOf
  <1> QED BY <1>1, <1>2 DEF FitsAll

LEMMA SubstituteSame ==
  ASSUME NEW s, NEW p, NEW r, NEW avoid, p \in avoid
  PROVE  SameBut(s, Substitute(s, p, r), avoid)
  <1> DEFINE t == Substitute(s, p, r)
  <1>1. DOMAIN t = DOMAIN s /\ \A i \in DOMAIN s : t[i] = s[i] \/ s[i] \in avoid
    BY DEF Substitute
  <1>2. ASSUME IsSeq(s) PROVE IsSeq(t)
    <2>1. Len(s) \in Nat /\ s \in [1..Len(s) -> Range(s)]
      BY <1>2, IsSeqFacts
    <2>2. t \in [1..Len(s) -> Range(s) \cup {r}]
      BY <2>1 DEF Substitute
    <2> HIDE DEF t
    <2>3. t \in Seq(Range(s) \cup {r})
      BY <2>1, <2>2, SeqDef
    <2> QED BY <2>3, IsSeqOf
  <1> HIDE DEF t
  <1>3. SameBut(s, t, avoid)
    BY <1>1, <1>2 DEF SameBut
  <1> QED BY <1>3 DEF t

LEMMA ReplaceFacts ==
  ASSUME NEW h, Shaped(h), NEW v, NEW p, NEW r, NEW j, j = ReplacePlaceholder(h, v, p, r)
  PROVE  /\ Shaped(j) /\ DOMAIN j = DOMAIN h
         /\ \A avoid : p \in avoid => Evolves(h, j, avoid, {})
         /\ \A i \in DOMAIN h : h[i].kind = "tuple" => j[i] = h[i]
  <1>1. DOMAIN j = DOMAIN h
    BY DEF ReplacePlaceholder
  <1>2. \A i \in DOMAIN h :
           \/ j[i] = h[i]
           \/ /\ h[i].kind # "tuple"
              /\ j[i] = [h[i] EXCEPT !.kids = Substitute(h[i].kids, p, r),
                                     !.extras = Substitute(h[i].extras, p, r)]
    BY DEF ReplacePlaceholder
  <1>3. ASSUME NEW i \in DOMAIN h, NEW avoid, p \in avoid
        PROVE  /\ SameBut(h[i].kids, j[i].kids, avoid)
               /\ SameBut(h[i].extras, j[i].extras, avoid)
    <2>1. CASE j[i] = h[i]
      BY <2>1, SameItself
    <2>2. CASE j[i] = [h[i] EXCEPT !.kids = Substitute(h[i].kids, p, r),
                                   !.extras = Substitute(h[i].extras, p, r)]
      <3>1. "kids" \in DOMAIN h[i] /\ "extras" \in DOMAIN h[i]
        BY DEF Shaped, ContainerFields
      <3>2. /\ j[i].kids = Substitute(h[i].kids, p, r)
            /\ j[i].extras = Substitute(h[i].extras, p, r)
        BY <2>2, <3>1
      <3> QED BY <1>3, <3>2, SubstituteSame
    <2> QED BY <1>2, <2>1, <2>2
  <1>4. \A i \in DOMAIN j : DOMAIN j[i] = ContainerFields
    <2>1. \A i \in DOMAIN j : DOMAIN h[i] = ContainerFields
      BY <1>1 DEF Shaped
    <2> QED BY <1>1, <1>2, <2>1
  <1>5. Shaped(j)
    BY <1>1, <1>4 DEF Shaped
  <1>6. \A avoid : p \in avoid => Evolves(h, j, avoid, {})
    BY <1>1, <1>3 DEF Evolves
  <1> QED BY <1>1, <1>2, <1>5, <1>6

LEMMA AcceptFits ==
  ASSUME NEW g \in Graphs, NEW c, NEW T, NEW R, NEW h, NEW s, Rebuilding(g, c, T, R, h, s),
         Calls(g, c, T, s), Len(s) > 0, NEW f, f = s[Len(s)],
         Len(f.values) # Len(FrameItems(g, f)), heap[f.node] = g[f.node],
         NEW value, NEW n,
         Fits(R, value, FrameItems(g, f)[Len(f.values) + 1],
              PathAt(g, f.node, f.path, f.part, Len(f.values) + 1), Running(s, Len(s))),
         Accept(s, h, value, n)
  PROVE  Rebuilding(g, c, T, R, heap', stack')
  <1> DEFINE e == [f EXCEPT !.values = Append(@, value), !.partCount = @ + n]
             m == Len(s)
             on == Running(s, m - 1)
             plain == g[f.node].kind \in {"dict", "list"}
             x == [h[f.copy] EXCEPT !.kids = Append(@, value)]
  <1>1. IsSeq(s) /\ m \in Nat /\ m > 0 /\ FrameOK(g, c, T, on, f) /\ FrameFits(g, R, h, on, f)
    BY IsSeqFacts DEF Calls, Rebuilding
  <1>2. Running(s, m) = on \cup {f.node}
    BY <1>1, RunningMore
  <1>3. f.copy \in DOMAIN h \ DOMAIN g /\ f.copy # None /\ DOMAIN h[f.copy] = ContainerFields
    <2>1. f.copy \in DOMAIN h \ DOMAIN g
      BY <1>1 DEF FrameFits
    <2>2. DOMAIN h = 1..Cardinality(DOMAIN h) /\ Cardinality(DOMAIN h) \in Nat
          /\ DOMAIN h[f.copy] = ContainerFields
      BY <2>1, FS_CardinalityType DEF Rebuilding, Shaped
    <2> QED BY <2>1, <2>2 DEF None
  <1>4. stack' = [s EXCEPT ![m] = e] /\ heap' = (IF plain THEN [h EXCEPT ![f.copy] = x] ELSE h)
    BY <1>3 DEF Accept, Made
  <1>5. /\ e.node = f.node /\ e.path = f.path /\ e.part = f.part /\ e.copy = f.copy
        /\ e.count = f.count /\ e.rebuilt = f.rebuilt /\ e.values = Append(f.values, value)
    BY <1>1 DEF FrameOK, CallOK, FrameFields
  <1>6. IsSeq(f.values) /\ f.node \in DOMAIN g /\ f.part \in Parts
    BY <1>1 DEF FrameOK, CallOK
  <1> HIDE DEF e, on
  <1>7. FitsAll(g, R, e.values, e.node, e.path, on, e.part)
    <2> DEFINE v == f.values
               k == Len(v) + 1
    <2>1. FitsAll(g, R, v, f.node, f.path, on, f.part)
      BY <1>1 DEF FrameFits
    <2>2. Fits(R, value, Items(g, f.node, f.part)[k], PathAt(g, f.node, f.path, f.part, k), on \cup {f.node})
      BY <1>2 DEF FrameItems
    <2>3. FitsAll(g, R, Append(v, value), f.node, f.path, on, f.part)
      BY <1>6, <2>1, <2>2, FitsAppend
    <2> QED BY <1>5, <2>3
  <1>8. ASSUME plain PROVE f.part = "kids"
    <2>1. g[f.node].extras = << >>
      BY <1>6, <1>8, GraphFacts DEF WellFormed
    <2> QED BY <1>1, <1>6, <2>1 DEF FrameOK, CallOK, Parts
  <1>9. TopIs(s, e, stack')
    BY <1>1, <1>4, TopReplaced
  <1>10. CASE plain
    <2>1. x.kids = Append(h[f.copy].kids, value) /\ DOMAIN x = ContainerFields
      BY <1>3 DEF ContainerFields
    <2>2. /\ heap' = [h EXCEPT ![f.copy] = x] /\ Shaped(h)
      BY <1>4, <1>10 DEF Rebuilding
    <2> HIDE DEF x
    <2>3. /\ Shaped(heap') /\ DOMAIN heap' = DOMAIN h /\ heap'[f.copy] = x
          /\ \A i \in DOMAIN h \ {f.copy} : heap'[i] = h[i]
      BY <1>3, <2>1, <2>2, Assigned
    <2>4. Evolves(h, heap', Copies(s, m), {f.copy})
      BY <2>3, EvolvesBy
    <2>5. /\ IsSeq(h[f.copy].kids) /\ Len(h[f.copy].kids) = Len(f.values)
          /\ FitsAll(g, R, h[f.copy].kids, f.node, f.path, on, "kids")
      BY <1>1, <1>10 DEF FrameFits
    <2>6. /\ IsSeq(x.kids) /\ Len(x.kids) = Len(e.values)
      <3>1. \A z : IsSeq(z) => IsSeq(Append(z, value)) /\ Len(Append(z, value)) = Len(z) + 1
        BY IsSeqPush
      <3>2. IsSeq(Append(h[f.copy].kids, value)) /\ Len(Append(h[f.copy].kids, value)) = Len(h[f.copy].kids) + 1
        BY <2>5, <3>1
      <3>3. Len(Append(f.values, value)) = Len(f.values) + 1
        BY <1>6, <3>1
      <3> QED BY <1>5, <2>1, <2>5, <3>2, <3>3
    <2>7. FitsAll(g, R, x.kids, f.node, f.path, on, "kids")
      <3>1. Fits(R, value, Items(g, f.node, "kids")[Len(h[f.copy].kids) + 1],
                 PathAt(g, f.node, f.path, "kids", Len(h[f.copy].kids) + 1), on \cup {f.node})
        BY <1>2, <1>8, <1>10, <2>5 DEF FrameItems
      <3> QED BY <2>1, <2>5, <3>1, FitsAppend
    <2>8. FrameFits(g, R, heap', on, e)
      BY <1>1, <1>3, <1>5, <1>7, <2>3, <2>6, <2>7 DEF FrameFits
    <2> QED BY <1>1, <1>5, <1>9, <2>3, <2>4, <2>8, RebuildTop DEF on
  <1>11. CASE ~plain
    <2>1. heap' = h /\ Shaped(h)
      BY <1>4, <1>11 DEF Rebuilding
    <2>2. Evolves(h, heap', Copies(s, m), {f.copy})
      BY <2>1, EvolvesBy
    <2>3. FrameFits(g, R, heap', on, e)
      BY <1>1, <1>3, <1>5, <1>7, <1>11, <2>1 DEF FrameFits
    <2> QED BY <1>1, <1>5, <1>9, <2>1, <2>2, <2>3, RebuildTop DEF on
  <1> QED BY <1>10, <1>11

LEMMA EnterFits ==
  ASSUME NEW g, NEW c, NEW T, NEW R, NEW s, Rebuilding(g, c, T, R, heap, s), IsSeq(s),
         NEW node, NEW path, Enter(node, path, s), pass' = "redact"
  PROVE  Rebuilding(g, c, T, R, heap', stack')
  <1> DEFINE e == Frame(node, path, FirstPart(node), Fresh)
             x == Blank(CopyKind(node))
  <1>1. heap' = Bind(heap, Fresh, x) /\ stack' = Append(s, e)
    BY DEF Enter, Add
  <1>2. DOMAIN x = ContainerFields /\ x.kids = << >>
    BY DEF Blank, ContainerFields
  <1>3. Shaped(heap) /\ Fresh = Cardinality(DOMAIN heap) + 1 /\ DOMAIN g \subseteq DOMAIN heap
    BY DEF Rebuilding, Fresh
  <1> HIDE DEF x
  <1>4. /\ Fresh \notin DOMAIN heap /\ Shaped(heap') /\ heap'[Fresh] = x
        /\ \A i \in DOMAIN heap : heap'[i] = heap[i]
        /\ DOMAIN heap' = DOMAIN heap \cup {Fresh}
    <2>1. Extended(heap, Fresh, x, heap')
      BY <1>1, <1>2, <1>3, NewContainer
    <2> QED BY <2>1 DEF Extended
  <1>5. Evolves(heap, heap', Copies(s, Len(s)), {})
    BY <1>4, EvolvesBy
  <1>6. e.copy = Fresh /\ e.values = << >> /\ e.count = 0
    BY DEF Frame
  <1> HIDE DEF e
  <1>7. FrameFits(g, R, heap', Running(s, Len(s)), e)
    BY <1>2, <1>3, <1>4, <1>6, FitsNone DEF FrameFits
  <1>8. e.copy \notin DOMAIN heap
    BY <1>4, <1>6
  <1>9. Rebuilding(g, c, T, R, heap', Append(s, e))
    BY <1>4, <1>5, <1>7, <1>8, RebuildPush
  <1> QED BY <1>1, <1>9

(* What remains of the certificate after a step.                           *)
Certified(T, R) ==
    /\ pass = "redact" => Rebuilding(original, config, T, R, heap, stack)
    /\ pass = "done" /\ answer.payload # Root =>
         /\ Certificate(original, config, heap, {}, R)
         /\ PlaceAt(answer.payload, Root, << >>, {}) \in R

(* A value that a complete call may return.                                *)
Returnable(g, R, h, on, f, below, value) ==
    \/ PlaceAt(value, f.node, f.path, on) \in R
    \/ /\ value \in DOMAIN h \ below
       /\ Closed(g, R, h, PlaceAt(value, f.node, f.path, on))

LEMMA ReturnFits ==
  ASSUME TallyInv, pass = "redact", NEW T, Tallied(T), NEW R, NEW h,
         Rebuilding(original, config, T, R, h, stack),
         NEW value, NEW count, Return(h, value, count),
         Returnable(original, R, h, Running(stack, Len(stack) - 1), Top, Copies(Below, Len(Below)), value)
  PROVE  \E U : Certified(T, U)'
  <1> DEFINE g == original
             c == config
             b == Below
             n == Len(stack)
             on == Running(stack, n - 1)
             w == PlaceAt(value, Top.node, Top.path, on)
  <1>0. PICK U : U = R \cup {w}
    OBVIOUS
  <1>1. /\ UntouchedInv /\ CountInv /\ g \in Graphs /\ IsTally(g, c, T)
        /\ Calls(g, c, T, stack) /\ IsSeq(stack) /\ n > 0 /\ n \in Nat
    BY Unchanging, IsSeqFacts DEF TallyInv, CountInv, Tallied, Calls
  <1>2. original' = original /\ config' = config
    BY DEF Return
  <1>3. /\ Calls(g, c, T, b) /\ Len(b) = n - 1
        /\ Running(b, Len(b)) = on
        /\ Len(b) > 0 => CalledBy(g, b[Len(b)], Top)
    BY <1>1, CallsPop DEF Below, Top
  <1>4. FrameOK(g, c, T, on, Top) /\ Top.node \in DOMAIN g
    BY <1>1, ScanningFacts
  <1>5. Rebuilding(g, c, T, R, h, b)
    <2>1. b = SubSeq(stack, 1, Len(stack) - 1) /\ Len(stack) > 0
      BY <1>1 DEF Below
    <2>2. \A z, y : /\ Rebuilding(g, c, T, R, h, z) /\ IsSeq(z) /\ Len(z) > 0
                    /\ y = SubSeq(z, 1, Len(z) - 1)
                    => Rebuilding(g, c, T, R, h, y)
      BY RebuildPop
    <2> HIDE DEF b
    <2> QED BY <1>1, <2>1, <2>2
  <1>6. /\ Top.node \in DOMAIN g \ on /\ Top.path \in FieldPaths /\ on \in SUBSET DOMAIN g
        /\ Top.node \notin Strings
    BY <1>1, <1>4, GraphFacts DEF FrameOK, CallOK
  <1>7. DOMAIN h \cap Strings = {}
    BY <1>5, CopiesFacts
  <1>8. Certificate(g, c, h, Copies(b, Len(b)), R)
    BY <1>5 DEF Rebuilding
  <1> HIDE DEF g, c, b, n, on, w
  <1>9. Certificate(g, c, h, Copies(b, Len(b)), U)
    <2>1. CASE w \in R
      <3>1. U = R
        BY <1>0, <2>1
      <3> QED BY <1>8, <3>1
    <2>2. CASE w \notin R
      <3>1. value \in DOMAIN h /\ value \notin Copies(b, Len(b)) /\ Closed(g, R, h, w)
        BY <2>2 DEF Returnable, w, g, on, b, n
      <3>2. /\ w \in PlacesOf(DOMAIN h, g) /\ w.new = value /\ w.old = Top.node /\ w.on = on
        BY <1>6, <3>1, PlaceIn, PlaceFacts DEF w
      <3>3. AsConfigured(c, w)
        BY <1>1, <1>6, <3>2, GraphFacts DEF AsConfigured
      <3> QED BY <1>0, <1>6, <1>7, <1>8, <3>1, <3>2, <3>3, PlaceAdded
    <2> QED BY <2>1, <2>2
  <1>10. Rebuilding(g, c, T, U, h, b)
    <2>1. R \subseteq U
      BY <1>0
    <2> QED BY <1>5, <1>9, <2>1, RebuildMore
  <1>11. w \in U
    BY <1>0
  <1>12. CASE n > 1
    <2> DEFINE f == b[Len(b)]
               k == Len(f.values) + 1
    <2>1. Accept(b, h, value, count) /\ pass' = pass
      BY <1>12 DEF Return, b, n
    <2>2. Len(b) > 0
      BY <1>1, <1>3, <1>12
    <2>3. /\ Len(f.values) < Len(FrameItems(g, f)) /\ FrameItems(g, f)[k] = Top.node
          /\ PathAt(g, f.node, f.path, f.part, k) = Top.path
      BY <1>3, <2>2 DEF CalledBy
    <2>4. IsSeq(f.values) /\ IsSeq(b) /\ f.node \in DOMAIN g /\ f.part \in Parts /\ f.path \in FieldPaths
      <3>1. IsSeq(b) /\ \A i \in 1..Len(b) : FrameOK(g, c, T, Running(b, i - 1), b[i])
        BY <1>3 DEF Calls
      <3>2. Len(b) \in 1..Len(b)
        BY <2>2, <3>1, IsSeqFacts
      <3>3. FrameOK(g, c, T, Running(b, Len(b) - 1), f)
        BY <3>1, <3>2
      <3> QED BY <3>1, <3>3 DEF FrameOK, CallOK
    <2>5. Len(f.values) # Len(FrameItems(g, f))
      <3>1. Len(f.values) \in Nat /\ Len(FrameItems(g, f)) \in Nat
        BY <1>1, <2>4, IsSeqFacts, ItemsFacts DEF FrameItems
      <3> QED BY <2>3, <3>1
    <2>6. heap[f.node] = g[f.node]
      BY <1>1, <2>4, Unchanging DEF g
    <2>7. Fits(U, value, FrameItems(g, f)[k], PathAt(g, f.node, f.path, f.part, k), Running(b, Len(b)))
      BY <1>3, <1>11, <2>3 DEF Fits, w
    <2> HIDE DEF f
    <2>8. Rebuilding(g, c, T, U, heap', stack')
      <3>1. f = b[Len(b)]
        BY DEF f
      <3> QED BY <1>1, <1>3, <1>10, <2>1, <2>2, <2>5, <2>6, <2>7, <3>1, AcceptFits
    <2>9. Certified(T, U)'
      <3>1. Rebuilding(original', config', T, U, heap', stack') /\ pass' = "redact"
        BY <1>2, <2>1, <2>8 DEF g, c
      <3> QED BY <3>1 DEF Certified
    <2> QED BY <2>9
  <1>13. CASE ~(n > 1)
    <2>1. /\ pass' = "done" /\ heap' = h
          /\ answer' = Answer(count, IF count = 0 THEN Root ELSE value)
      BY <1>13 DEF Return, n
    <2>2. Len(b) = 0 /\ n = 1
      BY <1>1, <1>3, <1>13
    <2>3. Top.node = Root /\ Top.path = << >> /\ on = {} /\ Copies(b, Len(b)) = {}
      <3>1. Top.node = Root /\ Top.path = << >>
        BY <1>1, <2>2 DEF Calls, Top, n
      <3>2. on = {} /\ Copies(b, Len(b)) = {}
        BY <2>2 DEF Running, Copies, on
      <3> QED BY <3>1, <3>2
    <2>4. answer'.payload # Root => answer'.payload = value
      BY <2>1 DEF Answer
    <2>5. Certified(T, U)'
      <3>1. Certificate(original', config', heap', {}, U)
        BY <1>2, <1>9, <2>1, <2>3 DEF g, c
      <3>2. answer'.payload # Root => PlaceAt(answer'.payload, Root, << >>, {}) \in U
        BY <1>11, <2>3, <2>4 DEF w
      <3> QED BY <2>1, <3>1, <3>2 DEF Certified
    <2> QED BY <2>5
  <1> QED BY <1>12, <1>13


(***************************************************************************)
(* Heaps keep their shape.                                                 *)
(***************************************************************************)

LEMMA AcceptShaped ==
  ASSUME NEW s, NEW h, Shaped(h), NEW value, NEW n, Accept(s, h, value, n)
  PROVE  Shaped(heap')
  <1> DEFINE f == s[Len(s)]
             x == [h[f.copy] EXCEPT !.kids = Append(@, value)]
  <1>1. heap' = h \/ heap' = [h EXCEPT ![f.copy] = x]
    BY DEF Accept, Made
  <1>2. f.copy \in DOMAIN h => DOMAIN x = ContainerFields
    BY DEF Shaped
  <1> HIDE DEF f, x
  <1> QED BY <1>1, <1>2, Assigned

LEMMA AddShaped ==
  ASSUME Shaped(heap), NEW x, DOMAIN x = ContainerFields
  PROVE  Extended(heap, Fresh, x, Add(x)) /\ Shaped(Add(x))
  <1>1. Fresh = Cardinality(DOMAIN heap) + 1 /\ Add(x) = Bind(heap, Fresh, x)
    BY DEF Fresh, Add
  <1>2. Extended(heap, Fresh, x, Add(x))
    BY <1>1, NewContainer
  <1> QED BY <1>2 DEF Extended

LEMMA EnterShaped ==
  ASSUME Shaped(heap), NEW node, NEW path, NEW s, Enter(node, path, s)
  PROVE  Shaped(heap')
  <1>1. heap' = heap \/ heap' = Add(Blank(CopyKind(node)))
    BY DEF Enter
  <1>2. DOMAIN Blank(CopyKind(node)) = ContainerFields
    BY DEF Blank, ContainerFields
  <1> QED BY <1>1, <1>2, AddShaped

LEMMA ReturnShaped ==
  ASSUME Shaped(heap), NEW h, Shaped(h), NEW value, NEW count, Return(h, value, count)
  PROVE  Shaped(heap')
  <1>1. \/ Accept(Below, h, value, count)
        \/ Enter(Root, << >>, << >>)
        \/ heap' = h
    BY DEF Return
  <1> QED BY <1>1, AcceptShaped, EnterShaped

(***************************************************************************)
(* The second pass, from within.                                           *)
(***************************************************************************)

On == Running(stack, Len(stack) - 1)

RedactFacts(T, R) ==
    /\ original \in Graphs /\ IsTally(original, config, T)
    /\ IsSeq(stack) /\ Len(stack) \in Nat /\ Len(stack) > 0 /\ Top = stack[Len(stack)]
    /\ Calls(original, config, T, stack)
    /\ FrameOK(original, config, T, On, Top)
    /\ FrameFits(original, R, heap, On, Top)
    /\ Top.node \in DOMAIN original \ On /\ Top.node \notin Strings
    /\ Top.path \in FieldPaths /\ On \in SUBSET DOMAIN original
    /\ heap[Top.node] = original[Top.node]
    /\ seen = Running(stack, Len(stack)) /\ seen = On \cup {Top.node} /\ seen \in SUBSET DOMAIN original
    /\ Part(Top) = FrameItems(original, Top)
    /\ ~Exhausted(Top) => AtChild(original, Top)
    /\ Top.copy \in Copies(stack, Len(stack)) /\ Top.copy \in DOMAIN heap \ DOMAIN original
    /\ Top.copy \notin Copies(Below, Len(Below))
    /\ Copies(Below, Len(Below)) \subseteq Copies(stack, Len(stack))
    /\ Copies(stack, Len(stack)) \subseteq DOMAIN heap \ DOMAIN original
    /\ Shaped(heap) /\ DOMAIN original \subseteq DOMAIN heap
    /\ Identity(original, config, T) \subseteq R
    /\ DOMAIN heap \cap Strings = {} /\ DOMAIN original \cap Strings = {}
    /\ TopIs(stack, Top, stack)

LEMMA Redacting ==
  ASSUME TallyInv, pass = "redact", NEW T, Tallied(T), NEW R,
         Rebuilding(original, config, T, R, heap, stack)
  PROVE  RedactFacts(T, R)
  <1> DEFINE n == Len(stack)
  <1>1. /\ UntouchedInv /\ CountInv /\ original \in Graphs /\ IsTally(original, config, T)
        /\ IsSeq(stack) /\ n \in Nat /\ n > 0 /\ Top = stack[n]
        /\ Calls(original, config, T, stack) /\ seen = Running(stack, n)
    BY Unchanging, IsSeqFacts DEF TallyInv, CountInv, Tallied, Calls, Top
  <1>2. /\ FrameOK(original, config, T, On, Top) /\ Running(stack, n) = On \cup {Top.node}
        /\ heap[Top.node] = original[Top.node] /\ Part(Top) = FrameItems(original, Top)
        /\ ~Exhausted(Top) => AtChild(original, Top)
    BY <1>1, ScanningFacts DEF On
  <1>3. /\ Top.node \in DOMAIN original \ On /\ Top.path \in FieldPaths
        /\ On \in SUBSET DOMAIN original
        /\ DOMAIN original \cap Strings = {}
    BY <1>1, <1>2, GraphFacts DEF FrameOK, CallOK
  <1>4. FrameFits(original, R, heap, On, Top) /\ Top.copy \in Copies(stack, n)
    <2>1. n \in 1..n
      BY <1>1
    <2> QED BY <1>1, <2>1 DEF Rebuilding, Copies, On
  <1>5. /\ Top.copy \notin Copies(Below, Len(Below))
        /\ Copies(Below, Len(Below)) \subseteq Copies(stack, n)
    <2>1. \A z, y : /\ Rebuilding(original, config, T, R, heap, z) /\ IsSeq(z) /\ Len(z) > 0
                    /\ y = SubSeq(z, 1, Len(z) - 1)
                    => /\ z[Len(z)].copy \notin Copies(y, Len(y))
                       /\ Copies(y, Len(y)) \subseteq Copies(z, Len(z))
      BY RebuildPop
    <2>2. Below = SubSeq(stack, 1, Len(stack) - 1)
      BY DEF Below
    <2> QED BY <1>1, <2>1, <2>2
  <1>6. /\ Copies(stack, n) \subseteq DOMAIN heap \ DOMAIN original
        /\ DOMAIN heap \cap Strings = {}
    BY CopiesFacts
  <1>7. /\ Shaped(heap) /\ DOMAIN original \subseteq DOMAIN heap
        /\ Identity(original, config, T) \subseteq R
    BY DEF Rebuilding
  <1>8. TopIs(stack, Top, stack)
    BY <1>1 DEF TopIs
  <1> QED BY <1>1, <1>2, <1>3, <1>4, <1>5, <1>6, <1>7, <1>8 DEF RedactFacts

LEMMA AcceptCertified ==
  ASSUME TallyInv, pass = "redact", NEW T, Tallied(T), NEW R,
         Rebuilding(original, config, T, R, heap, stack), ~Exhausted(Top),
         NEW value, NEW n, Accept(stack, heap, value, n),
         Fits(R, value, Child, ChildPath, seen),
         UNCHANGED <<original, config, pass>>
  PROVE  Certified(T, R)'
  <1>1. RedactFacts(T, R)
    BY Redacting
  <1> DEFINE g == original
             c == config
             s == stack
             f == Top
  <1>2. /\ g \in Graphs /\ Calls(g, c, T, s) /\ Len(s) > 0 /\ f = s[Len(s)]
        /\ heap[f.node] = g[f.node] /\ AtChild(g, f) /\ seen = Running(s, Len(s))
    BY <1>1 DEF RedactFacts
  <1> HIDE DEF g, c, s, f
  <1>3. /\ Len(f.values) # Len(FrameItems(g, f))
        /\ Fits(R, value, FrameItems(g, f)[Len(f.values) + 1],
                PathAt(g, f.node, f.path, f.part, Len(f.values) + 1), Running(s, Len(s)))
    BY <1>2 DEF AtChild
  <1>4. Rebuilding(g, c, T, R, heap, s) /\ Accept(s, heap, value, n)
    BY DEF g, c, s
  <1>5. Rebuilding(g, c, T, R, heap', stack')
    BY <1>2, <1>3, <1>4, AcceptFits
  <1>6. Rebuilding(original', config', T, R, heap', stack') /\ pass' = "redact"
    BY <1>5 DEF g, c
  <1> QED BY <1>6 DEF Certified

LEMMA StringCertified ==
  ASSUME TallyInv, pass = "redact", NEW T, Tallied(T), NEW R,
         Rebuilding(original, config, T, R, heap, stack), ScanString
  PROVE  \E U : Certified(T, U)'
  <1>1. RedactFacts(T, R)
    BY Redacting
  <1> DEFINE hit == Child = Secret /\ ShouldScan(ChildPath)
             value == IF hit THEN Redacted ELSE Child
             w == PlaceAt(value, Child, ChildPath, seen)
  <1>2. /\ ~Exhausted(Top) /\ Child \in Strings /\ UNCHANGED <<original, config, pass>>
        /\ \E n : Accept(stack, heap, value, n)
    BY DEF ScanString, Scanning
  <1>3. value \in Strings /\ Secret # Redacted
    BY <1>2, ScanAssumption DEF Strings
  <1>4. /\ Child \in Strings /\ ChildPath \in FieldPaths /\ seen \in SUBSET DOMAIN original
        /\ Child \notin seen
    BY <1>1, <1>2 DEF RedactFacts, AtChild
  <1>5. ShouldScan(ChildPath) <=> Scans(config, ChildPath)
    BY DEF ShouldScan, Scans, Denied
  <1>6. AsConfigured(config, w)
    BY <1>3, <1>5, PlaceFacts DEF AsConfigured
  <1> HIDE DEF value
  <1>7. /\ w \in PlacesOf(DOMAIN heap, original) /\ w.new = value /\ w.old = Child /\ w.on = seen
    <2>1. value \in DOMAIN heap \cup Strings /\ Child \in DOMAIN original \cup Strings
      BY <1>3, <1>4
    <2>2. w \in PlacesOf(DOMAIN heap, original)
      BY <1>4, <2>1, PlaceIn
    <2> QED BY <2>2, PlaceFacts
  <1> HIDE DEF w
  <1>8. Certificate(original, config, heap, Copies(stack, Len(stack)), R)
    BY DEF Rebuilding
  <1>9. PICK U : U = R \cup {w}
    OBVIOUS
  <1>10. Certificate(original, config, heap, Copies(stack, Len(stack)), U)
    BY <1>3, <1>4, <1>6, <1>7, <1>8, <1>9, PlaceAdded
  <1>11. Rebuilding(original, config, T, U, heap, stack)
    BY <1>9, <1>10, RebuildMore
  <1>12. Fits(U, value, Child, ChildPath, seen)
    BY <1>9 DEF Fits, w
  <1>13. Certified(T, U)'
    BY <1>2, <1>11, <1>12, AcceptCertified
  <1> QED BY <1>13

LEMMA DescendCertified ==
  ASSUME TallyInv, pass = "redact", NEW T, Tallied(T), NEW R,
         Rebuilding(original, config, T, R, heap, stack), Descend
  PROVE  Certified(T, R)'
  <1>1. RedactFacts(T, R)
    BY Redacting
  <1>2. UNCHANGED <<original, config, pass>> /\ Enter(Child, ChildPath, stack)
    BY DEF Descend
  <1>3. IsSeq(stack) /\ pass' = "redact"
    BY <1>1, <1>2 DEF RedactFacts
  <1> DEFINE g == original
             c == config
             s == stack
             node == Child
             path == ChildPath
  <1>4. Rebuilding(g, c, T, R, heap, s) /\ IsSeq(s) /\ Enter(node, path, s)
    BY <1>2, <1>3
  <1> HIDE DEF g, c, s, node, path
  <1>5. Rebuilding(g, c, T, R, heap', stack')
    BY <1>3, <1>4, EnterFits
  <1>6. Rebuilding(original', config', T, R, heap', stack')
    BY <1>2, <1>5 DEF g, c
  <1> QED BY <1>3, <1>6 DEF Certified


(***************************************************************************)
(* What a complete call of the second pass returns.                        *)
(***************************************************************************)

LEMMA FitsEmpty ==
  ASSUME NEW g, NEW R, NEW values, NEW node, NEW path, NEW on, NEW part, Items(g, node, part) = << >>
  PROVE  FitsAll(g, R, values, node, path, on, part)
  <1>1. DOMAIN << >> = {}
    OBVIOUS
  <1>2. DOMAIN Items(g, node, part) = {}
    BY <1>1
  <1> QED BY <1>2 DEF FitsAll

LEMMA ClosedOver ==
  ASSUME NEW g, NEW R, NEW h, NEW value, NEW node, NEW path, NEW on,
         FitsAll(g, R, h[value].kids, node, path, on, "kids"),
         FitsAll(g, R, h[value].extras, node, path, on, "extras")
  PROVE  Closed(g, R, h, PlaceAt(value, node, path, on))
  BY PlaceFacts DEF Closed

(* The heap changes, but not the calls nor what has been made.             *)
LEMMA RebuildLater ==
  ASSUME NEW g, NEW c, NEW T, NEW R, NEW h, NEW s, Rebuilding(g, c, T, R, h, s), IsSeq(s), Len(s) > 0,
         NEW j, Shaped(j), Evolves(h, j, Copies(s, Len(s)), {})
  PROVE  Rebuilding(g, c, T, R, j, s)
  <1> DEFINE n == Len(s)
             f == s[n]
             avoid == Copies(s, n)
  <1>1. n \in Nat /\ n > 0
    BY IsSeqFacts
  <1>2. n \in 1..n
    BY <1>1
  <1>3. FrameFits(g, R, h, Running(s, n - 1), f) /\ Certificate(g, c, h, avoid, R)
    BY <1>2 DEF Rebuilding
  <1>4. avoid \cap Strings = {}
    BY CopiesFacts
  <1>5. FrameFits(g, R, j, Running(s, n - 1), f)
    <2>1. Evolves(h, j, avoid, {}) /\ f.copy \notin {}
      OBVIOUS
    <2> HIDE DEF avoid, f
    <2> QED BY <1>3, <1>4, <2>1, FrameLasts
  <1>6. TopIs(s, f, s)
    BY <1>1 DEF TopIs
  <1>7. Evolves(h, j, avoid, {f.copy})
    BY DEF Evolves
  <1> HIDE DEF f
  <1>8. f = s[Len(s)] /\ (f.copy = f.copy \/ f.copy \notin DOMAIN h)
    BY DEF f
  <1> QED BY <1>5, <1>6, <1>7, <1>8, RebuildTop

(* The copy of the innermost call is assigned to.                          *)
LEMMA RebuildCopy ==
  ASSUME TallyInv, pass = "redact", NEW T, Tallied(T), NEW R,
         Rebuilding(original, config, T, R, heap, stack),
         original[Top.node].kind = "object",
         NEW x, DOMAIN x = ContainerFields, IsSeq(x.kids),
         FitsAll(original, R, x.kids, Top.node, Top.path, On, "kids"),
         NEW h, h = [heap EXCEPT ![Top.copy] = x]
  PROVE  /\ Rebuilding(original, config, T, R, h, stack)
         /\ h[Top.copy] = x /\ DOMAIN h = DOMAIN heap /\ Shaped(h)
         /\ Evolves(heap, h, Copies(stack, Len(stack)), {Top.copy})
  <1>1. RedactFacts(T, R)
    BY Redacting
  <1> DEFINE g == original
             c == config
             s == stack
             f == Top
  <1>2. /\ Shaped(heap) /\ f.copy \in DOMAIN heap /\ FrameFits(g, R, heap, On, f) /\ IsSeq(s) /\ Len(s) > 0
        /\ f = s[Len(s)] /\ TopIs(s, f, s) /\ On = Running(s, Len(s) - 1)
        /\ Rebuilding(g, c, T, R, heap, s)
    BY <1>1 DEF RedactFacts, On
  <1>3. /\ Shaped(h) /\ DOMAIN h = DOMAIN heap /\ h[f.copy] = x
        /\ \A i \in DOMAIN heap \ {f.copy} : h[i] = heap[i]
    BY <1>2, Assigned
  <1>4. Evolves(heap, h, Copies(s, Len(s)), {f.copy})
    BY <1>3, EvolvesBy
  <1>5. FrameFits(g, R, h, On, f)
    BY <1>2, <1>3 DEF FrameFits
  <1>6. Rebuilding(g, c, T, R, h, s)
    <2>1. f.copy = f.copy \/ f.copy \notin DOMAIN heap
      OBVIOUS
    <2> HIDE DEF g, c, s, f
    <2> QED BY <1>2, <1>3, <1>4, <1>5, <2>1, RebuildTop
  <1> QED BY <1>3, <1>4, <1>6

(* A complete call has nothing left to look at.                            *)
LEMMA CompleteFacts ==
  ASSUME TallyInv, pass = "redact", NEW T, Tallied(T), NEW R,
         Rebuilding(original, config, T, R, heap, stack), Exhausted(Top)
  PROVE  /\ HasCounted(original, config, T, On, Top)
         /\ FitsAll(original, R, Top.values, Top.node, Top.path, On, Top.part)
         /\ FitsAll(original, R, heap[Top.copy].kids, Top.node, Top.path, On, "kids")
         /\ IsSeq(Top.values) /\ IsSeq(heap[Top.copy].kids)
         /\ Top.part = "kids" \/ Top.part = "extras"
         /\ Top.part = "extras" => original[Top.node].extras # << >>
         /\ original[Top.node].kind # "object" => original[Top.node].extras = << >>
         /\ Top.part = "extras" /\ ~Top.rebuilt => Top.count = 0
  <1>1. RedactFacts(T, R)
    BY Redacting
  <1> DEFINE g == original
             c == config
             f == Top
  <1>2. /\ g \in Graphs /\ IsTally(g, c, T) /\ FrameOK(g, c, T, On, f)
        /\ Part(f) = FrameItems(g, f) /\ f.node \in DOMAIN g /\ FrameFits(g, R, heap, On, f)
    BY <1>1 DEF RedactFacts
  <1>3. Len(f.values) = Len(FrameItems(g, f))
    BY <1>2 DEF Exhausted
  <1>4. HasCounted(g, c, T, On, f)
    <2> HIDE DEF g, c, f
    <2> QED BY <1>2, <1>3, FrameReturns
  <1>5. /\ IsSeq(f.values) /\ f.part \in Parts
        /\ f.part = "extras" => g[f.node].extras # << >>
    BY <1>2 DEF FrameOK, CallOK
  <1>6. g[f.node].kind # "object" => g[f.node].extras = << >>
    BY <1>2, GraphFacts DEF WellFormed
  <1> QED BY <1>2, <1>4, <1>5, <1>6 DEF FrameFits, Parts

(* Where nothing was found the container itself may be returned.           *)
LEMMA ItselfReturnable ==
  ASSUME TallyInv, pass = "redact", NEW T, Tallied(T), NEW R,
         Rebuilding(original, config, T, R, heap, stack), Exhausted(Top),
         Top.part = "extras" \/ original[Top.node].extras = << >>,
         Top.count + Top.partCount = 0, NEW h, NEW below
  PROVE  Returnable(original, R, h, On, Top, below, Top.node)
  <1>1. RedactFacts(T, R) /\ HasCounted(original, config, T, On, Top)
    BY Redacting, CompleteFacts
  <1> DEFINE g == original
             c == config
             f == Top
             w == PlaceAt(f.node, f.node, f.path, On)
  <1>2. /\ f.node \in DOMAIN g \ On /\ f.node \notin Strings /\ f.path \in FieldPaths
        /\ On \in SUBSET DOMAIN g /\ Identity(g, c, T) \subseteq R
    BY <1>1 DEF RedactFacts
  <1>3. Worth(c, T, f.node, f.path, On) = 0
    <2>1. T[<<f.node, f.path, On>>] = 0
      BY <1>1 DEF HasCounted
    <2> QED BY <1>2, <2>1 DEF Worth
  <1> HIDE DEF g, c, f
  <1>4. w \in PlacesOf(DOMAIN g, g) /\ w.new = f.node /\ w.old = f.node /\ w.path = f.path /\ w.on = On
    <2>1. f.node \in DOMAIN g \cup Strings
      BY <1>2
    <2>2. w \in PlacesOf(DOMAIN g, g)
      BY <1>2, <2>1, PlaceIn
    <2> QED BY <2>2, PlaceFacts
  <1> HIDE DEF w
  <1>5. w \in Identity(g, c, T)
    BY <1>2, <1>3, <1>4 DEF Identity
  <1> QED BY <1>2, <1>5 DEF Returnable, g, c, f, w

(* A container that holds what the call has collected may be returned.     *)
LEMMA MadeReturnable ==
  ASSUME NEW g, NEW R, NEW h, NEW on, NEW f, NEW below, NEW value \in DOMAIN h \ below,
         FitsAll(g, R, h[value].kids, f.node, f.path, on, "kids"),
         FitsAll(g, R, h[value].extras, f.node, f.path, on, "extras")
  PROVE  Returnable(g, R, h, on, f, below, value)
  BY ClosedOver DEF Returnable

LEMMA ReturnCertified ==
  ASSUME TallyInv, pass = "redact", NEW T, Tallied(T), NEW R, NEW h,
         Rebuilding(original, config, T, R, h, stack),
         NEW value, NEW count, Return(h, value, count),
         Returnable(original, R, h, On, Top, Copies(Below, Len(Below)), value)
  PROVE  \E U : Certified(T, U)'
  BY ReturnFits DEF On


LEMMA MappingCertified ==
  ASSUME TallyInv, pass = "redact", NEW T, Tallied(T), NEW R,
         Rebuilding(original, config, T, R, heap, stack), FinishMapping
  PROVE  Shaped(heap') /\ \E U : Certified(T, U)'
  <1>1. RedactFacts(T, R)
    BY Redacting
  <1>2. /\ Exhausted(Top) /\ heap[Top.node].kind # "object"
        /\ Return(heap, Top.copy, Top.partCount)
    BY DEF FinishMapping, Complete
  <1>3. /\ original[Top.node].extras = << >>
        /\ FitsAll(original, R, heap[Top.copy].kids, Top.node, Top.path, On, "kids")
    BY <1>1, <1>2, CompleteFacts DEF RedactFacts
  <1>4. FitsAll(original, R, heap[Top.copy].extras, Top.node, Top.path, On, "extras")
    <2>1. Items(original, Top.node, "extras") = << >>
      BY <1>3 DEF Items
    <2> QED BY <2>1, FitsEmpty
  <1>5. Top.copy \in DOMAIN heap \ Copies(Below, Len(Below)) /\ Shaped(heap)
    BY <1>1 DEF RedactFacts
  <1>6. Returnable(original, R, heap, On, Top, Copies(Below, Len(Below)), Top.copy)
    BY <1>3, <1>4, <1>5, MadeReturnable
  <1>7. \E U : Certified(T, U)'
    BY <1>2, <1>6, ReturnCertified
  <1> QED BY <1>2, <1>5, <1>7, ReturnShaped

LEMMA TupleCertified ==
  ASSUME TallyInv, pass = "redact", NEW T, Tallied(T), NEW R,
         Rebuilding(original, config, T, R, heap, stack), FinishTuple
  PROVE  Shaped(heap') /\ \E U : Certified(T, U)'
  <1>1. RedactFacts(T, R)
    BY Redacting
  <1> DEFINE made == [kind |-> "tuple", kids |-> Top.values, extras |-> << >>]
             k == Add(made)
             h == ReplacePlaceholder(k, Fresh, Top.copy, Fresh)
             below == Copies(Below, Len(Below))
             avoid == Copies(stack, Len(stack))
  <1>2. /\ Exhausted(Top) /\ heap[Top.node].kind = "tuple" /\ Return(h, Fresh, Top.partCount)
    BY DEF FinishTuple, Complete
  <1>3. /\ original[Top.node].kind # "object" /\ Shaped(heap) /\ below \subseteq avoid
        /\ avoid \subseteq DOMAIN heap /\ Top.copy \in avoid /\ IsSeq(stack) /\ Len(stack) > 0
    BY <1>1, <1>2 DEF RedactFacts
  <1>4. /\ original[Top.node].extras = << >>
        /\ FitsAll(original, R, Top.values, Top.node, Top.path, On, Top.part)
        /\ Top.part = "kids"
    BY <1>2, <1>3, CompleteFacts
  <1>5. Extended(heap, Fresh, made, k)
    BY <1>3, AddShaped DEF ContainerFields
  <1>6. made.kind = "tuple" /\ made.kids = Top.values
    OBVIOUS
  <1> HIDE DEF made, k, avoid, below
  <1>7. /\ Shaped(k) /\ Fresh \notin DOMAIN heap /\ Fresh \in DOMAIN k /\ k[Fresh] = made
        /\ Evolves(heap, k, avoid, {})
    <2>1. /\ Shaped(k) /\ Fresh \notin DOMAIN heap /\ k[Fresh] = made
          /\ \A i \in DOMAIN heap : k[i] = heap[i]
          /\ DOMAIN k = DOMAIN heap \cup {Fresh}
      BY <1>5 DEF Extended
    <2>2. DOMAIN heap \subseteq DOMAIN k /\ Fresh \in DOMAIN k
      BY <2>1
    <2> QED BY <2>1, <2>2, EvolvesBy
  <1>8. /\ Shaped(h) /\ DOMAIN h = DOMAIN k /\ Evolves(k, h, avoid, {})
        /\ h[Fresh] = made
    <2>1. h = ReplacePlaceholder(k, Fresh, Top.copy, Fresh)
      OBVIOUS
    <2> HIDE DEF h
    <2>2. /\ Shaped(h) /\ DOMAIN h = DOMAIN k
          /\ \A z : Top.copy \in z => Evolves(k, h, z, {})
          /\ \A i \in DOMAIN k : k[i].kind = "tuple" => h[i] = k[i]
      BY <1>7, <2>1, ReplaceFacts
    <2> QED BY <1>3, <1>6, <1>7, <2>2
  <1> HIDE DEF h
  <1>9. Rebuilding(original, config, T, R, h, stack)
    <2>1. Rebuilding(original, config, T, R, k, stack)
      BY <1>3, <1>7, RebuildLater DEF avoid
    <2> QED BY <1>3, <1>8, <2>1, RebuildLater DEF avoid
  <1>10. FitsAll(original, R, h[Fresh].extras, Top.node, Top.path, On, "extras")
    <2>1. Items(original, Top.node, "extras") = << >>
      BY <1>4 DEF Items
    <2> QED BY <2>1, FitsEmpty
  <1>11. /\ Fresh \in DOMAIN h \ below
         /\ FitsAll(original, R, h[Fresh].kids, Top.node, Top.path, On, "kids")
    BY <1>3, <1>4, <1>6, <1>7, <1>8
  <1>12. Returnable(original, R, h, On, Top, below, Fresh)
    BY <1>10, <1>11, MadeReturnable
  <1>13. \E U : Certified(T, U)'
    BY <1>2, <1>9, <1>12, ReturnCertified DEF below
  <1> QED BY <1>2, <1>3, <1>8, <1>13, ReturnShaped

LEMMA AttributesCertified ==
  ASSUME TallyInv, pass = "redact", NEW T, Tallied(T), NEW R,
         Rebuilding(original, config, T, R, heap, stack), FinishAttributes
  PROVE  Shaped(heap') /\ \E U : Certified(T, U)'
  <1>1. RedactFacts(T, R)
    BY Redacting
  <1> DEFINE below == Copies(Below, Len(Below))
  <1>2. /\ Exhausted(Top) /\ original[Top.node].kind = "object" /\ Top.part = "kids"
        /\ original[Top.node].extras = << >> /\ Shaped(heap) /\ Top.copy \in DOMAIN heap \ below
    BY <1>1 DEF FinishAttributes, Complete, RedactFacts
  <1>3. /\ FitsAll(original, R, Top.values, Top.node, Top.path, On, "kids") /\ IsSeq(Top.values)
        /\ HasCounted(original, config, T, On, Top)
    BY <1>2, CompleteFacts
  <1>4. CASE AttributesChanged
    <2> DEFINE x == [heap[Top.copy] EXCEPT !.kids = Top.values]
    <2>1. PICK h : h = [heap EXCEPT ![Top.copy] = x]
      OBVIOUS
    <2>2. Return(h, Top.copy, Top.partCount)
      BY <1>4, <2>1 DEF FinishAttributes
    <2>3. DOMAIN x = ContainerFields /\ x.kids = Top.values
      BY <1>2 DEF Shaped, ContainerFields
    <2> HIDE DEF x
    <2>4. Rebuilding(original, config, T, R, h, stack) /\ h[Top.copy] = x /\ DOMAIN h = DOMAIN heap /\ Shaped(h)
      BY <1>2, <1>3, <2>1, <2>3, RebuildCopy
    <2>5. FitsAll(original, R, h[Top.copy].extras, Top.node, Top.path, On, "extras")
      <3>1. Items(original, Top.node, "extras") = << >>
        BY <1>2 DEF Items
      <3> QED BY <3>1, FitsEmpty
    <2>6. /\ Top.copy \in DOMAIN h \ below
          /\ FitsAll(original, R, h[Top.copy].kids, Top.node, Top.path, On, "kids")
      BY <1>2, <1>3, <2>3, <2>4
    <2>7. Returnable(original, R, h, On, Top, below, Top.copy)
      BY <2>5, <2>6, MadeReturnable
    <2>8. \E U : Certified(T, U)'
      BY <2>2, <2>4, <2>7, ReturnCertified
    <2> QED BY <1>2, <2>2, <2>4, <2>8, ReturnShaped
  <1>5. CASE ~AttributesChanged
    <2>1. Return(heap, Top.node, Top.partCount)
      BY <1>5 DEF FinishAttributes
    <2>2. Top.count + Top.partCount = 0
      BY <1>2, <1>3, <1>5 DEF AttributesChanged, HasCounted
    <2>3. Returnable(original, R, heap, On, Top, below, Top.node)
      BY <1>2, <2>2, ItselfReturnable
    <2>4. \E U : Certified(T, U)'
      BY <2>1, <2>3, ReturnCertified
    <2> QED BY <1>2, <2>1, <2>4, ReturnShaped
  <1> QED BY <1>4, <1>5

LEMMA ExtrasCertified ==
  ASSUME TallyInv, pass = "redact", NEW T, Tallied(T), NEW R,
         Rebuilding(original, config, T, R, heap, stack), FinishExtras
  PROVE  Shaped(heap') /\ \E U : Certified(T, U)'
  <1>1. RedactFacts(T, R)
    BY Redacting
  <1> DEFINE below == Copies(Below, Len(Below))
  <1>2. /\ Exhausted(Top) /\ original[Top.node].kind = "object" /\ Top.part = "extras"
        /\ Shaped(heap) /\ Top.copy \in DOMAIN heap \ below
    BY <1>1 DEF FinishExtras, Complete, RedactFacts
  <1>3. /\ FitsAll(original, R, Top.values, Top.node, Top.path, On, "extras")
        /\ FitsAll(original, R, heap[Top.copy].kids, Top.node, Top.path, On, "kids")
        /\ IsSeq(heap[Top.copy].kids)
        /\ HasCounted(original, config, T, On, Top)
        /\ ~Top.rebuilt => Top.count = 0
    BY <1>2, CompleteFacts
  <1>4. CASE Top.partCount > 0 \/ Top.rebuilt
    <2> DEFINE x == [heap[Top.copy] EXCEPT !.extras = Top.values]
    <2>1. PICK h : h = [heap EXCEPT ![Top.copy] = x]
      OBVIOUS
    <2>2. Return(h, Top.copy, Top.count + Top.partCount)
      BY <1>4, <2>1 DEF FinishExtras
    <2>3. DOMAIN x = ContainerFields /\ x.kids = heap[Top.copy].kids /\ x.extras = Top.values
      BY <1>2 DEF Shaped, ContainerFields
    <2> HIDE DEF x
    <2>4. Rebuilding(original, config, T, R, h, stack) /\ h[Top.copy] = x /\ DOMAIN h = DOMAIN heap /\ Shaped(h)
      BY <1>2, <1>3, <2>1, <2>3, RebuildCopy
    <2>5. /\ Top.copy \in DOMAIN h \ below
          /\ FitsAll(original, R, h[Top.copy].kids, Top.node, Top.path, On, "kids")
          /\ FitsAll(original, R, h[Top.copy].extras, Top.node, Top.path, On, "extras")
      BY <1>2, <1>3, <2>3, <2>4
    <2>6. Returnable(original, R, h, On, Top, below, Top.copy)
      BY <2>5, MadeReturnable
    <2>7. \E U : Certified(T, U)'
      BY <2>2, <2>4, <2>6, ReturnCertified
    <2> QED BY <1>2, <2>2, <2>4, <2>7, ReturnShaped
  <1>5. CASE ~(Top.partCount > 0 \/ Top.rebuilt)
    <2>1. Return(heap, Top.node, Top.count + Top.partCount)
      BY <1>5 DEF FinishExtras
    <2>2. Top.count + Top.partCount = 0
      BY <1>2, <1>3, <1>5 DEF HasCounted
    <2>3. Returnable(original, R, heap, On, Top, below, Top.node)
      BY <1>2, <2>2, ItselfReturnable
    <2>4. \E U : Certified(T, U)'
      BY <2>1, <2>3, ReturnCertified
    <2> QED BY <1>2, <2>1, <2>4, ReturnShaped
  <1> QED BY <1>4, <1>5

LEMMA TurnCertified ==
  ASSUME TallyInv, pass = "redact", NEW T, Tallied(T), NEW R,
         Rebuilding(original, config, T, R, heap, stack), TurnToExtras
  PROVE  Shaped(heap') /\ Certified(T, R)'
  <1>1. RedactFacts(T, R)
    BY Redacting
  <1> DEFINE g == original
             c == config
             s == stack
             f == Top
             n == Len(stack)
             e0 == ExtrasOf(f)
  <1>2. /\ Exhausted(f) /\ g[f.node].kind = "object" /\ f.part = "kids" /\ g[f.node].extras # << >>
        /\ UNCHANGED <<original, config, pass>>
    <2>1. /\ Exhausted(f) /\ f.part = "kids" /\ heap[f.node].extras # << >>
          /\ UNCHANGED <<original, config, pass>>
      BY DEF TurnToExtras
    <2>2. g[f.node] = heap[f.node]
      BY <1>1 DEF RedactFacts
    <2> QED BY <2>1, <2>2, CompleteFacts
  <1>3. /\ FitsAll(g, R, f.values, f.node, f.path, On, "kids") /\ IsSeq(f.values)
        /\ HasCounted(g, c, T, On, f)
    BY <1>2, CompleteFacts
  <1>4. /\ Shaped(heap) /\ f.copy \in DOMAIN heap \ DOMAIN g /\ IsSeq(s) /\ n > 0 /\ f = s[n]
        /\ On = Running(s, n - 1) /\ DOMAIN g \subseteq DOMAIN heap
        /\ Rebuilding(g, c, T, R, heap, s)
        /\ g \in Graphs /\ IsTally(g, c, T) /\ f.node \in DOMAIN g /\ f.path \in FieldPaths
        /\ On \in SUBSET DOMAIN g /\ Identity(g, c, T) \subseteq R /\ heap[f.node] = g[f.node]
        /\ DOMAIN f = FrameFields
    BY <1>1 DEF RedactFacts, On, FrameOK, CallOK
  <1>5. ASSUME NEW e, stack' = Append(Below, e)
        PROVE  TopIs(s, e, stack')
    <2>1. stack' = Append(SubSeq(s, 1, Len(s) - 1), e)
      BY <1>5 DEF Below
    <2> QED BY <1>4, <2>1, TopReplaced
  <1>6. ASSUME Rebuilding(g, c, T, R, heap', stack')
        PROVE  Certified(T, R)'
    <2>1. Rebuilding(original', config', T, R, heap', stack') /\ pass' = "redact"
      BY <1>2, <1>6
    <2> QED BY <2>1 DEF Certified
  <1>7. CASE AttributesChanged
    <2> DEFINE x == [heap[f.copy] EXCEPT !.kids = f.values]
               e == [e0 EXCEPT !.rebuilt = TRUE]
    <2>1. heap' = [heap EXCEPT ![f.copy] = x] /\ stack' = Append(Below, e)
      BY <1>7 DEF TurnToExtras
    <2>2. DOMAIN x = ContainerFields /\ x.kids = f.values
      BY <1>4 DEF Shaped, ContainerFields
    <2>3. /\ e.node = f.node /\ e.path = f.path /\ e.copy = f.copy /\ e.values = << >>
          /\ e.rebuilt = TRUE /\ e.part = "extras"
      BY <1>4 DEF ExtrasOf, FrameFields
    <2>4. TopIs(s, e, stack')
      BY <1>5, <2>1
    <2> HIDE DEF x, e
    <2>5. /\ Shaped(heap') /\ DOMAIN heap' = DOMAIN heap /\ heap'[f.copy] = x
          /\ \A i \in DOMAIN heap \ {f.copy} : heap'[i] = heap[i]
      BY <1>4, <2>1, <2>2, Assigned
    <2>6. Evolves(heap, heap', Copies(s, n), {f.copy})
      BY <2>5, EvolvesBy
    <2>7. FrameFits(g, R, heap', On, e)
      <3>1. FitsAll(g, R, e.values, e.node, e.path, On, e.part)
        BY <2>3, FitsNone
      <3> QED BY <1>2, <1>3, <1>4, <2>2, <2>3, <2>5, <3>1 DEF FrameFits
    <2>8. Rebuilding(g, c, T, R, heap', stack')
      <3>1. n = Len(s)
        OBVIOUS
      <3> HIDE DEF g, c, s, f, n
      <3> QED BY <1>4, <2>3, <2>4, <2>5, <2>6, <2>7, <3>1, RebuildTop
    <2> QED BY <1>6, <2>5, <2>8
  <1>8. CASE ~AttributesChanged
    <2> DEFINE x == [Blank("object") EXCEPT !.kids = heap[f.node].kids]
               e == [e0 EXCEPT !.copy = Fresh]
    <2>1. heap' = Add(x) /\ stack' = Append(Below, e)
      BY <1>8 DEF TurnToExtras
    <2>2. DOMAIN x = ContainerFields /\ x.kids = Items(g, f.node, "kids")
      BY <1>4 DEF Blank, ContainerFields, Items
    <2>3. f.count = 0 /\ f.partCount = 0 /\ Held(g, c, T, f.node, f.path, On, "kids") = 0
      BY <1>2, <1>3, <1>8 DEF AttributesChanged, HasCounted
    <2>4. /\ e.node = f.node /\ e.path = f.path /\ e.copy = Fresh /\ e.values = << >>
          /\ e.part = "extras" /\ e.count = 0
      BY <1>4, <2>3 DEF ExtrasOf, FrameFields
    <2>5. TopIs(s, e, stack')
      BY <1>5, <2>1
    <2> HIDE DEF x, e
    <2>6. Extended(heap, Fresh, x, heap')
      BY <1>4, <2>1, <2>2, AddShaped
    <2>7. /\ Shaped(heap') /\ Fresh \in DOMAIN heap' \ DOMAIN heap /\ heap'[Fresh] = x
          /\ DOMAIN heap \subseteq DOMAIN heap' /\ \A i \in DOMAIN heap : heap'[i] = heap[i]
      BY <2>6 DEF Extended
    <2>8. Evolves(heap, heap', Copies(s, n), {f.copy})
      BY <2>7, EvolvesBy
    <2>9. IsSeq(x.kids) /\ FitsAll(g, R, x.kids, f.node, f.path, On, "kids")
      <3>1. IsSeq(Items(g, f.node, "kids"))
        <4>1. Items(g, f.node, "kids") \in Seq(DOMAIN g \cup Strings)
          BY <1>4, ItemsFacts DEF Parts
        <4> QED BY <4>1, IsSeqOf
      <3>2. FitsAll(g, Identity(g, c, T), Items(g, f.node, "kids"), f.node, f.path, On, "kids")
        BY <1>4, <2>3, NothingHeld DEF Parts
      <3> QED BY <1>4, <2>2, <3>1, <3>2, FitsMore
    <2>10. FrameFits(g, R, heap', On, e)
      <3>1. FitsAll(g, R, e.values, e.node, e.path, On, e.part)
        BY <2>4, FitsNone
      <3> QED BY <1>2, <1>4, <2>4, <2>7, <2>9, <3>1 DEF FrameFits
    <2>11. Rebuilding(g, c, T, R, heap', stack')
      <3>1. n = Len(s)
        OBVIOUS
      <3> HIDE DEF g, c, s, f, n
      <3> QED BY <1>4, <2>4, <2>5, <2>7, <2>8, <2>10, <3>1, RebuildTop
    <2> QED BY <1>6, <2>7, <2>11
  <1> QED BY <1>7, <1>8


(***************************************************************************)
(* What can be reached step by step.                                       *)
(***************************************************************************)

AreLayers(l, F, from, bound, Good) ==
    /\ l \in [0..bound -> SUBSET Good]
    /\ \A n \in 0..bound : l[n] = IF n = 0 THEN from ELSE F[l[n - 1]]

LEMMA LayersExist ==
  ASSUME NEW Good, NEW F \in [SUBSET Good -> SUBSET Good], NEW from \in SUBSET Good, NEW bound \in Nat
  PROVE  \E l : AreLayers(l, F, from, bound, Good)
  <1> DEFINE IsLayers(l, m) == /\ l \in [0..m -> SUBSET Good]
                               /\ \A n \in 0..m : l[n] = IF n = 0 THEN from ELSE F[l[n - 1]]
             S == {m \in Nat : \E l : IsLayers(l, m)}
  <1>1. 0 \in S
    <2> DEFINE l == [n \in 0..0 |-> from]
    <2>1. IsLayers(l, 0)
      OBVIOUS
    <2> QED BY <2>1
  <1>2. ASSUME NEW m \in S PROVE m + 1 \in S
    <2>1. PICK l : IsLayers(l, m)
      OBVIOUS
    <2>2. m \in Nat
      OBVIOUS
    <2> DEFINE k == [n \in 0..(m + 1) |-> IF n = m + 1 THEN F[l[m]] ELSE l[n]]
    <2>3. k \in [0..(m + 1) -> SUBSET Good]
      BY <2>1, <2>2
    <2>4. \A n \in 0..(m + 1) : k[n] = IF n = 0 THEN from ELSE F[k[n - 1]]
      <3> TAKE n \in 0..(m + 1)
      <3>1. CASE n = m + 1
        <4>1. n # 0 /\ n - 1 = m /\ m \in 0..(m + 1) /\ m # m + 1
          BY <2>2, <3>1
        <4>2. k[n] = F[l[m]] /\ k[n - 1] = l[m]
          BY <3>1, <4>1
        <4> QED BY <4>1, <4>2
      <3>2. CASE n # m + 1
        <4>1. n \in 0..m
          BY <2>2, <3>2
        <4>2. k[n] = l[n]
          BY <3>2
        <4>3. ASSUME n # 0 PROVE k[n - 1] = l[n - 1]
          <5>1. n - 1 \in 0..(m + 1) /\ n - 1 # m + 1
            BY <2>2, <4>1, <4>3
          <5> QED BY <5>1
        <4> HIDE DEF k
        <4> QED BY <2>1, <4>1, <4>2, <4>3
      <3> QED BY <3>1, <3>2
    <2> HIDE DEF k
    <2>5. IsLayers(k, m + 1)
      BY <2>3, <2>4
    <2> QED BY <2>2, <2>5
  <1> HIDE DEF IsLayers
  <1>3. S \subseteq Nat
    OBVIOUS
  <1> HIDE DEF S
  <1>4. bound \in S
    BY <1>1, <1>2, <1>3, Induction
  <1>5. PICK l : IsLayers(l, bound)
    BY <1>4 DEF S
  <1> QED BY <1>5 DEF IsLayers, AreLayers

LEMMA LayersWithin ==
  ASSUME NEW Good, NEW l, NEW bound \in Nat, l[0] \subseteq Good,
         \A n \in 1..bound : l[n - 1] \subseteq Good => l[n] \subseteq Good
  PROVE  \A n \in 0..bound : l[n] \subseteq Good
  <1> DEFINE S == {m \in Nat : m <= bound => l[m] \subseteq Good}
  <1>1. 0 \in S
    OBVIOUS
  <1>2. ASSUME NEW m \in S PROVE m + 1 \in S
    <2>1. ASSUME m + 1 <= bound PROVE l[m + 1] \subseteq Good
      <3>1. m \in Nat /\ m <= bound /\ m + 1 \in 1..bound /\ (m + 1) - 1 = m
        BY <2>1
      <3>2. l[m] \subseteq Good
        BY <3>1
      <3> HIDE DEF S
      <3> QED BY <3>1, <3>2
    <2> QED BY <2>1
  <1>3. S \subseteq Nat
    OBVIOUS
  <1> HIDE DEF S
  <1>4. \A m \in Nat : m \in S
    BY <1>1, <1>2, <1>3, Induction
  <1> QED BY <1>4 DEF S

(***************************************************************************)
(* Field paths and field lists.                                            *)
(***************************************************************************)

LEMMA FieldsOnFacts ==
  ASSUME NEW path \in FieldPaths, NEW D \in SUBSET FieldPaths
  PROVE  (\E p \in D : StartsWith(path, p)) <=> FieldsOn(path) \cap D # {}
  <1>1. Len(path) \in Nat /\ \A p \in D : p \in Seq(Labels) /\ Len(p) \in Nat
    BY LenProperties DEF FieldPaths
  <1>2. ASSUME NEW n \in 0..Len(path)
        PROVE  /\ SubSeq(path, 1, n) \in Seq(Labels) /\ Len(SubSeq(path, 1, n)) = n
               /\ \A i \in 1..n : SubSeq(path, 1, n)[i] = path[i]
    <2>1. CASE n = 0
      <3>1. SubSeq(path, 1, n) = << >>
        BY <2>1, SubSeqEmpty
      <3> QED BY <2>1, <3>1, EmptySeq
    <2>2. CASE n # 0
      <3>1. n \in Nat /\ n > 0 /\ n \in 1..Len(path) /\ n - 1 + 1 = n
        BY <1>1, <2>2
      <3>2. \A i \in 1..n : path[i] \in Labels
        BY <1>1, <3>1, LenProperties DEF FieldPaths
      <3>3. /\ SubSeq(path, 1, n) \in Seq(Labels) /\ Len(SubSeq(path, 1, n)) = n - 1 + 1
            /\ \A i \in 1..(n - 1 + 1) : SubSeq(path, 1, n)[i] = path[1 + i - 1]
        BY <1>1, <3>1, <3>2, SubSeqProperties DEF FieldPaths
      <3>4. \A i \in 1..n : 1 + i - 1 = i
        OBVIOUS
      <3> QED BY <3>1, <3>3, <3>4
    <2> QED BY <2>1, <2>2
  <1>3. ASSUME NEW p \in D, StartsWith(path, p) PROVE p \in FieldsOn(path)
    <2> DEFINE n == Len(p)
               s == SubSeq(path, 1, n)
    <2>1. n \in 0..Len(path) /\ \A i \in 1..n : path[i] = p[i]
      BY <1>1, <1>3 DEF StartsWith
    <2>2. s \in Seq(Labels) /\ Len(s) = n /\ \A i \in 1..n : s[i] = p[i]
      BY <1>2, <2>1
    <2>3. s \in [1..n -> Labels] /\ p \in [1..n -> Labels]
      <3> HIDE DEF s
      <3> QED BY <1>1, <2>2, LenProperties
    <2>4. s = p
      <3> HIDE DEF s
      <3> QED BY <2>2, <2>3
    <2> QED BY <2>1, <2>4 DEF FieldsOn
  <1>4. ASSUME NEW p \in D, p \in FieldsOn(path) PROVE StartsWith(path, p)
    <2>1. PICK n \in 0..Len(path) : p = SubSeq(path, 1, n)
      BY <1>4 DEF FieldsOn
    <2>2. Len(p) = n /\ \A i \in 1..n : p[i] = path[i]
      BY <1>2, <2>1
    <2> QED BY <1>1, <2>2 DEF StartsWith
  <1> QED BY <1>3, <1>4

LEMMA ConfiguredFacts ==
  ASSUME config \in Configs, NEW path \in FieldPaths
  PROVE  Configured(path) <=> Scans(config, path)
  <1>1. config.allow \in SUBSET FieldPaths /\ config.deny \in SUBSET FieldPaths
    BY ScanAssumption DEF FieldPaths, Labels
  <1>2. (\E p \in config.deny : StartsWith(path, p)) <=> FieldsOn(path) \cap config.deny # {}
    BY <1>1, FieldsOnFacts
  <1>3. (\E p \in config.allow : StartsWith(path, p)) <=> FieldsOn(path) \cap config.allow # {}
    BY <1>1, FieldsOnFacts
  <1> QED BY <1>2, <1>3 DEF Configured, Scans


(* All values that containers of the heap hold.                            *)
HeldValues == UNION {Range(heap[i].kids) \cup Range(heap[i].extras) : i \in DOMAIN heap}
                 \cup DOMAIN heap \cup Strings

(* No walk over the payload leaves the certificate but at a container that *)
(* is being walked.                                                        *)
LEMMA PlacesCertified ==
  ASSUME UntouchedInv, NEW R, Certificate(original, config, heap, {}, R),
         PlaceAt(answer.payload, Root, << >>, {}) \in R,
         NEW w \in Places
  PROVE  w \in R \/ (w.old \in w.on /\ w.on \in SUBSET DOMAIN original)
  <1> DEFINE g == original
             Held1 == [new: HeldValues, old: DOMAIN g \cup Strings, path: FieldPaths, on: SUBSET DOMAIN g]
             Good == R \cup {v \in Held1 : v.old \in v.on}
             first == [new |-> answer.payload, old |-> Root, path |-> << >>, on |-> {}]
             bound == Cardinality(DOMAIN original)
             Pathed(v, i) == IF Named(heap[v.old]) THEN Append(v.path, Keys[i]) ELSE v.path
             Place(v, new, old, path) == [new |-> new, old |-> old, path |-> path, on |-> v.on \cup {v.old}]
             Following(v) ==
               {Place(v, heap[v.new].kids[i], heap[v.old].kids[i], Pathed(v, i)) :
                   i \in DOMAIN heap[v.old].kids \cap DOMAIN heap[v.new].kids}
               \cup {Place(v, heap[v.new].extras[i], heap[v.old].extras[i], v.path) :
                   i \in DOMAIN heap[v.old].extras \cap DOMAIN heap[v.new].extras}
             Steps(P) == UNION {Following(v) : v \in {u \in P : /\ u.old \notin u.on \cup Strings
                                                                /\ u.new \notin Strings}}
             Walk == CHOOSE layer : layer = [n \in 0..bound |-> IF n = 0 THEN {first} ELSE Steps(layer[n - 1])]
  <1>1. Places = UNION {Walk[n] : n \in 0..bound}
    BY DEF Places, Closure
  <1>2. /\ g \in Graphs /\ DOMAIN g \subseteq DOMAIN heap /\ \A i \in DOMAIN g : heap[i] = g[i]
        /\ bound \in Nat /\ Root \in DOMAIN g /\ DOMAIN g \cap Strings = {}
    <2>1. g \in Graphs /\ DOMAIN g \subseteq DOMAIN heap /\ \A i \in DOMAIN g : heap[i] = g[i]
      BY DEF UntouchedInv, HeapInv, Keeps
    <2> QED BY <2>1, GraphFacts, FS_CardinalityType
  <1>3. first \in Good
    BY DEF PlaceAt
  <1>4. ASSUME NEW v \in Good, v.old \notin v.on \cup Strings, v.new \notin Strings
        PROVE  /\ v \in R /\ v.new \in DOMAIN heap /\ v.old \in DOMAIN g /\ v.path \in FieldPaths
               /\ v.on \in SUBSET DOMAIN g /\ Closed(g, R, heap, v)
    <2>1. v \in R
      BY <1>4
    <2>2. R \subseteq PlacesOf(DOMAIN heap, g) /\ Closed(g, R, heap, v)
      BY <1>4, <2>1 DEF Certificate
    <2>3. /\ v.new \in DOMAIN heap \cup Strings /\ v.old \in DOMAIN g \cup Strings
          /\ v.path \in FieldPaths /\ v.on \in SUBSET DOMAIN g
      BY <2>1, <2>2, PlaceType
    <2> QED BY <1>4, <2>1, <2>2, <2>3
  <1>5. ASSUME NEW v \in R, v.new \in DOMAIN heap, v.old \in DOMAIN g, v.path \in FieldPaths,
               v.on \in SUBSET DOMAIN g, NEW part \in Parts, NEW values,
               FitsAll(g, R, values, v.old, v.path, v.on, part), Range(values) \subseteq HeldValues,
               NEW i \in DOMAIN Items(g, v.old, part) \cap DOMAIN values
        PROVE  PlaceAt(values[i], Items(g, v.old, part)[i], PathAt(g, v.old, v.path, part, i),
                       v.on \cup {v.old}) \in Good
    <2> DEFINE old == Items(g, v.old, part)[i]
               path == PathAt(g, v.old, v.path, part, i)
               on == v.on \cup {v.old}
               x == PlaceAt(values[i], old, path, on)
    <2>1. old \in DOMAIN g \cup Strings /\ path \in FieldPaths
      <3>1. /\ Items(g, v.old, part) \in Seq(DOMAIN g \cup Strings)
            /\ \A k \in 1..Len(Items(g, v.old, part)) :
                 /\ Items(g, v.old, part)[k] \in DOMAIN g \cup Strings
                 /\ PathAt(g, v.old, v.path, part, k) \in FieldPaths
        BY <1>2, <1>5, ItemsFacts
      <3>2. i \in 1..Len(Items(g, v.old, part))
        BY <3>1, <1>5, LenProperties
      <3> QED BY <3>1, <3>2
    <2>2. on \in SUBSET DOMAIN g
      BY <1>5
    <2>3. values[i] \in HeldValues
      BY <1>5 DEF Range
    <2>4. old \in on \/ x \in R
      BY <1>5 DEF FitsAll, Fits
    <2> HIDE DEF old, path, on
    <2>5. x \in Held1 /\ x.old = old /\ x.on = on
      BY <2>1, <2>2, <2>3 DEF PlaceAt
    <2>6. x \in Good
      BY <2>4, <2>5
    <2> QED BY <2>6 DEF old, path, on
  <1>6. ASSUME NEW v \in Good, v.old \notin v.on \cup Strings, v.new \notin Strings,
               NEW x \in Following(v)
        PROVE  x \in Good
    <2>1. /\ v \in R /\ v.new \in DOMAIN heap /\ v.old \in DOMAIN g /\ v.path \in FieldPaths
          /\ v.on \in SUBSET DOMAIN g /\ Closed(g, R, heap, v)
      BY <1>4, <1>6
    <2>2. heap[v.old] = g[v.old]
      BY <1>2, <2>1
    <2>3. CASE \E i \in DOMAIN heap[v.old].kids \cap DOMAIN heap[v.new].kids :
                  x = Place(v, heap[v.new].kids[i], heap[v.old].kids[i], Pathed(v, i))
      <3> DEFINE values == heap[v.new].kids
      <3>1. PICK i \in DOMAIN Items(g, v.old, "kids") \cap DOMAIN values :
               x = PlaceAt(values[i], Items(g, v.old, "kids")[i], PathAt(g, v.old, v.path, "kids", i),
                           v.on \cup {v.old})
        BY <2>2, <2>3 DEF PlaceAt, PathAt, Items
      <3>2. FitsAll(g, R, values, v.old, v.path, v.on, "kids") /\ Range(values) \subseteq HeldValues
        <4>1. FitsAll(g, R, values, v.old, v.path, v.on, "kids")
          BY <2>1 DEF Closed
        <4>2. Range(values) \subseteq HeldValues
          <5> SUFFICES ASSUME NEW z \in Range(values) PROVE z \in HeldValues
            OBVIOUS
          <5>1. z \in Range(heap[v.new].kids) \cup Range(heap[v.new].extras)
            OBVIOUS
          <5> HIDE DEF values
          <5> QED BY <2>1, <5>1 DEF HeldValues
        <4> QED BY <4>1, <4>2
      <3> HIDE DEF values, Good
      <3> QED BY <1>5, <2>1, <3>1, <3>2 DEF Parts
    <2>4. CASE \E i \in DOMAIN heap[v.old].extras \cap DOMAIN heap[v.new].extras :
                  x = Place(v, heap[v.new].extras[i], heap[v.old].extras[i], v.path)
      <3> DEFINE values == heap[v.new].extras
      <3>1. PICK i \in DOMAIN Items(g, v.old, "extras") \cap DOMAIN values :
               x = PlaceAt(values[i], Items(g, v.old, "extras")[i], PathAt(g, v.old, v.path, "extras", i),
                           v.on \cup {v.old})
        BY <2>2, <2>4 DEF PlaceAt, PathAt, Items
      <3>2. FitsAll(g, R, values, v.old, v.path, v.on, "extras") /\ Range(values) \subseteq HeldValues
        <4>1. FitsAll(g, R, values, v.old, v.path, v.on, "extras")
          BY <2>1 DEF Closed
        <4>2. Range(values) \subseteq HeldValues
          <5> SUFFICES ASSUME NEW z \in Range(values) PROVE z \in HeldValues
            OBVIOUS
          <5>1. z \in Range(heap[v.new].kids) \cup Range(heap[v.new].extras)
            OBVIOUS
          <5> HIDE DEF values
          <5> QED BY <2>1, <5>1 DEF HeldValues
        <4> QED BY <4>1, <4>2
      <3> HIDE DEF values, Good
      <3> QED BY <1>5, <2>1, <3>1, <3>2 DEF Parts
    <2> QED BY <1>6, <2>3, <2>4
  <1>7. ASSUME NEW P \in SUBSET Good PROVE Steps(P) \in SUBSET Good
    <2> HIDE DEF Good, Following
    <2> QED BY <1>6, <1>7
  <1> HIDE DEF Good, Following, first, bound
  <1>8. PICK F : F = [P \in SUBSET Good |-> Steps(P)]
    OBVIOUS
  <1> HIDE DEF Steps
  <1>9. F \in [SUBSET Good -> SUBSET Good] /\ {first} \in SUBSET Good
    BY <1>3, <1>7, <1>8
  <1>10. PICK l : AreLayers(l, F, {first}, bound, Good)
    <2> DEFINE from == {first}
    <2>1. F \in [SUBSET Good -> SUBSET Good] /\ from \in SUBSET Good /\ bound \in Nat
      BY <1>2, <1>9
    <2> HIDE DEF from
    <2>2. \E l : AreLayers(l, F, from, bound, Good)
      BY <2>1, LayersExist
    <2> QED BY <2>2 DEF from
  <1>11. l = [n \in 0..bound |-> IF n = 0 THEN {first} ELSE Steps(l[n - 1])]
    <2>1. ASSUME NEW n \in 0..bound, n # 0 PROVE F[l[n - 1]] = Steps(l[n - 1])
      <3>1. n - 1 \in 0..bound
        BY <1>2, <2>1
      <3>2. l[n - 1] \in SUBSET Good
        BY <1>10, <3>1 DEF AreLayers
      <3> QED BY <1>8, <3>2
    <2> QED BY <1>10, <2>1 DEF AreLayers
  <1>12. Walk = [n \in 0..bound |-> IF n = 0 THEN {first} ELSE Steps(Walk[n - 1])]
    BY <1>11
  <1> HIDE DEF Walk
  <1>13. \A n \in 0..bound : Walk[n] \subseteq Good
    <2>1. Walk[0] = {first}
      <3>1. 0 \in 0..bound
        BY <1>2
      <3> QED BY <1>12, <3>1
    <2>2. ASSUME NEW n \in 1..bound, Walk[n - 1] \subseteq Good PROVE Walk[n] \subseteq Good
      <3>1. n \in 0..bound /\ n # 0
        BY <1>2
      <3>2. Walk[n] = Steps(Walk[n - 1])
        BY <1>12, <3>1
      <3> QED BY <1>7, <2>2, <3>2
    <2>3. Walk[0] \subseteq Good
      BY <1>9, <2>1
    <2> QED BY <1>2, <2>2, <2>3, LayersWithin
  <1>14. w \in Good
    BY <1>1, <1>13
  <1> QED BY <1>14 DEF Good


(***************************************************************************)
(* The invariant: what was made so far is certified.                       *)
(***************************************************************************)

MadeWell == \E T : /\ T = TallyOf(original, config) /\ Tallied(T)
                   /\ \E R : Certified(T, R)
FieldsInv == TallyInv /\ Shaped(heap) /\ MadeWell

LEMMA FieldsInit == Init => FieldsInv
  <1> SUFFICES ASSUME Init PROVE FieldsInv
    OBVIOUS
  <1>1. TallyInv /\ heap = original /\ original \in Graphs /\ pass = "find"
    BY UntouchedInit, CountInit DEF TallyInv, Init
  <1>2. Shaped(heap)
    <2> DEFINE n == Cardinality(DOMAIN original)
    <2>1. IsFiniteSet(DOMAIN original) /\ original \in GraphsOn(n)
      BY <1>1, ScanAssumption
    <2> HIDE DEF n
    <2>2. DOMAIN original = 1..n /\ \A i \in DOMAIN original : DOMAIN original[i] = ContainerFields
      BY <2>1 DEF GraphsOn, ContainerFields
    <2> QED BY <1>1, <2>1, <2>2 DEF Shaped, n
  <1>3. \A T, R : Certified(T, R)
    BY <1>1 DEF Certified
  <1>4. \E T : T = TallyOf(original, config) /\ Tallied(T)
    BY <1>1 DEF TallyInv, CountInv
  <1> QED BY <1>1, <1>2, <1>3, <1>4 DEF FieldsInv, MadeWell

(* The first pass makes nothing.                                           *)
LEMMA FindCertified ==
  ASSUME TallyInv, Shaped(heap), pass = "find", NEW T, Tallied(T), Next
  PROVE  Shaped(heap') /\ \E U : Certified(T, U)'
  <1>1. ASSUME pass' = "find" PROVE \E U : Certified(T, U)'
    BY <1>1 DEF Certified
  <1>2. CASE \E value, n : Accept(stack, heap, value, n) /\ pass' = pass
    BY <1>1, <1>2, AcceptShaped
  <1>3. CASE Descend
    <2>1. Enter(Child, ChildPath, stack) /\ pass' = pass
      BY <1>3 DEF Descend
    <2> QED BY <1>1, <2>1, EnterShaped
  <1>4. CASE TurnToExtras
    <2>1. pass' = pass /\ heap' = heap
      BY <1>4 DEF TurnToExtras
    <2> QED BY <1>1, <2>1
  <1>5. CASE FindComplete
    <2> DEFINE count == Top.count + Top.partCount
               n == Len(stack)
    <2>1. Return(heap, Top.node, count)
      BY <1>5 DEF FindComplete
    <2>2. Shaped(heap')
      BY <2>1, ReturnShaped
    <2>3. /\ UntouchedInv /\ original \in Graphs /\ IsTally(original, config, T)
          /\ IsSeq(stack) /\ n \in Nat /\ n > 0 /\ Top = stack[n] /\ stack[1].node = Root
      BY Unchanging, IsSeqFacts DEF TallyInv, CountInv, Tallied, Calls, Top
    <2> HIDE DEF count
    <2>4. CASE n > 1
      <3>1. pass' = pass
        BY <2>1, <2>4 DEF Return
      <3> QED BY <1>1, <2>2, <3>1
    <2>5. CASE ~(n > 1) /\ config.redact /\ count # 0
      <3>1. pass' = "redact" /\ Enter(Root, << >>, << >>) /\ UNCHANGED <<original, config>>
        BY <2>1, <2>5 DEF Return
      <3>2. PICK s : s = << >>
        OBVIOUS
      <3>3. PICK R : R = Identity(original, config, T)
        OBVIOUS
      <3>4. DOMAIN original \subseteq DOMAIN heap /\ \A i \in DOMAIN original : heap[i] = original[i]
        BY <2>3 DEF UntouchedInv, HeapInv, Keeps
      <3>5. Rebuilding(original, config, T, R, heap, s)
        BY <2>3, <3>2, <3>3, <3>4, RebuildNothing
      <3>6. IsSeq(s) /\ Enter(Root, << >>, s)
        BY <3>1, <3>2, FitsNone
      <3>7. Rebuilding(original, config, T, R, heap', stack')
        <4> DEFINE path == << >>
        <4>1. Enter(Root, path, s)
          BY <3>6
        <4> HIDE DEF path
        <4> QED BY <3>1, <3>5, <3>6, <4>1, EnterFits
      <3>8. Rebuilding(original', config', T, R, heap', stack')
        BY <3>1, <3>7
      <3>9. Certified(T, R)'
        BY <3>1, <3>8 DEF Certified
      <3> QED BY <2>2, <3>9
    <2>6. CASE ~(n > 1) /\ ~(config.redact /\ count # 0)
      <3>1. pass' = "done" /\ answer' = Answer(count, IF count = 0 THEN Root ELSE Top.node)
        BY <2>1, <2>6 DEF Return
      <3>2. Top.node = Root
        <4>1. n = 1
          <5>1. n \in Nat /\ n > 0 /\ ~(n > 1)
            BY <2>3, <2>6
          <5> HIDE DEF n
          <5> QED BY <5>1
        <4> QED BY <2>3, <4>1
      <3>3. answer'.payload = Root
        BY <3>1, <3>2 DEF Answer
      <3>4. \A R : Certified(T, R)'
        BY <3>1, <3>3 DEF Certified
      <3> QED BY <2>2, <3>4
    <2> QED BY <2>4, <2>5, <2>6
  <1>6. CASE Returned
    BY <1>6 DEF Returned
  <1>7. ScanString \/ SkipField \/ BackReference => \E value, n : Accept(stack, heap, value, n) /\ pass' = pass
    BY DEF ScanString, SkipField, BackReference
  <1> QED BY <1>2, <1>3, <1>4, <1>5, <1>6, <1>7
          DEF Next, FinishMapping, FinishTuple, FinishAttributes, FinishExtras

LEMMA RedactCertified ==
  ASSUME TallyInv, Shaped(heap), pass = "redact", NEW T, Tallied(T), NEW R, Certified(T, R), Next
  PROVE  Shaped(heap') /\ \E U : Certified(T, U)'
  <1>1. Rebuilding(original, config, T, R, heap, stack)
    BY DEF Certified
  <1>2. CASE ScanString
    <2>1. \E value, n : Accept(stack, heap, value, n)
      BY <1>2 DEF ScanString
    <2>2. \E U : Certified(T, U)'
      BY <1>1, <1>2, StringCertified
    <2> QED BY <2>1, <2>2, AcceptShaped
  <1>3. CASE BackReference
    <2>1. /\ ~Exhausted(Top) /\ Child \in seen /\ UNCHANGED <<original, config, pass>>
          /\ Accept(stack, heap, StandIn(Child), 0)
      BY <1>3 DEF BackReference, Enterable, Scanning
    <2>2. Fits(R, StandIn(Child), Child, ChildPath, seen)
      BY <2>1 DEF Fits
    <2>3. Certified(T, R)'
      BY <1>1, <2>1, <2>2, AcceptCertified
    <2> QED BY <2>1, <2>3, AcceptShaped
  <1>4. CASE Descend
    <2>1. Enter(Child, ChildPath, stack)
      BY <1>4 DEF Descend
    <2>2. Certified(T, R)'
      BY <1>1, <1>4, DescendCertified
    <2> QED BY <2>1, <2>2, EnterShaped
  <1>5. CASE TurnToExtras
    <2>1. Shaped(heap') /\ Certified(T, R)'
      BY <1>1, <1>5, TurnCertified
    <2> QED BY <2>1
  <1>6. CASE FinishMapping
    BY <1>1, <1>6, MappingCertified
  <1>7. CASE FinishTuple
    BY <1>1, <1>7, TupleCertified
  <1>8. CASE FinishAttributes
    BY <1>1, <1>8, AttributesCertified
  <1>9. CASE FinishExtras
    BY <1>1, <1>9, ExtrasCertified
  <1> QED BY <1>2, <1>3, <1>4, <1>5, <1>6, <1>7, <1>8, <1>9 DEF Next, SkipField, FindComplete, Returned

LEMMA FieldsStep ==
  ASSUME FieldsInv, [Next]_vars
  PROVE  FieldsInv'
  <1>1. TallyInv'
    BY UntouchedStep, CountStep DEF FieldsInv, TallyInv
  <1>2. PICK T, R : T = TallyOf(original, config) /\ Tallied(T) /\ Certified(T, R)
    BY DEF FieldsInv, MadeWell
  <1>3. original' = original /\ config' = config
    BY DEF Next, ScanString, SkipField, BackReference, Descend, FindComplete, FinishMapping,
           FinishTuple, TurnToExtras, FinishAttributes, FinishExtras, Return, Returned, vars
  <1>4. Tallied(T)'
    <2>1. PICK V : V = TallyOf(original', config') /\ Tallied(V)'
      BY <1>1 DEF TallyInv, CountInv
    <2>2. V = T
      BY <1>2, <1>3, <2>1
    <2> QED BY <2>1, <2>2
  <1>5. ASSUME Shaped(heap'), \E U : Certified(T, U)' PROVE FieldsInv'
    <2>1. T = TallyOf(original', config')
      BY <1>2, <1>3
    <2> QED BY <1>1, <1>4, <1>5, <2>1 DEF FieldsInv, MadeWell
  <1>6. CASE UNCHANGED vars
    <2>1. Certified(T, R)' /\ Shaped(heap')
      BY <1>2, <1>6 DEF Certified, vars, FieldsInv
    <2> QED BY <1>5, <2>1
  <1>7. CASE Next /\ pass = "find"
    BY <1>2, <1>5, <1>7, FindCertified DEF FieldsInv
  <1>8. CASE Next /\ pass = "redact"
    BY <1>2, <1>5, <1>8, RedactCertified DEF FieldsInv
  <1>9. CASE Next /\ pass = "done"
    <2>1. UNCHANGED vars
      BY <1>9 DEF Next, ScanString, SkipField, BackReference, Descend, Enterable, Scanning, FindComplete,
                  FinishMapping, FinishTuple, TurnToExtras, FinishAttributes, FinishExtras, Returned
    <2> QED BY <1>6, <2>1
  <1>10. pass \in {"find", "redact", "done"}
    BY DEF FieldsInv, TallyInv, CountInv
  <1> QED BY <1>6, <1>7, <1>8, <1>9, <1>10

LEMMA FieldsHonouredThen == FieldsInv => FieldsHonoured
  <1> SUFFICES ASSUME FieldsInv, pass = "done", answer.payload # Root,
                      NEW w \in Places, w.old = Secret
               PROVE  (w.new = Redacted) <=> Configured(w.path)
    BY DEF FieldsHonoured
  <1>1. PICK R : /\ Certificate(original, config, heap, {}, R)
                 /\ PlaceAt(answer.payload, Root, << >>, {}) \in R
    BY DEF FieldsInv, MadeWell, Certified
  <1>2. UntouchedInv /\ config \in Configs /\ original \in Graphs
    BY Unchanging DEF FieldsInv, TallyInv, CountInv
  <1>3. w \in R \/ (w.old \in w.on /\ w.on \in SUBSET DOMAIN original)
    BY <1>1, <1>2, PlacesCertified
  <1>4. w \in R
    BY <1>2, <1>3, GraphFacts
  <1>5. w \in PlacesOf(DOMAIN heap, original) /\ AsConfigured(config, w)
    BY <1>1, <1>4 DEF Certificate
  <1>6. w.path \in FieldPaths
    BY <1>5, PlaceType
  <1> QED BY <1>2, <1>5, <1>6, ConfiguredFacts DEF AsConfigured

(* config.rs:75-100, python_scan.rs:197-422.  For every graph of           *)
(* containers and every pair of field lists a secret of the payload is     *)
(* redacted exactly where the lists say so, at every place at which its    *)
(* container occurs: a copy made for one path is never given to another.   *)
THEOREM FieldsHonouredHolds == Spec => []FieldsHonoured
  <1>1. FieldsInv /\ [Next]_vars => FieldsInv'
    BY FieldsStep
  <1> QED BY <1>1, FieldsInit, FieldsHonouredThen, PTL DEF Spec

(***************************************************************************)
(* Clean data: containers from which no secret can be reached.             *)
(***************************************************************************)

ValuesOf(x) == Range(x.kids) \cup Range(x.extras)
IsClean(h, C) == Secret \notin C /\ \A i \in C \ Strings : ValuesOf(h[i]) \subseteq C
Clean(g) == UNION {C \in SUBSET (DOMAIN g \cup Strings) : IsClean(g, C)}

LEMMA CleanFacts ==
  ASSUME NEW g \in Graphs
  PROVE  /\ IsClean(g, Clean(g)) /\ Clean(g) \subseteq DOMAIN g \cup Strings
         /\ Redacted \in Clean(g) /\ Secret \notin Clean(g)
         /\ \A C \in SUBSET (DOMAIN g \cup Strings) : IsClean(g, C) => C \subseteq Clean(g)
  <1>1. IsClean(g, {Redacted})
    BY ScanAssumption DEF IsClean, Strings
  <1>2. \A C \in SUBSET (DOMAIN g \cup Strings) : IsClean(g, C) => C \subseteq Clean(g)
    BY DEF Clean
  <1>3. Redacted \in Clean(g)
    <2>1. {Redacted} \in SUBSET (DOMAIN g \cup Strings)
      BY DEF Strings
    <2> QED BY <1>1, <1>2, <2>1
  <1>4. Secret \notin Clean(g)
    BY DEF Clean, IsClean
  <1>5. ASSUME NEW i \in Clean(g) \ Strings PROVE ValuesOf(g[i]) \subseteq Clean(g)
    <2>1. PICK C \in SUBSET (DOMAIN g \cup Strings) : IsClean(g, C) /\ i \in C
      BY <1>5 DEF Clean
    <2>2. ValuesOf(g[i]) \subseteq C
      BY <1>5, <2>1 DEF IsClean
    <2> QED BY <1>2, <2>1, <2>2
  <1>6. Clean(g) \subseteq DOMAIN g \cup Strings
    BY DEF Clean
  <1> QED BY <1>2, <1>3, <1>4, <1>5, <1>6 DEF IsClean

(* A walk in layers has seen all that it can lead to before it is longer   *)
(* than there are elements that lead anywhere.                             *)
LedBy(E, G, N, l) == \A n \in 1..N : l[n] = UNION {G[p] : p \in l[n - 1] \cap E}
ClosedWithin(E, G, N, l, Q) ==
    /\ l[0] \subseteq Q /\ Q \subseteq UNION {l[n] : n \in 0..N}
    /\ \A p \in Q \cap E : G[p] \subseteq Q

LEMMA Saturates ==
  ASSUME NEW E, IsFiniteSet(E), NEW N \in Nat, Cardinality(E) <= N,
         NEW G, NEW l, LedBy(E, G, N, l)
  PROVE  \E Q : ClosedWithin(E, G, N, l, Q)
  <1> DEFINE Up(n) == UNION {l[m] : m \in 0..n}
             A(n) == Up(n) \cap E
  <1> SUFFICES ASSUME \A Q : /\ l[0] \subseteq Q /\ Q \subseteq Up(N)
                             => \E p \in Q \cap E : ~(G[p] \subseteq Q)
               PROVE  FALSE
    BY DEF ClosedWithin
  <1>0. \A n \in 1..N : l[n] = UNION {G[p] : p \in l[n - 1] \cap E}
    BY DEF LedBy
  <1>1. \A n \in Nat : /\ IsFiniteSet(A(n)) /\ Cardinality(A(n)) \in Nat /\ Cardinality(A(n)) <= Cardinality(E)
    <2> TAKE n \in Nat
    <2>1. A(n) \in SUBSET E
      OBVIOUS
    <2> HIDE DEF A
    <2> QED BY <2>1, FS_Subset, FS_CardinalityType
  <1>2. Cardinality(E) \in Nat
    BY FS_CardinalityType
  <1>3. \A m, n \in Nat : m <= n => Up(m) \subseteq Up(n)
    <2> TAKE m, n \in Nat
    <2> SUFFICES ASSUME m <= n PROVE Up(m) \subseteq Up(n)
      OBVIOUS
    <2>1. 0..m \subseteq 0..n
      OBVIOUS
    <2> QED BY <2>1
  <1>4. Up(0) = l[0]
    <2>1. 0..0 = {0}
      OBVIOUS
    <2> QED BY <2>1
  <1>5. ASSUME NEW n \in Nat, n < N PROVE A(n) # A(n + 1)
    <2> SUFFICES ASSUME A(n) = A(n + 1) PROVE FALSE
      OBVIOUS
    <2>1. l[0] \subseteq Up(n + 1) /\ Up(n + 1) \subseteq Up(N)
      <3>1. 0 <= n + 1 /\ n + 1 <= N /\ n + 1 \in Nat /\ 0 \in Nat
        BY <1>5
      <3> HIDE DEF Up
      <3> QED BY <1>3, <1>4, <3>1
    <2>2. PICK p \in Up(n + 1) \cap E : ~(G[p] \subseteq Up(n + 1))
      <3> DEFINE Q == Up(n + 1)
      <3>1. l[0] \subseteq Q /\ Q \subseteq Up(N)
        BY <2>1
      <3> HIDE DEF Q
      <3>2. \E p \in Q \cap E : ~(G[p] \subseteq Q)
        BY <3>1
      <3> QED BY <3>2 DEF Q
    <2>3. p \in A(n)
      <3>1. p \in A(n + 1)
        BY <2>2
      <3> HIDE DEF A
      <3> QED BY <3>1
    <2>4. PICK m \in 0..n : p \in l[m]
      BY <2>3
    <2>5. m + 1 \in 1..N /\ m + 1 \in 0..(n + 1) /\ (m + 1) - 1 = m
      BY <1>5, <2>4
    <2>6. l[m + 1] = UNION {G[q] : q \in l[m] \cap E}
      BY <1>0, <2>5
    <2>7. G[p] \subseteq l[m + 1]
      BY <2>2, <2>4, <2>6
    <2>8. l[m + 1] \subseteq Up(n + 1)
      BY <2>5
    <2> QED BY <2>2, <2>7, <2>8
  <1>6. A(0) # {}
    <2> SUFFICES ASSUME A(0) = {} PROVE FALSE
      OBVIOUS
    <2>1. l[0] \cap E = {}
      BY <1>4
    <2>2. l[0] \subseteq Up(N)
      <3>1. 0 <= N /\ 0 \in Nat
        OBVIOUS
      <3> HIDE DEF Up
      <3> QED BY <1>3, <1>4, <3>1
    <2> HIDE DEF Up
    <2>3. \E p \in l[0] \cap E : ~(G[p] \subseteq l[0])
      BY <2>2
    <2> QED BY <2>1, <2>3
  <1>7. \A n \in Nat : A(n) \subseteq A(n + 1)
    <2> TAKE n \in Nat
    <2>1. Up(n) \subseteq Up(n + 1)
      <3>1. n <= n + 1 /\ n + 1 \in Nat
        OBVIOUS
      <3> HIDE DEF Up
      <3> QED BY <1>3, <3>1
    <2> QED BY <2>1
  <1> HIDE DEF Up, A
  <1> DEFINE S == {n \in Nat : n <= N => Cardinality(A(n)) >= n + 1}
  <1>8. 0 \in S
    <2>1. Cardinality(A(0)) # 0
      BY <1>1, <1>6, FS_EmptySet
    <2> QED BY <1>1, <2>1
  <1>9. ASSUME NEW n \in S PROVE n + 1 \in S
    <2> SUFFICES ASSUME n + 1 <= N PROVE Cardinality(A(n + 1)) >= n + 1 + 1
      OBVIOUS
    <2>1. n \in Nat /\ n < N /\ n + 1 \in Nat /\ Cardinality(A(n)) >= n + 1
      OBVIOUS
    <2>2. A(n) # A(n + 1) /\ A(n) \subseteq A(n + 1)
      BY <1>5, <1>7, <2>1
    <2>3. /\ IsFiniteSet(A(n + 1)) /\ Cardinality(A(n + 1)) \in Nat /\ Cardinality(A(n)) \in Nat
      BY <1>1, <2>1
    <2>4. Cardinality(A(n)) <= Cardinality(A(n + 1)) /\ Cardinality(A(n)) # Cardinality(A(n + 1))
      BY <2>2, <2>3, FS_Subset
    <2> QED BY <2>1, <2>3, <2>4
  <1>10. N \in S
    <2>1. S \subseteq Nat
      OBVIOUS
    <2> HIDE DEF S
    <2> QED BY <1>8, <1>9, <2>1, Induction
  <1> QED BY <1>1, <1>2, <1>10

AreReached(h, v, Good, bound, l) ==
    /\ l \in [0..bound -> SUBSET Good] /\ l[0] = {v}
    /\ \A n \in 1..bound : l[n] = UNION {ValuesOf(h[i]) : i \in l[n - 1] \ Strings}
    /\ ReachableIn(h, v) = UNION {l[n] : n \in 0..bound}

LEMMA ReachLayers ==
  ASSUME NEW h, IsFiniteSet(DOMAIN h), NEW Good, NEW v \in Good,
         \A i \in Good \ Strings : ValuesOf(h[i]) \subseteq Good
  PROVE  \E l : AreReached(h, v, Good, Cardinality(DOMAIN h), l)
  <1> DEFINE bound == Cardinality(DOMAIN h)
             Steps(S) == UNION {Range(h[i].kids) \cup Range(h[i].extras) : i \in S \ Strings}
             Walk == CHOOSE layer : layer = [n \in 0..bound |-> IF n = 0 THEN {v} ELSE Steps(layer[n - 1])]
  <1>1. ReachableIn(h, v) = UNION {Walk[n] : n \in 0..bound}
    BY DEF ReachableIn, Closure
  <1>2. bound \in Nat
    BY FS_CardinalityType
  <1>3. ASSUME NEW P \in SUBSET Good PROVE Steps(P) \in SUBSET Good
    BY <1>3 DEF ValuesOf
  <1>4. \A P : Steps(P) = UNION {ValuesOf(h[i]) : i \in P \ Strings}
    BY DEF ValuesOf
  <1> HIDE DEF bound
  <1>5. PICK F : F = [P \in SUBSET Good |-> Steps(P)]
    OBVIOUS
  <1> HIDE DEF Steps
  <1>6. F \in [SUBSET Good -> SUBSET Good] /\ {v} \in SUBSET Good
    BY <1>3, <1>5
  <1>7. PICK l : AreLayers(l, F, {v}, bound, Good)
    <2> DEFINE from == {v}
    <2>1. F \in [SUBSET Good -> SUBSET Good] /\ from \in SUBSET Good /\ bound \in Nat
      BY <1>2, <1>6
    <2> HIDE DEF from
    <2>2. \E l : AreLayers(l, F, from, bound, Good)
      BY <2>1, LayersExist
    <2> QED BY <2>2 DEF from
  <1>8. l = [n \in 0..bound |-> IF n = 0 THEN {v} ELSE Steps(l[n - 1])]
    <2>1. ASSUME NEW n \in 0..bound, n # 0 PROVE F[l[n - 1]] = Steps(l[n - 1])
      <3>1. n - 1 \in 0..bound
        BY <1>2, <2>1
      <3>2. l[n - 1] \in SUBSET Good
        BY <1>7, <3>1 DEF AreLayers
      <3> QED BY <1>5, <3>2
    <2> QED BY <1>7, <2>1 DEF AreLayers
  <1>9. Walk = [n \in 0..bound |-> IF n = 0 THEN {v} ELSE Steps(Walk[n - 1])]
    BY <1>8
  <1> HIDE DEF Walk
  <1>10. /\ Walk[0] = {v}
         /\ \A n \in 1..bound : Walk[n] = Steps(Walk[n - 1])
    <2>1. 0 \in 0..bound /\ \A n \in 1..bound : n \in 0..bound /\ n # 0
      BY <1>2
    <2> QED BY <1>9, <2>1
  <1>11. Walk \in [0..bound -> SUBSET Good]
    <2>1. \A n \in 0..bound : Walk[n] \subseteq Good
      <3>1. Walk[0] \subseteq Good
        BY <1>6, <1>10
      <3>2. \A n \in 1..bound : Walk[n - 1] \subseteq Good => Walk[n] \subseteq Good
        BY <1>3, <1>10
      <3> QED BY <1>2, <3>1, <3>2, LayersWithin
    <2>2. DOMAIN Walk = 0..bound /\ Walk = [n \in DOMAIN Walk |-> Walk[n]]
      BY <1>9
    <2> QED BY <2>1, <2>2
  <1>12. \A n \in 1..bound : Walk[n] = UNION {ValuesOf(h[i]) : i \in Walk[n - 1] \ Strings}
    BY <1>4, <1>10
  <1>13. AreReached(h, v, Good, bound, Walk)
    BY <1>1, <1>10, <1>11, <1>12 DEF AreReached
  <1> QED BY <1>13 DEF bound

LEMMA ReachWithin ==
  ASSUME NEW h, IsFiniteSet(DOMAIN h), NEW Good, NEW v \in Good,
         \A i \in Good \ Strings : ValuesOf(h[i]) \subseteq Good
  PROVE  ReachableIn(h, v) \subseteq Good
  <1>1. PICK l : AreReached(h, v, Good, Cardinality(DOMAIN h), l)
    BY ReachLayers
  <1> QED BY <1>1 DEF AreReached

LEMMA HeldInGraph ==
  ASSUME NEW g \in Graphs, NEW i \in DOMAIN g
  PROVE  /\ ValuesOf(g[i]) \subseteq DOMAIN g \cup Strings
         /\ IsSeq(g[i].kids) /\ IsSeq(g[i].extras)
  <1>1. g[i].kids \in Seq(DOMAIN g \cup Strings) /\ g[i].extras \in Seq(DOMAIN g \cup Strings)
    BY GraphFacts
  <1> DEFINE V == DOMAIN g \cup Strings
  <1>2. \A s \in Seq(V) : IsSeq(s) /\ Range(s) \subseteq V
    <2> HIDE DEF V
    <2> QED BY IsSeqOf DEF Range
  <1> QED BY <1>1, <1>2 DEF ValuesOf

(* What can be reached is closed: the bound is large enough.               *)
LEMMA ReachCloses ==
  ASSUME NEW g \in Graphs, NEW v \in DOMAIN g \cup Strings
  PROVE  \E Q : /\ v \in Q /\ Q \subseteq ReachableIn(g, v) /\ Q \subseteq DOMAIN g \cup Strings
                /\ \A i \in Q \ Strings : ValuesOf(g[i]) \subseteq Q
  <1> DEFINE E == DOMAIN g
             N == Cardinality(E)
             Good == DOMAIN g \cup Strings
             G == [i \in E |-> ValuesOf(g[i])]
  <1>1. IsFiniteSet(E) /\ N \in Nat /\ E \cap Strings = {}
    BY GraphFacts, FS_CardinalityType
  <1>2. \A i \in Good \ Strings : ValuesOf(g[i]) \subseteq Good
    BY HeldInGraph
  <1>3. PICK l : AreReached(g, v, Good, N, l)
    <2> HIDE DEF Good
    <2>1. v \in Good
      BY DEF Good
    <2> QED BY <1>1, <1>2, <2>1, ReachLayers
  <1>4. LedBy(E, G, N, l)
    <2> SUFFICES ASSUME NEW n \in 1..N PROVE l[n] = UNION {G[p] : p \in l[n - 1] \cap E}
      BY DEF LedBy
    <2>1. n - 1 \in 0..N
      BY <1>1
    <2>2. l[n] = UNION {ValuesOf(g[i]) : i \in l[n - 1] \ Strings} /\ l[n - 1] \subseteq Good
      BY <1>3, <2>1 DEF AreReached
    <2>3. l[n - 1] \ Strings = l[n - 1] \cap E
      BY <1>1, <2>2
    <2>4. \A p \in l[n - 1] \cap E : G[p] = ValuesOf(g[p])
      OBVIOUS
    <2> HIDE DEF G, E, Good, N
    <2> QED BY <2>2, <2>3, <2>4
  <1> HIDE DEF G
  <1>5. PICK Q : ClosedWithin(E, G, N, l, Q)
    <2> HIDE DEF E, Good, N
    <2>1. Cardinality(E) <= N
      BY <1>1 DEF N
    <2> QED BY <1>1, <1>4, <2>1, Saturates
  <1>6. Q \subseteq ReachableIn(g, v) /\ Q \subseteq Good /\ v \in Q
    <2> HIDE DEF E, N
    <2> QED BY <1>3, <1>5 DEF AreReached, ClosedWithin
  <1>7. \A i \in Q \ Strings : ValuesOf(g[i]) \subseteq Q
    BY <1>5, <1>6 DEF G, ClosedWithin
  <1> QED BY <1>6, <1>7

(***************************************************************************)
(* What counts nothing is clean, but for what leads back.                  *)
(***************************************************************************)

Unlisted(c) == c.allow = {} /\ c.deny = {}

(* Containers that hold no secret, and nothing but one another and those   *)
(* that are being walked.                                                  *)
Secretless(g, C, on) ==
    /\ C \subseteq (DOMAIN g \ on) \cup {Redacted}
    /\ \A i \in C \ Strings : ValuesOf(g[i]) \subseteq C \cup on

Worthless(g, T, more, x) ==
    \/ x \in more \/ x = Redacted
    \/ x \in DOMAIN g \ more /\ \E p \in FieldPaths : T[<<x, p, more>>] = 0

LEMMA ItemsWorthless ==
  ASSUME NEW g \in Graphs, NEW c, Unlisted(c), NEW T, IsTally(g, c, T), NEW node \in DOMAIN g,
         NEW path \in FieldPaths, NEW on \in SUBSET DOMAIN g, NEW part \in Parts,
         Held(g, c, T, node, path, on, part) = 0,
         NEW x \in Range(Items(g, node, part))
  PROVE  Worthless(g, T, on \cup {node}, x)
  <1> DEFINE items == Items(g, node, part)
             R == Identity(g, c, T)
  <1>1. FitsAll(g, R, items, node, path, on, part)
    BY NothingHeld
  <1>2. PICK i \in DOMAIN items : x = items[i]
    BY DEF Range
  <1> DEFINE p == PathAt(g, node, path, part, i)
  <1>3. Fits(R, x, x, p, on \cup {node})
    BY <1>1, <1>2 DEF FitsAll
  <1>4. p \in FieldPaths /\ x \in DOMAIN g \cup Strings
    <2>1. /\ items \in Seq(DOMAIN g \cup Strings)
          /\ \A k \in 1..Len(items) : /\ items[k] \in DOMAIN g \cup Strings
                                      /\ PathAt(g, node, path, part, k) \in FieldPaths
      BY ItemsFacts
    <2> HIDE DEF items
    <2>2. DOMAIN items = 1..Len(items)
      BY <2>1, LenProperties
    <2> QED BY <1>2, <2>1, <2>2
  <1> HIDE DEF p, items
  <1>5. CASE x \notin on \cup {node}
    <2>1. PlaceAt(x, x, p, on \cup {node}) \in R
      BY <1>3, <1>5 DEF Fits
    <2>2. Worth(c, T, x, p, on \cup {node}) = 0
      BY <2>1, PlaceFacts DEF Identity
    <2>3. CASE x \in Strings
      <3>1. Scans(c, p)
        BY DEF Unlisted, Scans
      <3>2. x # Secret
        BY <2>2, <2>3, <3>1 DEF Worth
      <3> QED BY <2>3, <3>2 DEF Strings, Worthless
    <2>4. CASE x \notin Strings
      <3>1. T[<<x, p, on \cup {node}>>] = 0
        BY <2>2, <2>4 DEF Worth
      <3> QED BY <1>4, <1>5, <2>4, <3>1 DEF Worthless
    <2> QED BY <2>3, <2>4
  <1>6. CASE x \in on \cup {node}
    BY <1>6 DEF Worthless
  <1> QED BY <1>5, <1>6

(* All that is secretless with respect to on.                              *)
AllSecretless(g, on) == UNION {C \in SUBSET (DOMAIN g \cup Strings) : Secretless(g, C, on)}

LEMMA SecretlessFacts ==
  ASSUME NEW g \in Graphs, NEW on
  PROVE  /\ Secretless(g, AllSecretless(g, on), on) /\ Redacted \in AllSecretless(g, on)
         /\ \A C : Secretless(g, C, on) => C \subseteq AllSecretless(g, on)
  <1> DEFINE A == AllSecretless(g, on)
  <1>1. ASSUME NEW C, Secretless(g, C, on) PROVE C \subseteq A
    <2>1. C \in SUBSET (DOMAIN g \cup Strings)
      BY <1>1 DEF Secretless, Strings
    <2> QED BY <1>1, <2>1 DEF AllSecretless
  <1>2. Redacted \in A
    <2>1. Secretless(g, {Redacted}, on)
      BY DEF Secretless, Strings
    <2> QED BY <1>1, <2>1
  <1>3. A \subseteq (DOMAIN g \ on) \cup {Redacted}
    BY DEF AllSecretless, Secretless
  <1>4. ASSUME NEW i \in A \ Strings PROVE ValuesOf(g[i]) \subseteq A \cup on
    <2>1. PICK C : Secretless(g, C, on) /\ i \in C
      BY <1>4 DEF AllSecretless
    <2>2. ValuesOf(g[i]) \subseteq C \cup on
      BY <1>4, <2>1 DEF Secretless
    <2> HIDE DEF A
    <2> QED BY <1>1, <2>1, <2>2
  <1> QED BY <1>1, <1>2, <1>3, <1>4 DEF Secretless

LEMMA WorthlessSecretless ==
  ASSUME NEW g \in Graphs, NEW c, Unlisted(c), NEW T, IsTally(g, c, T)
  PROVE  \A node \in DOMAIN g, path \in FieldPaths, on \in SUBSET DOMAIN g :
           node \notin on /\ T[<<node, path, on>>] = 0 => node \in AllSecretless(g, on)
  <1> DEFINE P(n) == \A node \in DOMAIN g, path \in FieldPaths, on \in SUBSET DOMAIN g :
                       Left(g, on) <= n /\ node \notin on /\ T[<<node, path, on>>] = 0
                         => node \in AllSecretless(g, on)
             S == {n \in Nat : P(n)}
  <1>1. 0 \in S
    <2>1. P(0)
      BY LeftFacts
    <2> QED BY <2>1
  <1>2. ASSUME NEW n \in S PROVE n + 1 \in S
    <2>1. n \in Nat /\ P(n)
      OBVIOUS
    <2> HIDE DEF S
    <2>2. ASSUME NEW node \in DOMAIN g, NEW path \in FieldPaths, NEW on \in SUBSET DOMAIN g,
                 Left(g, on) <= n + 1, node \notin on, T[<<node, path, on>>] = 0
          PROVE  node \in AllSecretless(g, on)
      <3> DEFINE more == on \cup {node}
                 B == AllSecretless(g, more)
                 C == B \cup {node}
      <3>1. more \in SUBSET DOMAIN g /\ Left(g, more) <= n
        <4>1. more \in SUBSET DOMAIN g /\ Left(g, more) = Left(g, on) - 1 /\ Left(g, on) \in Nat
          BY <2>2, LeftFacts
        <4> QED BY <2>1, <2>2, <4>1
      <3>2. T[<<node, path, on>>] = Counted(g, c, T, node, path, on)
        BY DEF IsTally
      <3>3. \A part \in Parts : Held(g, c, T, node, path, on, part) = 0
        <4>1. T \in [Walks(g) -> Nat]
          BY DEF IsTally
        <4>2. /\ Held(g, c, T, node, path, on, "kids") \in Nat
              /\ Held(g, c, T, node, path, on, "extras") \in Nat
          BY <4>1, HeldType
        <4>3. "kids" \in Parts /\ "extras" \in Parts
          BY DEF Parts
        <4>4. Held(g, c, T, node, path, on, "kids") + Held(g, c, T, node, path, on, "extras") = 0
          BY <2>2, <3>2 DEF Counted
        <4>5. Held(g, c, T, node, path, on, "kids") = 0 /\ Held(g, c, T, node, path, on, "extras") = 0
          BY <4>2, <4>4
        <4> QED BY <4>5 DEF Parts
      <3>4. /\ Redacted \in B /\ B \subseteq (DOMAIN g \ more) \cup {Redacted}
            /\ \A i \in B \ Strings : ValuesOf(g[i]) \subseteq B \cup more
        <4>1. Secretless(g, B, more) /\ Redacted \in B
          BY SecretlessFacts
        <4> HIDE DEF B
        <4> QED BY <4>1 DEF Secretless
      <3>5. ASSUME NEW part \in Parts, NEW x \in Range(Items(g, node, part))
            PROVE  x \in C \cup on
        <4>1. CASE x \in more \/ x = Redacted
          BY <3>4, <4>1
        <4>2. CASE x \in DOMAIN g \ more /\ \E p \in FieldPaths : T[<<x, p, more>>] = 0
          <5> HIDE DEF more
          <5>1. x \in AllSecretless(g, more)
            BY <2>1, <3>1, <4>2
          <5> QED BY <5>1
        <4>3. Held(g, c, T, node, path, on, part) = 0
          BY <3>3
        <4>4. Worthless(g, T, more, x)
          BY <3>5, <4>3, ItemsWorthless
        <4> QED BY <4>1, <4>2, <4>4 DEF Worthless
      <3>6. ValuesOf(g[node]) \subseteq C \cup on
        <4>1. "kids" \in Parts /\ "extras" \in Parts
          BY DEF Parts
        <4>2. Items(g, node, "kids") = g[node].kids /\ Items(g, node, "extras") = g[node].extras
          BY DEF Items
        <4> HIDE DEF C
        <4>3. Range(g[node].kids) \subseteq C \cup on
          BY <3>5, <4>1, <4>2
        <4>4. Range(g[node].extras) \subseteq C \cup on
          BY <3>5, <4>1, <4>2
        <4> QED BY <4>3, <4>4 DEF ValuesOf
      <3>7. Secretless(g, C, on)
        <4>1. C \subseteq (DOMAIN g \ on) \cup {Redacted}
          BY <2>2, <3>4
        <4>2. \A i \in C \ Strings : ValuesOf(g[i]) \subseteq C \cup on
          BY <3>4, <3>6
        <4> HIDE DEF C
        <4> QED BY <4>1, <4>2 DEF Secretless
      <3> HIDE DEF B
      <3> QED BY <3>7, SecretlessFacts
    <2>3. P(n + 1)
      BY <2>2
    <2> QED BY <2>1, <2>3 DEF S
  <1>3. S = Nat
    <2>1. S \subseteq Nat
      OBVIOUS
    <2> HIDE DEF S
    <2> QED BY <1>1, <1>2, <2>1, Induction
  <1>4. \A n \in Nat : P(n)
    BY <1>3
  <1> HIDE DEF S
  <1> QED BY <1>4, LeftFacts

LEMMA RootClean ==
  ASSUME NEW g \in Graphs, NEW c, Unlisted(c), NEW T, IsTally(g, c, T), GraphCount(T) = 0
  PROVE  Root \in Clean(g)
  <1> DEFINE A == AllSecretless(g, {})
             none == {}
             p == << >>
  <1>1. Root \in DOMAIN g /\ p \in FieldPaths /\ none \in SUBSET DOMAIN g /\ Secret # Redacted
    BY GraphFacts, EmptySeq DEF FieldPaths
  <1>2. T[<<Root, p, none>>] = 0
    BY DEF GraphCount
  <1>3. Root \in A
    <2> HIDE DEF p
    <2>1. Root \notin none
      OBVIOUS
    <2> HIDE DEF none
    <2>2. Root \in AllSecretless(g, none)
      BY <1>1, <1>2, <2>1, WorthlessSecretless
    <2> QED BY <2>2 DEF none
  <1>4. Secretless(g, A, {})
    BY SecretlessFacts
  <1> HIDE DEF A
  <1>5. A \in SUBSET (DOMAIN g \cup Strings) /\ IsClean(g, A)
    BY <1>1, <1>4, GraphFacts DEF Secretless, IsClean, Strings
  <1> QED BY <1>3, <1>5, CleanFacts

(* The calls in progress lead from one to the next, and so to all that the *)
(* innermost leads to.                                                     *)
LEMMA CallsApart ==
  ASSUME NEW g \in Graphs, NEW c, NEW T, NEW s, Calls(g, c, T, s), Len(s) > 0,
         NEW Q, \A i \in Q \ Strings : ValuesOf(g[i]) \subseteq Q, s[Len(s)].node \notin Q
  PROVE  Running(s, Len(s)) \cap Q = {}
  <1> DEFINE n == Len(s)
             S == {k \in Nat : k < n => s[n - k].node \notin Q}
  <1>1. n \in Nat /\ n > 0
    BY IsSeqFacts DEF Calls
  <1>2. 0 \in S
    <2>1. n - 0 = n
      BY <1>1
    <2> QED BY <2>1
  <1>3. ASSUME NEW k \in S PROVE k + 1 \in S
    <2> SUFFICES ASSUME k + 1 < n PROVE s[n - (k + 1)].node \notin Q
      OBVIOUS
    <2> DEFINE j == n - (k + 1)
               f == s[j]
               e == s[j + 1]
    <2>1. k \in Nat /\ j \in 1..(n - 1) /\ j \in 1..n /\ j + 1 = n - k
      BY <1>1
    <2>2. e.node \notin Q
      BY <2>1
    <2>3. CalledBy(g, f, e) /\ FrameOK(g, c, T, Running(s, j - 1), f)
      BY <2>1 DEF Calls
    <2> HIDE DEF f, e, j, n, S
    <2>4. /\ f.node \in DOMAIN g /\ f.part \in Parts /\ f.path \in FieldPaths /\ IsSeq(f.values)
      BY <2>3 DEF FrameOK, CallOK
    <2>5. e.node \in Range(Items(g, f.node, f.part))
      <3> DEFINE items == Items(g, f.node, f.part)
      <3>1. /\ items \in Seq(DOMAIN g \cup Strings) /\ Len(items) \in Nat /\ Len(f.values) \in Nat
        BY <2>4, ItemsFacts, IsSeqFacts
      <3>2. Len(f.values) < Len(items) /\ items[Len(f.values) + 1] = e.node
        BY <2>3 DEF CalledBy, FrameItems
      <3> HIDE DEF items
      <3>3. DOMAIN items = 1..Len(items)
        BY <3>1, LenProperties
      <3>4. Len(f.values) + 1 \in DOMAIN items
        BY <3>1, <3>2, <3>3
      <3>5. items[Len(f.values) + 1] \in Range(items)
        BY <3>4 DEF Range
      <3> QED BY <3>2, <3>5 DEF items
    <2>6. e.node \in ValuesOf(g[f.node])
      BY <2>4, <2>5 DEF ValuesOf, Items, Parts
    <2>7. f.node \notin Strings
      BY <2>4, GraphFacts
    <2> QED BY <2>2, <2>6, <2>7 DEF f, j
  <1>4. S = Nat
    <2>1. S \subseteq Nat
      OBVIOUS
    <2> HIDE DEF S
    <2> QED BY <1>2, <1>3, <2>1, Induction
  <1>5. ASSUME NEW j \in 1..n PROVE s[j].node \notin Q
    <2>1. n - j \in Nat /\ n - j < n /\ n - (n - j) = j
      BY <1>1
    <2>2. n - j \in S
      BY <1>4, <2>1
    <2> QED BY <2>1, <2>2
  <1> HIDE DEF S
  <1> QED BY <1>5 DEF Running

(* Values under other keys in which nothing was found are clean.           *)
LEMMA ExtrasClean ==
  ASSUME NEW g \in Graphs, ExtrasLeadAway(g), NEW c, Unlisted(c), NEW T, IsTally(g, c, T),
         NEW s, Calls(g, c, T, s), Len(s) > 0, NEW f, f = s[Len(s)], NEW on, on = Running(s, Len(s) - 1),
         Held(g, c, T, f.node, f.path, on, "extras") = 0
  PROVE  Range(g[f.node].extras) \subseteq Clean(g)
  <1> DEFINE more == on \cup {f.node}
             A == AllSecretless(g, more)
  <1>1. /\ Len(s) \in Nat /\ FrameOK(g, c, T, on, f) /\ more = Running(s, Len(s))
    BY IsSeqFacts, RunningMore DEF Calls
  <1>2. f.node \in DOMAIN g /\ f.path \in FieldPaths /\ on \in SUBSET DOMAIN g
    BY <1>1 DEF FrameOK, CallOK
  <1>3. more \in SUBSET DOMAIN g
    BY <1>2
  <1> SUFFICES ASSUME NEW x \in Range(g[f.node].extras) PROVE x \in Clean(g)
    OBVIOUS
  <1>4. x \in DOMAIN g \cup Strings
    BY <1>2, HeldInGraph DEF ValuesOf
  <1>5. f.node \notin ReachableIn(g, x)
    BY <1>2 DEF ExtrasLeadAway
  <1>6. PICK Q : /\ x \in Q /\ Q \subseteq ReachableIn(g, x) /\ Q \subseteq DOMAIN g \cup Strings
                 /\ \A i \in Q \ Strings : ValuesOf(g[i]) \subseteq Q
    BY <1>4, ReachCloses
  <1>7. more \cap Q = {}
    <2>1. s[Len(s)].node \notin Q
      BY <1>5, <1>6
    <2> HIDE DEF more
    <2> QED BY <1>1, <1>6, <2>1, CallsApart
  <1>8. x \in A
    <2>1. x \in Range(Items(g, f.node, "extras")) /\ "extras" \in Parts
      BY DEF Items, Parts
    <2>2. Worthless(g, T, more, x)
      BY <1>2, <2>1, ItemsWorthless
    <2> HIDE DEF more
    <2>3. CASE x = Redacted
      BY <2>3, SecretlessFacts
    <2>4. CASE x \in DOMAIN g \ more /\ \E p \in FieldPaths : T[<<x, p, more>>] = 0
      BY <1>3, <2>4, WorthlessSecretless
    <2> QED BY <1>6, <1>7, <2>2, <2>3, <2>4 DEF Worthless
  <1>9. Secretless(g, A, more)
    BY SecretlessFacts
  <1> HIDE DEF A, more
  <1>10. A \cap Q \in SUBSET (DOMAIN g \cup Strings) /\ IsClean(g, A \cap Q)
    <2>1. A \subseteq (DOMAIN g \ more) \cup {Redacted} /\ \A i \in A \ Strings : ValuesOf(g[i]) \subseteq A \cup more
      BY <1>9 DEF Secretless
    <2>2. Secret \notin A
      BY <2>1, GraphFacts
    <2>3. \A i \in (A \cap Q) \ Strings : ValuesOf(g[i]) \subseteq A \cap Q
      BY <1>6, <1>7, <2>1
    <2> QED BY <1>6, <2>2, <2>3 DEF IsClean
  <1>11. A \cap Q \subseteq Clean(g)
    BY <1>10, CleanFacts
  <1> QED BY <1>6, <1>8, <1>11

(***************************************************************************)
(* Copies: every container that the second pass makes is made for one of   *)
(* the original ones, and holds what stands for the values of that one.    *)
(***************************************************************************)

(* The function src tells of each copy what it is a copy of.               *)
Stands(g, src, n, v) == \/ n = v /\ v \in Clean(g)
                        \/ n = Redacted /\ v = Secret
                        \/ n \in DOMAIN src /\ src[n] = v
StandAll(g, src, s, t) == /\ IsSeq(s) /\ DOMAIN s \subseteq DOMAIN t
                          /\ \A i \in DOMAIN s : Stands(g, src, s[i], t[i])
IsCopy(g, src, x, o) == /\ StandAll(g, src, x.kids, g[o].kids)
                        /\ StandAll(g, src, x.extras, g[o].extras)
Copying(g, src, h) ==
    /\ DOMAIN src \subseteq DOMAIN h \ DOMAIN g
    /\ \A y \in DOMAIN src : src[y] \in DOMAIN g /\ IsCopy(g, src, h[y], src[y])

FrameCopies(g, src, h, f) ==
    /\ f.copy \in DOMAIN src /\ src[f.copy] = f.node
    /\ StandAll(g, src, f.values, FrameItems(g, f))
    /\ g[f.node].kind \in {"dict", "list"} => Len(h[f.copy].kids) = Len(f.values)
    /\ f.part = "extras" /\ ~f.rebuilt => Range(g[f.node].kids) \subseteq Clean(g)
FramesCopy(g, src, h, s) == \A k \in 1..Len(s) : FrameCopies(g, src, h, s[k])
Remembers(src, m, on) == \A x \in on : x \in DOMAIN m /\ m[x] \in DOMAIN src /\ src[m[x]] = x

(* A later state of what was made: more copies, and lists as long as ever. *)
Grown(src, sr2) == DOMAIN src \subseteq DOMAIN sr2 /\ \A y \in DOMAIN src : sr2[y] = src[y]
SameLengths(src, h, j, touched) == \A y \in DOMAIN src \ touched : Len(j[y].kids) = Len(h[y].kids)

LEMMA StandsGrown ==
  ASSUME NEW g, NEW src, NEW sr2, Grown(src, sr2)
  PROVE  /\ \A n, v : Stands(g, src, n, v) => Stands(g, sr2, n, v)
         /\ \A s, t : StandAll(g, src, s, t) => StandAll(g, sr2, s, t)
         /\ \A x, o : IsCopy(g, src, x, o) => IsCopy(g, sr2, x, o)
  <1>1. \A n, v : Stands(g, src, n, v) => Stands(g, sr2, n, v)
    BY DEF Stands, Grown
  <1>2. \A s, t : StandAll(g, src, s, t) => StandAll(g, sr2, s, t)
    BY <1>1 DEF StandAll
  <1>3. \A x, o : IsCopy(g, src, x, o) => IsCopy(g, sr2, x, o)
    BY <1>2 DEF IsCopy
  <1> QED BY <1>1, <1>2, <1>3

LEMMA StandNone ==
  ASSUME NEW g, NEW src, NEW t
  PROVE  StandAll(g, src, << >>, t) /\ IsSeq(<< >>) /\ Len(<< >>) = 0
  <1>1. << >> \in Seq({}) /\ Len(<< >>) = 0 /\ DOMAIN << >> = {}
    BY EmptySeq
  <1>2. IsSeq(<< >>)
    BY <1>1, IsSeqOf
  <1> QED BY <1>1, <1>2 DEF StandAll

LEMMA StandAppend ==
  ASSUME NEW g, NEW src, NEW s, NEW t, StandAll(g, src, s, t), NEW value,
         Len(s) + 1 \in DOMAIN t, Stands(g, src, value, t[Len(s) + 1])
  PROVE  StandAll(g, src, Append(s, value), t) /\ Len(Append(s, value)) = Len(s) + 1
  <1> DEFINE u == Append(s, value)
             k == Len(s)
  <1>1. IsSeq(s) /\ DOMAIN s = 1..k /\ k \in Nat
    BY IsSeqFacts DEF StandAll
  <1>2. /\ IsSeq(u) /\ Len(u) = k + 1 /\ \A i \in 1..k : u[i] = s[i] /\ u[k + 1] = value
    BY <1>1, IsSeqPush
  <1>3. u[k + 1] = value
    BY <1>1, IsSeqPush
  <1> HIDE DEF u
  <1>4. DOMAIN u = 1..(k + 1)
    BY <1>2, IsSeqFacts
  <1> HIDE DEF k
  <1>5. \A i \in DOMAIN u : (i \in DOMAIN s /\ u[i] = s[i]) \/ i = k + 1
    BY <1>1, <1>2, <1>4
  <1>6. \A i \in DOMAIN u : i \in DOMAIN t /\ Stands(g, src, u[i], t[i])
    BY <1>3, <1>5 DEF StandAll, k
  <1> QED BY <1>2, <1>6 DEF StandAll, u, k

LEMMA FrameCopiesLasts ==
  ASSUME NEW g, NEW src, NEW h, NEW f, FrameCopies(g, src, h, f), NEW sr2, Grown(src, sr2),
         NEW j, NEW touched, SameLengths(src, h, j, touched), f.copy \notin touched
  PROVE  FrameCopies(g, sr2, j, f)
  <1>1. f.copy \in DOMAIN sr2 /\ sr2[f.copy] = f.node
    BY DEF FrameCopies, Grown
  <1>2. StandAll(g, sr2, f.values, FrameItems(g, f))
    BY StandsGrown DEF FrameCopies
  <1>3. Len(j[f.copy].kids) = Len(h[f.copy].kids)
    BY DEF FrameCopies, SameLengths
  <1> QED BY <1>1, <1>2, <1>3 DEF FrameCopies

(* One more copy.                                                          *)
LEMMA CopyAdded ==
  ASSUME NEW g, NEW src, NEW h, Copying(g, src, h), DOMAIN g \subseteq DOMAIN h,
         NEW id, NEW x, NEW j, Extended(h, id, x, j),
         NEW o \in DOMAIN g, IsCopy(g, src, x, o)
  PROVE  \E sr2 : /\ Grown(src, sr2) /\ Copying(g, sr2, j) /\ id \in DOMAIN sr2 /\ sr2[id] = o
                  /\ SameLengths(src, h, j, {})
  <1> DEFINE sr2 == [y \in DOMAIN src \cup {id} |-> IF y = id THEN o ELSE src[y]]
  <1>1. /\ id \notin DOMAIN h /\ j[id] = x /\ \A i \in DOMAIN h : j[i] = h[i]
        /\ DOMAIN j = DOMAIN h \cup {id}
    BY DEF Extended
  <1>2. DOMAIN src \subseteq DOMAIN h \ DOMAIN g
    BY DEF Copying
  <1>3. DOMAIN sr2 = DOMAIN src \cup {id} /\ sr2[id] = o /\ \A y \in DOMAIN src : sr2[y] = src[y]
    BY <1>1, <1>2
  <1> HIDE DEF sr2
  <1>4. Grown(src, sr2)
    BY <1>3 DEF Grown
  <1>5. SameLengths(src, h, j, {})
    BY <1>1, <1>2 DEF SameLengths
  <1>6. DOMAIN sr2 \subseteq DOMAIN j \ DOMAIN g
    BY <1>1, <1>2, <1>3
  <1>7. ASSUME NEW y \in DOMAIN sr2 PROVE sr2[y] \in DOMAIN g /\ IsCopy(g, sr2, j[y], sr2[y])
    <2>1. CASE y = id
      BY <1>1, <1>3, <1>4, <2>1, StandsGrown
    <2>2. CASE y # id
      <3>1. y \in DOMAIN src /\ sr2[y] = src[y] /\ j[y] = h[y]
        BY <1>1, <1>2, <1>3, <2>2
      <3>2. src[y] \in DOMAIN g /\ IsCopy(g, src, h[y], src[y])
        BY <3>1 DEF Copying
      <3>3. IsCopy(g, sr2, h[y], src[y])
        BY <1>4, <3>2, StandsGrown
      <3> QED BY <3>1, <3>2, <3>3
    <2> QED BY <2>1, <2>2
  <1>8. Copying(g, sr2, j)
    BY <1>6, <1>7 DEF Copying
  <1> QED BY <1>3, <1>4, <1>5, <1>8

(* A copy is assigned to.                                                  *)
LEMMA CopyAssigned ==
  ASSUME NEW g, NEW src, NEW h, Copying(g, src, h), NEW y \in DOMAIN src, NEW x,
         IsCopy(g, src, x, src[y]), NEW j, j = [h EXCEPT ![y] = x]
  PROVE  Copying(g, src, j) /\ SameLengths(src, h, j, {y}) /\ j[y] = x
  <1>1. y \in DOMAIN h /\ DOMAIN src \subseteq DOMAIN h \ DOMAIN g
    BY DEF Copying
  <1>2. j[y] = x /\ DOMAIN j = DOMAIN h /\ \A z \in DOMAIN src \ {y} : j[z] = h[z]
    BY <1>1
  <1>3. \A z \in DOMAIN src : src[z] \in DOMAIN g /\ IsCopy(g, src, j[z], src[z])
    BY <1>2 DEF Copying
  <1> QED BY <1>1, <1>2, <1>3 DEF Copying, SameLengths

(* A placeholder gives way to another copy of the same container.          *)
LEMMA CopyReplaced ==
  ASSUME NEW g \in Graphs, NEW src, NEW h, Copying(g, src, h), Shaped(h),
         NEW p \in DOMAIN src, NEW r \in DOMAIN src, src[p] = src[r],
         NEW v, NEW j, j = ReplacePlaceholder(h, v, p, r)
  PROVE  Copying(g, src, j) /\ SameLengths(src, h, j, {})
  <1>1. DOMAIN j = DOMAIN h /\ DOMAIN src \subseteq DOMAIN h \ DOMAIN g
    BY DEF ReplacePlaceholder, Copying
  <1>2. p \notin Clean(g) /\ p # Redacted
    <2>1. p \in DOMAIN h /\ p \notin DOMAIN g
      BY <1>1
    <2>2. DOMAIN h = 1..Cardinality(DOMAIN h) /\ Cardinality(DOMAIN h) \in Nat
      BY FS_CardinalityType DEF Shaped
    <2>3. p \in Nat /\ Strings \cap Nat = {} /\ Redacted \in Strings
      BY <2>1, <2>2, ScanAssumption DEF Strings
    <2> QED BY <2>1, <2>3, CleanFacts
  <1>3. ASSUME NEW s, NEW t, StandAll(g, src, s, t)
        PROVE  StandAll(g, src, Substitute(s, p, r), t) /\ Len(Substitute(s, p, r)) = Len(s)
    <2> DEFINE u == Substitute(s, p, r)
    <2>1. IsSeq(s) /\ DOMAIN u = DOMAIN s /\ \A i \in DOMAIN s : u[i] = IF s[i] = p THEN r ELSE s[i]
      BY <1>3 DEF StandAll, Substitute
    <2>2. Len(s) \in Nat /\ DOMAIN s = 1..Len(s) /\ s \in [1..Len(s) -> Range(s)]
      BY <2>1, IsSeqFacts
    <2>3. IsSeq(u) /\ Len(u) = Len(s)
      <3>1. u \in [1..Len(s) -> Range(s) \cup {r}]
        BY <2>2 DEF Substitute
      <3> HIDE DEF u
      <3>2. u \in Seq(Range(s) \cup {r})
        BY <2>2, <3>1, SeqDef
      <3>3. Len(u) \in Nat /\ DOMAIN u = 1..Len(u) /\ IsSeq(u)
        BY <3>2, IsSeqOf
      <3>4. \A m, k \in Nat : 1..m = 1..k => m = k
        OBVIOUS
      <3> QED BY <2>1, <2>2, <3>3, <3>4
    <2>4. ASSUME NEW i \in DOMAIN s PROVE Stands(g, src, u[i], t[i])
      <3>1. Stands(g, src, s[i], t[i])
        BY <1>3 DEF StandAll
      <3>2. CASE s[i] = p
        <4>1. src[p] = t[i]
          BY <1>2, <3>1, <3>2 DEF Stands
        <4> QED BY <2>1, <3>2, <4>1 DEF Stands
      <3>3. CASE s[i] # p
        BY <2>1, <3>1, <3>3
      <3> QED BY <3>2, <3>3
    <2> HIDE DEF u
    <2>5. StandAll(g, src, u, t)
      BY <1>3, <2>1, <2>3, <2>4 DEF StandAll
    <2> QED BY <2>3, <2>5 DEF u
  <1>4. ASSUME NEW y \in DOMAIN src
        PROVE  IsCopy(g, src, j[y], src[y]) /\ Len(j[y].kids) = Len(h[y].kids)
    <2>1. y \in DOMAIN h /\ IsCopy(g, src, h[y], src[y]) /\ DOMAIN h[y] = ContainerFields
      BY <1>1 DEF Copying, Shaped
    <2>2. CASE j[y] = h[y]
      BY <2>1, <2>2
    <2>3. CASE j[y] # h[y]
      <3>1. j[y] = [h[y] EXCEPT !.kids = Substitute(h[y].kids, p, r),
                                !.extras = Substitute(h[y].extras, p, r)]
        BY <2>1, <2>3 DEF ReplacePlaceholder
      <3>2. /\ j[y].kids = Substitute(h[y].kids, p, r)
            /\ j[y].extras = Substitute(h[y].extras, p, r)
        BY <2>1, <3>1 DEF ContainerFields
      <3> QED BY <1>3, <2>1, <3>2 DEF IsCopy
    <2> QED BY <2>2, <2>3
  <1>5. \A y \in DOMAIN src : src[y] \in DOMAIN g
    BY DEF Copying
  <1> QED BY <1>1, <1>4, <1>5 DEF Copying, SameLengths

(***************************************************************************)
(* values_equal: what compares equal to data that was scanned is clean.    *)
(***************************************************************************)

CanCompare(h, p) == /\ p[1] # p[2]
                    /\ \A i \in 1..2 : p[i] \notin Strings
                    /\ h[p[1]].kind = h[p[2]].kind
                    /\ h[p[1]].kind # "object"
                    /\ Len(h[p[1]].kids) = Len(h[p[2]].kids)
PairsOf(h, p) == {<<h[p[1]].kids[i], h[p[2]].kids[i]>> : i \in DOMAIN h[p[1]].kids}
FirstPairs(s, t) == {<<s[i], t[i]>> : i \in DOMAIN s \cap DOMAIN t}

AreCompared(h, s, t, Good, bound, l) ==
    /\ l \in [0..bound -> SUBSET Good] /\ l[0] = FirstPairs(s, t)
    /\ \A n \in 1..bound : l[n] = UNION {PairsOf(h, p) : p \in {q \in l[n - 1] : CanCompare(h, q)}}
    /\ SameItems(h, s, t) => /\ Len(s) = Len(t)
                             /\ \A n \in 0..bound : \A p \in l[n] : p[1] = p[2] \/ CanCompare(h, p)

LEMMA CompareLayers ==
  ASSUME NEW h, IsFiniteSet(DOMAIN h), NEW s, NEW t, NEW Good, FirstPairs(s, t) \subseteq Good,
         \A p \in Good : CanCompare(h, p) => PairsOf(h, p) \subseteq Good
  PROVE  \E l : AreCompared(h, s, t, Good, Cardinality(DOMAIN h), l)
  <1> DEFINE bound == Cardinality(DOMAIN h)
             Comparable(p) == /\ p[1] # p[2]
                              /\ \A i \in 1..2 : p[i] \notin Strings
                              /\ h[p[1]].kind = h[p[2]].kind
                              /\ h[p[1]].kind # "object"
                              /\ Len(h[p[1]].kids) = Len(h[p[2]].kids)
             Zip(p) == {<<h[p[1]].kids[i], h[p[2]].kids[i]>> : i \in DOMAIN h[p[1]].kids}
             Steps(P) == UNION {Zip(p) : p \in {q \in P : Comparable(q)}}
             first == {<<s[i], t[i]>> : i \in DOMAIN s \cap DOMAIN t}
             Walk == CHOOSE layer : layer = [n \in 0..bound |-> IF n = 0 THEN first ELSE Steps(layer[n - 1])]
  <1>1. SameItems(h, s, t) => /\ Len(s) = Len(t)
                              /\ \A p \in UNION {Walk[n] : n \in 0..bound} : p[1] = p[2] \/ Comparable(p)
    BY DEF SameItems, Closure
  <1>2. bound \in Nat
    BY FS_CardinalityType
  <1>3. \A p : (Comparable(p) <=> CanCompare(h, p)) /\ Zip(p) = PairsOf(h, p)
    BY DEF CanCompare, PairsOf
  <1>4. first = FirstPairs(s, t)
    BY DEF FirstPairs
  <1> HIDE DEF Comparable, Zip, first, bound
  <1>5. ASSUME NEW P \in SUBSET Good PROVE Steps(P) \in SUBSET Good
    BY <1>3, <1>5
  <1>6. \A P : Steps(P) = UNION {PairsOf(h, p) : p \in {q \in P : CanCompare(h, q)}}
    BY <1>3
  <1>7. PICK F : F = [P \in SUBSET Good |-> Steps(P)]
    OBVIOUS
  <1> HIDE DEF Steps
  <1>8. F \in [SUBSET Good -> SUBSET Good] /\ first \in SUBSET Good
    BY <1>4, <1>5, <1>7
  <1>9. PICK l : AreLayers(l, F, first, bound, Good)
    BY <1>2, <1>8, LayersExist
  <1>10. l = [n \in 0..bound |-> IF n = 0 THEN first ELSE Steps(l[n - 1])]
    <2>1. ASSUME NEW n \in 0..bound, n # 0 PROVE F[l[n - 1]] = Steps(l[n - 1])
      <3>1. n - 1 \in 0..bound
        BY <1>2, <2>1
      <3>2. l[n - 1] \in SUBSET Good
        BY <1>9, <3>1 DEF AreLayers
      <3> QED BY <1>7, <3>2
    <2> QED BY <1>9, <2>1 DEF AreLayers
  <1>11. Walk = [n \in 0..bound |-> IF n = 0 THEN first ELSE Steps(Walk[n - 1])]
    BY <1>10
  <1> HIDE DEF Walk
  <1>12. /\ Walk[0] = first
         /\ \A n \in 1..bound : Walk[n] = Steps(Walk[n - 1])
    <2>1. 0 \in 0..bound /\ \A n \in 1..bound : n \in 0..bound /\ n # 0
      BY <1>2
    <2> QED BY <1>11, <2>1
  <1>13. Walk \in [0..bound -> SUBSET Good]
    <2>1. \A n \in 0..bound : Walk[n] \subseteq Good
      <3>1. Walk[0] \subseteq Good
        BY <1>8, <1>12
      <3>2. \A n \in 1..bound : Walk[n - 1] \subseteq Good => Walk[n] \subseteq Good
        BY <1>5, <1>12
      <3> QED BY <1>2, <3>1, <3>2, LayersWithin
    <2>2. DOMAIN Walk = 0..bound /\ Walk = [n \in DOMAIN Walk |-> Walk[n]]
      BY <1>11
    <2> QED BY <2>1, <2>2
  <1>14. \A n \in 1..bound : Walk[n] = UNION {PairsOf(h, p) : p \in {q \in Walk[n - 1] : CanCompare(h, q)}}
    BY <1>6, <1>12
  <1>15. SameItems(h, s, t) => /\ Len(s) = Len(t)
                               /\ \A n \in 0..bound : \A p \in Walk[n] : p[1] = p[2] \/ CanCompare(h, p)
    <2> SUFFICES ASSUME SameItems(h, s, t)
                 PROVE  /\ Len(s) = Len(t)
                        /\ \A n \in 0..bound : \A p \in Walk[n] : p[1] = p[2] \/ CanCompare(h, p)
      OBVIOUS
    <2>1. \A n \in 0..bound : Walk[n] \subseteq UNION {Walk[m] : m \in 0..bound}
      OBVIOUS
    <2> QED BY <1>1, <1>3, <2>1
  <1>16. AreCompared(h, s, t, Good, bound, Walk)
    BY <1>4, <1>12, <1>13, <1>14, <1>15 DEF AreCompared
  <1> QED BY <1>16 DEF bound

LEMMA StandsIn ==
  ASSUME NEW g \in Graphs, NEW src, NEW h, Copying(g, src, h), NEW n, NEW v, Stands(g, src, n, v),
         DOMAIN g \subseteq DOMAIN h
  PROVE  n \in DOMAIN h \cup Strings /\ v \in DOMAIN g \cup Strings
  <1>1. Clean(g) \subseteq DOMAIN g \cup Strings /\ Secret \in Strings /\ Redacted \in Strings
    BY CleanFacts DEF Strings
  <1>2. DOMAIN src \subseteq DOMAIN h /\ \A y \in DOMAIN src : src[y] \in DOMAIN g
    BY DEF Copying
  <1> QED BY <1>1, <1>2 DEF Stands

LEMMA SameClean ==
  ASSUME NEW g \in Graphs, NEW src, NEW h, Copying(g, src, h), Shaped(h),
         DOMAIN g \subseteq DOMAIN h, \A i \in DOMAIN g : h[i] = g[i],
         NEW s, NEW t, StandAll(g, src, s, t), IsSeq(t), SameItems(h, s, t)
  PROVE  Range(t) \subseteq Clean(g)
  <1> DEFINE V == DOMAIN h \cup Strings
             W == DOMAIN g \cup Strings
             Good == {p \in V \X W : Stands(g, src, p[1], p[2])}
             N == Cardinality(DOMAIN h)
             E == {p \in Good : CanCompare(h, p)}
             G == [p \in E |-> PairsOf(h, p)]
  <1>1. /\ IsFiniteSet(DOMAIN h) /\ N \in Nat /\ DOMAIN h \cap Strings = {}
        /\ DOMAIN src \subseteq DOMAIN h \ DOMAIN g /\ \A y \in DOMAIN src : src[y] \in DOMAIN g
    <2>1. IsFiniteSet(DOMAIN h) /\ N \in Nat /\ DOMAIN h = 1..N
      BY FS_CardinalityType DEF Shaped
    <2>2. Strings \cap Nat = {}
      BY ScanAssumption
    <2> QED BY <2>1, <2>2 DEF Copying
  <1>2. \A n, v : Stands(g, src, n, v) => <<n, v>> \in Good
    BY StandsIn
  <1>3. ASSUME NEW p \in Good, CanCompare(h, p)
        PROVE  /\ p = <<p[1], p[2]>> /\ p[1] \in DOMAIN src /\ p[2] = src[p[1]] /\ p[2] \in DOMAIN g
               /\ h[p[2]] = g[p[2]]
               /\ StandAll(g, src, h[p[1]].kids, g[p[2]].kids) /\ Len(h[p[1]].kids) = Len(g[p[2]].kids)
               /\ g[p[2]].kind # "object"
    <2>1. p = <<p[1], p[2]>> /\ Stands(g, src, p[1], p[2])
      OBVIOUS
    <2>2. p[1] # p[2] /\ p[1] \notin Strings
      BY <1>3 DEF CanCompare
    <2>3. p[1] \in DOMAIN src /\ src[p[1]] = p[2]
      BY <2>1, <2>2 DEF Stands, Strings
    <2>4. p[2] \in DOMAIN g /\ h[p[2]] = g[p[2]]
      BY <1>1, <2>3
    <2>5. IsCopy(g, src, h[p[1]], p[2])
      BY <2>3 DEF Copying
    <2>6. StandAll(g, src, h[p[1]].kids, g[p[2]].kids)
      BY <2>5 DEF IsCopy
    <2>7. Len(h[p[1]].kids) = Len(g[p[2]].kids) /\ g[p[2]].kind # "object"
      BY <1>3, <2>4 DEF CanCompare
    <2> QED BY <2>1, <2>3, <2>4, <2>6, <2>7
  <1>4. FirstPairs(s, t) \subseteq Good
    <2>1. \A i \in DOMAIN s \cap DOMAIN t : Stands(g, src, s[i], t[i])
      BY DEF StandAll
    <2> HIDE DEF Good
    <2> QED BY <1>2, <2>1 DEF FirstPairs
  <1> HIDE DEF Good
  <1>5. \A p \in Good : CanCompare(h, p) => PairsOf(h, p) \subseteq Good
    <2> SUFFICES ASSUME NEW p \in Good, CanCompare(h, p), NEW i \in DOMAIN h[p[1]].kids
                 PROVE  <<h[p[1]].kids[i], h[p[2]].kids[i]>> \in Good
      BY DEF PairsOf
    <2>1. Stands(g, src, h[p[1]].kids[i], h[p[2]].kids[i])
      BY <1>3 DEF StandAll
    <2> QED BY <1>2, <2>1
  <1>6. PICK l : AreCompared(h, s, t, Good, N, l)
    BY <1>1, <1>4, <1>5, CompareLayers
  <1>7. IsFiniteSet(E) /\ Cardinality(E) <= N
    <2> DEFINE D == DOMAIN src
               f == [y \in D |-> <<y, src[y]>>]
               T == {<<y, src[y]>> : y \in D}
    <2>1. IsFiniteSet(D) /\ Cardinality(D) <= N
      <3>1. D \in SUBSET DOMAIN h
        BY <1>1
      <3> HIDE DEF D
      <3> QED BY <1>1, <3>1, FS_Subset
    <2>2. f \in Surjection(D, T)
      BY DEF Surjection
    <2> HIDE DEF D
    <2>3. IsFiniteSet(T) /\ Cardinality(T) <= Cardinality(D)
      <3> HIDE DEF f, T
      <3> QED BY <2>1, <2>2, FS_Surjection
    <2>4. E \in SUBSET T
      <3> SUFFICES ASSUME NEW p \in E PROVE p \in T
        OBVIOUS
      <3>1. p = <<p[1], p[2]>> /\ p[1] \in DOMAIN src /\ p[2] = src[p[1]]
        BY <1>3
      <3> QED BY <3>1 DEF D
    <2> HIDE DEF T, E
    <2>5. IsFiniteSet(E) /\ Cardinality(E) <= Cardinality(T)
      BY <2>3, <2>4, FS_Subset
    <2>6. Cardinality(E) \in Nat /\ Cardinality(T) \in Nat /\ Cardinality(D) \in Nat
      BY <2>1, <2>3, <2>5, FS_CardinalityType
    <2> QED BY <1>1, <2>1, <2>3, <2>5, <2>6
  <1>8. LedBy(E, G, N, l)
    <2> SUFFICES ASSUME NEW n \in 1..N PROVE l[n] = UNION {G[p] : p \in l[n - 1] \cap E}
      BY DEF LedBy
    <2>1. n - 1 \in 0..N
      BY <1>1
    <2>2. /\ l[n] = UNION {PairsOf(h, p) : p \in {q \in l[n - 1] : CanCompare(h, q)}}
          /\ l[n - 1] \subseteq Good
      BY <1>6, <2>1 DEF AreCompared
    <2>3. {q \in l[n - 1] : CanCompare(h, q)} = l[n - 1] \cap E
      BY <2>2
    <2>4. \A p \in l[n - 1] \cap E : G[p] = PairsOf(h, p)
      OBVIOUS
    <2> HIDE DEF G, E, N
    <2> QED BY <2>2, <2>3, <2>4
  <1>9. \A p \in E : G[p] = PairsOf(h, p)
    OBVIOUS
  <1> HIDE DEF G
  <1>10. PICK Q : ClosedWithin(E, G, N, l, Q)
    <2> HIDE DEF E, N
    <2> QED BY <1>1, <1>7, <1>8, Saturates
  <1>11. /\ Len(s) = Len(t)
         /\ \A p \in Q : p \in Good /\ (p[1] = p[2] \/ CanCompare(h, p))
         /\ FirstPairs(s, t) \subseteq Q
    <2>1. /\ l[0] = FirstPairs(s, t) /\ Len(s) = Len(t)
          /\ \A n \in 0..N : l[n] \subseteq Good /\ \A p \in l[n] : p[1] = p[2] \/ CanCompare(h, p)
      BY <1>6 DEF AreCompared
    <2>2. l[0] \subseteq Q /\ Q \subseteq UNION {l[n] : n \in 0..N}
      BY <1>10 DEF ClosedWithin
    <2> HIDE DEF N
    <2> QED BY <2>1, <2>2
  <1>12. \A p \in Q : CanCompare(h, p) => PairsOf(h, p) \subseteq Q
    <2> TAKE p \in Q
    <2> SUFFICES ASSUME CanCompare(h, p) PROVE PairsOf(h, p) \subseteq Q
      OBVIOUS
    <2>1. p \in Q \cap E
      BY <1>11
    <2>2. G[p] \subseteq Q
      BY <1>10, <2>1 DEF ClosedWithin
    <2> QED BY <1>9, <2>1, <2>2
  <1> HIDE DEF E, N
  <1> DEFINE D == {p[2] : p \in Q} \cup Clean(g)
  <1>13. ASSUME NEW p \in Q, p[1] = p[2] PROVE p[2] \in Clean(g)
    <2>1. p \in Good
      BY <1>11
    <2>2. Stands(g, src, p[2], p[2])
      BY <1>13, <2>1 DEF Good
    <2>3. p[2] \in DOMAIN src => src[p[2]] # p[2]
      BY <1>1
    <2> QED BY <2>2, <2>3, ScanAssumption DEF Stands
  <1>14. D \in SUBSET (DOMAIN g \cup Strings)
    <2>1. \A p \in Q : p[2] \in DOMAIN g \cup Strings
      BY <1>11 DEF Good
    <2> QED BY <2>1, CleanFacts
  <1>15. IsClean(g, D)
    <2>1. Secret \notin D
      <3>1. ASSUME NEW p \in Q, p[2] = Secret PROVE FALSE
        <4>1. CASE p[1] = p[2]
          BY <1>13, <3>1, <4>1, CleanFacts
        <4>2. CASE CanCompare(h, p)
          BY <3>1, <4>2 DEF CanCompare, Strings
        <4> QED BY <1>11, <3>1, <4>1, <4>2
      <3> QED BY <3>1, CleanFacts
    <2>2. ASSUME NEW i \in D \ Strings PROVE ValuesOf(g[i]) \subseteq D
      <3>1. CASE i \in Clean(g)
        BY <2>2, <3>1, CleanFacts DEF IsClean
      <3>2. CASE i \notin Clean(g)
        <4>1. PICK p \in Q : i = p[2]
          BY <2>2, <3>2
        <4>2. p \in Good /\ CanCompare(h, p)
          BY <1>11, <1>13, <3>2, <4>1
        <4>3. /\ i \in DOMAIN g /\ h[i] = g[i] /\ g[i].kind # "object"
              /\ StandAll(g, src, h[p[1]].kids, g[i].kids) /\ Len(h[p[1]].kids) = Len(g[i].kids)
          BY <1>3, <4>1, <4>2
        <4>4. g[i].extras = << >> /\ IsSeq(g[i].kids)
          BY <4>3, GraphFacts, HeldInGraph DEF WellFormed
        <4>5. Range(g[i].extras) = {}
          BY <4>4 DEF Range
        <4>6. DOMAIN h[p[1]].kids = DOMAIN g[i].kids
          <5>1. IsSeq(h[p[1]].kids)
            BY <4>3 DEF StandAll
          <5>2. \A z : IsSeq(z) => DOMAIN z = 1..Len(z)
            BY IsSeqFacts
          <5> QED BY <4>3, <4>4, <5>1, <5>2
        <4>7. ASSUME NEW k \in DOMAIN g[i].kids PROVE g[i].kids[k] \in D
          <5> DEFINE q == <<h[p[1]].kids[k], h[p[2]].kids[k]>>
          <5>1. q \in PairsOf(h, p)
            BY <4>6, <4>7 DEF PairsOf
          <5>2. q \in Q
            BY <1>12, <4>2, <5>1
          <5>3. q[2] = g[i].kids[k]
            BY <4>1, <4>3
          <5> QED BY <5>2, <5>3
        <4>8. Range(g[i].kids) \subseteq D
          BY <4>7 DEF Range
        <4> QED BY <4>5, <4>8 DEF ValuesOf
      <3> QED BY <3>1, <3>2
    <2> QED BY <2>1, <2>2 DEF IsClean
  <1>16. D \subseteq Clean(g)
    BY <1>14, <1>15, CleanFacts
  <1>17. ASSUME NEW i \in DOMAIN t PROVE t[i] \in Clean(g)
    <2>1. i \in DOMAIN s
      <3>1. IsSeq(s)
        BY DEF StandAll
      <3>2. \A z : IsSeq(z) => DOMAIN z = 1..Len(z)
        BY IsSeqFacts
      <3> QED BY <1>11, <1>17, <3>1, <3>2
    <2>2. <<s[i], t[i]>> \in Q
      BY <1>11, <1>17, <2>1 DEF FirstPairs
    <2>3. t[i] \in D
      <3>1. <<s[i], t[i]>>[2] = t[i]
        OBVIOUS
      <3> QED BY <2>2, <3>1
    <2> QED BY <1>16, <2>3
  <1> QED BY <1>17 DEF Range

(***************************************************************************)
(* Calls and copies.                                                       *)
(***************************************************************************)

(* No two calls have the same copy: they are for different containers.     *)
LEMMA CopiesApart ==
  ASSUME NEW g, NEW c, NEW T, NEW s, Calls(g, c, T, s), Len(s) > 0,
         NEW src, NEW h, FramesCopy(g, src, h, s)
  PROVE  \A k \in 1..(Len(s) - 1) : s[k].copy # s[Len(s)].copy
  <1> DEFINE m == Len(s)
  <1>1. m \in 1..m /\ m \in Nat
    BY IsSeqFacts DEF Calls
  <1> SUFFICES ASSUME NEW k \in 1..(m - 1), s[k].copy = s[m].copy PROVE FALSE
    OBVIOUS
  <1>2. k \in 1..m
    BY <1>1
  <1>3. src[s[k].copy] = s[k].node /\ src[s[m].copy] = s[m].node
    BY <1>1, <1>2 DEF FramesCopy, FrameCopies
  <1>4. s[m].node \notin Running(s, m - 1)
    BY <1>1 DEF Calls, FrameOK, CallOK
  <1> QED BY <1>3, <1>4 DEF Running

LEMMA TopCopies ==
  ASSUME NEW g, NEW c, NEW T, NEW s, Calls(g, c, T, s), Len(s) > 0,
         NEW src, NEW h, FramesCopy(g, src, h, s), NEW sr2, Grown(src, sr2),
         NEW j, SameLengths(src, h, j, {s[Len(s)].copy}),
         NEW e, NEW t, TopIs(s, e, t), FrameCopies(g, sr2, j, e)
  PROVE  FramesCopy(g, sr2, j, t)
  <1> DEFINE m == Len(s)
             touched == {s[m].copy}
  <1>1. m \in Nat /\ Len(t) = m /\ \A k \in 1..m : k \in 1..(m - 1) \/ k = m
    BY IsSeqFacts DEF Calls, TopIs
  <1>2. ASSUME NEW k \in 1..(m - 1) PROVE FrameCopies(g, sr2, j, t[k])
    <2>1. t[k] = s[k] /\ s[k].copy \notin touched /\ FrameCopies(g, src, h, s[k])
      <3>1. k \in 1..m
        BY <1>1
      <3>2. s[k].copy # s[m].copy
        BY CopiesApart
      <3> QED BY <3>1, <3>2 DEF TopIs, FramesCopy
    <2> HIDE DEF touched, m
    <2>2. FrameCopies(g, sr2, j, s[k])
      BY <2>1, FrameCopiesLasts DEF touched, m
    <2> QED BY <2>1, <2>2
  <1>3. FrameCopies(g, sr2, j, t[m])
    BY DEF TopIs
  <1> QED BY <1>1, <1>2, <1>3 DEF FramesCopy

LEMMA PushCopies ==
  ASSUME NEW g, NEW s, IsSeq(s), NEW src, NEW h, FramesCopy(g, src, h, s),
         NEW sr2, Grown(src, sr2), NEW j, SameLengths(src, h, j, {}),
         NEW e, FrameCopies(g, sr2, j, e)
  PROVE  FramesCopy(g, sr2, j, Append(s, e))
  <1> DEFINE m == Len(s)
             t == Append(s, e)
             touched == {}
  <1>1. m \in Nat /\ Len(t) = m + 1 /\ t[m + 1] = e /\ \A k \in 1..m : t[k] = s[k]
    BY IsSeqPush, IsSeqFacts
  <1>2. ASSUME NEW k \in 1..m PROVE FrameCopies(g, sr2, j, s[k])
    <2>1. FrameCopies(g, src, h, s[k]) /\ s[k].copy \notin touched /\ SameLengths(src, h, j, touched)
      BY DEF FramesCopy
    <2> HIDE DEF touched
    <2> QED BY <2>1, FrameCopiesLasts
  <1> HIDE DEF t, m
  <1>3. \A k \in 1..(m + 1) : k \in 1..m \/ k = m + 1
    BY <1>1
  <1>4. \A k \in 1..Len(t) : FrameCopies(g, sr2, j, t[k])
    BY <1>1, <1>2, <1>3
  <1> QED BY <1>4 DEF FramesCopy, t

LEMMA PopCopies ==
  ASSUME NEW g, NEW c, NEW T, NEW s, Calls(g, c, T, s), Len(s) > 0,
         NEW src, NEW h, FramesCopy(g, src, h, s), NEW sr2, Grown(src, sr2),
         NEW j, SameLengths(src, h, j, {s[Len(s)].copy}),
         NEW b, b = SubSeq(s, 1, Len(s) - 1)
  PROVE  FramesCopy(g, sr2, j, b)
  <1> DEFINE m == Len(s)
             touched == {s[m].copy}
  <1>1. m \in Nat /\ Len(b) = m - 1 /\ \A k \in 1..(m - 1) : b[k] = s[k] /\ k \in 1..m
    BY IsSeqFacts, IsSeqFront DEF Calls
  <1>2. ASSUME NEW k \in 1..(m - 1) PROVE FrameCopies(g, sr2, j, s[k])
    <2>1. s[k].copy \notin touched /\ FrameCopies(g, src, h, s[k])
      BY <1>1, CopiesApart DEF FramesCopy
    <2> HIDE DEF touched, m
    <2> QED BY <2>1, FrameCopiesLasts DEF touched, m
  <1> QED BY <1>1, <1>2 DEF FramesCopy

(* A call takes what stands for its next value.                            *)
LEMMA AcceptCopies ==
  ASSUME NEW g \in Graphs, NEW c, NEW T, NEW s, Calls(g, c, T, s), Len(s) > 0,
         NEW src, NEW h, Shaped(h), Copying(g, src, h), FramesCopy(g, src, h, s),
         NEW f, f = s[Len(s)], Len(f.values) # Len(FrameItems(g, f)), heap[f.node] = g[f.node],
         NEW value, NEW n, Stands(g, src, value, FrameItems(g, f)[Len(f.values) + 1]),
         Accept(s, h, value, n)
  PROVE  Copying(g, src, heap') /\ FramesCopy(g, src, heap', stack')
  <1> DEFINE e == [f EXCEPT !.values = Append(@, value), !.partCount = @ + n]
             m == Len(s)
             on == Running(s, m - 1)
             plain == g[f.node].kind \in {"dict", "list"}
             x == [h[f.copy] EXCEPT !.kids = Append(@, value)]
  <1>1. IsSeq(s) /\ m \in Nat /\ m > 0 /\ FrameOK(g, c, T, on, f) /\ FrameCopies(g, src, h, f)
    BY IsSeqFacts DEF Calls, FramesCopy
  <1>2. /\ f.copy \in DOMAIN src /\ src[f.copy] = f.node /\ f.copy # None
        /\ f.copy \in DOMAIN h /\ DOMAIN h[f.copy] = ContainerFields
    <2>1. f.copy \in DOMAIN src /\ src[f.copy] = f.node /\ f.copy \in DOMAIN h
      BY <1>1 DEF FrameCopies, Copying
    <2>2. DOMAIN h = 1..Cardinality(DOMAIN h) /\ Cardinality(DOMAIN h) \in Nat
          /\ DOMAIN h[f.copy] = ContainerFields
      BY <2>1, FS_CardinalityType DEF Shaped
    <2> QED BY <2>1, <2>2 DEF None
  <1>3. stack' = [s EXCEPT ![m] = e] /\ heap' = (IF plain THEN [h EXCEPT ![f.copy] = x] ELSE h)
    BY <1>2 DEF Accept, Made
  <1>4. /\ e.node = f.node /\ e.part = f.part /\ e.copy = f.copy
        /\ e.rebuilt = f.rebuilt /\ e.values = Append(f.values, value)
    BY <1>1 DEF FrameOK, CallOK, FrameFields
  <1>5. IsSeq(f.values) /\ f.node \in DOMAIN g /\ f.part \in Parts /\ f.path \in FieldPaths
        /\ Len(f.values) <= Len(FrameItems(g, f))
    BY <1>1 DEF FrameOK, CallOK
  <1> HIDE DEF e, on
  <1>6. Len(f.values) + 1 \in DOMAIN FrameItems(g, f)
    <2> DEFINE items == Items(g, f.node, f.part)
    <2>1. items \in Seq(DOMAIN g \cup Strings) /\ Len(items) \in Nat /\ Len(f.values) \in Nat
      BY <1>5, ItemsFacts, IsSeqFacts
    <2>2. DOMAIN items = 1..Len(items)
      BY <2>1, IsSeqOf
    <2>3. Len(f.values) <= Len(items) /\ Len(f.values) # Len(items)
      BY <1>5 DEF FrameItems
    <2> HIDE DEF items
    <2>4. Len(f.values) + 1 \in DOMAIN items
      BY <2>1, <2>2, <2>3
    <2> QED BY <2>4 DEF FrameItems, items
  <1>7. StandAll(g, src, e.values, FrameItems(g, f)) /\ Len(e.values) = Len(f.values) + 1
    BY <1>1, <1>4, <1>6, StandAppend DEF FrameCopies
  <1>8. FrameItems(g, e) = FrameItems(g, f)
    BY <1>4 DEF FrameItems
  <1>9. TopIs(s, e, stack')
    BY <1>1, <1>3, TopReplaced
  <1>10. Grown(src, src)
    BY DEF Grown
  <1>11. CASE plain
    <2>1. f.part = "kids" /\ FrameItems(g, f) = g[f.node].kids
      <3>1. g[f.node].extras = << >>
        BY <1>5, <1>11, GraphFacts DEF WellFormed
      <3> QED BY <1>1, <1>5, <3>1 DEF FrameOK, CallOK, Parts, FrameItems, Items
    <2>2. /\ x.kids = Append(h[f.copy].kids, value) /\ x.extras = h[f.copy].extras
      BY <1>2 DEF ContainerFields
    <2>3. heap' = [h EXCEPT ![f.copy] = x]
      BY <1>3, <1>11
    <2> HIDE DEF x
    <2>4. IsCopy(g, src, h[f.copy], f.node) /\ Len(h[f.copy].kids) = Len(f.values)
      BY <1>1, <1>2, <1>11 DEF Copying, FrameCopies
    <2>5. StandAll(g, src, x.kids, g[f.node].kids) /\ Len(x.kids) = Len(f.values) + 1
      <3> DEFINE old == h[f.copy].kids
                 t == g[f.node].kids
      <3>1. StandAll(g, src, old, t) /\ Len(old) = Len(f.values)
        BY <2>4 DEF IsCopy
      <3>2. Len(old) + 1 \in DOMAIN t /\ Stands(g, src, value, t[Len(old) + 1])
        BY <1>6, <2>1, <3>1
      <3> HIDE DEF old, t
      <3>3. StandAll(g, src, Append(old, value), t) /\ Len(Append(old, value)) = Len(old) + 1
        BY <3>1, <3>2, StandAppend
      <3> QED BY <2>2, <3>1, <3>3 DEF old, t
    <2>6. IsCopy(g, src, x, src[f.copy])
      BY <1>2, <2>2, <2>4, <2>5 DEF IsCopy
    <2>7. Copying(g, src, heap') /\ SameLengths(src, h, heap', {f.copy}) /\ heap'[f.copy] = x
      BY <1>2, <2>3, <2>6, CopyAssigned
    <2>8. FrameCopies(g, src, heap', e)
      BY <1>2, <1>4, <1>7, <1>8, <2>1, <2>5, <2>7 DEF FrameCopies
    <2> QED BY <1>9, <1>10, <2>7, <2>8, TopCopies
  <1>12. CASE ~plain
    <2>1. heap' = h
      BY <1>3, <1>12
    <2>2. SameLengths(src, h, heap', {s[Len(s)].copy})
      BY <2>1 DEF SameLengths
    <2>3. FrameCopies(g, src, heap', e)
      BY <1>1, <1>2, <1>4, <1>7, <1>8, <1>12, <2>1 DEF FrameCopies
    <2> QED BY <1>9, <1>10, <2>1, <2>2, <2>3, TopCopies
  <1> QED BY <1>11, <1>12

(* A call begins with a blank copy.                                        *)
LEMMA EnterCopies ==
  ASSUME NEW g \in Graphs, NEW s, IsSeq(s), NEW src, Copying(g, src, heap), FramesCopy(g, src, heap, s),
         Shaped(heap), DOMAIN g \subseteq DOMAIN heap, \A i \in DOMAIN g : heap[i] = g[i],
         NEW node \in DOMAIN g, NEW path, Enter(node, path, s), pass' = "redact",
         NEW on, Remembers(src, memo, on)
  PROVE  \E sr2 : /\ Copying(g, sr2, heap') /\ FramesCopy(g, sr2, heap', stack')
                  /\ Remembers(sr2, memo', on \cup {node})
  <1> DEFINE e == Frame(node, path, FirstPart(node), Fresh)
             x == Blank(CopyKind(node))
  <1>1. heap' = Add(x) /\ stack' = Append(s, e) /\ memo' = Bind(memo, node, Fresh)
    BY DEF Enter
  <1>2. DOMAIN x = ContainerFields /\ x.kids = << >> /\ x.extras = << >>
    BY DEF Blank, ContainerFields
  <1>3. /\ e.node = node /\ e.copy = Fresh /\ e.values = << >> /\ e.rebuilt = FALSE
        /\ e.part = "extras" => g[node].kids = << >>
    BY DEF Frame, FirstPart, HasRebuildState
  <1> HIDE DEF x, e
  <1>4. Extended(heap, Fresh, x, heap')
    BY <1>1, <1>2, AddShaped
  <1>5. IsCopy(g, src, x, node)
    BY <1>2, StandNone DEF IsCopy
  <1>6. PICK sr2 : /\ Grown(src, sr2) /\ Copying(g, sr2, heap') /\ Fresh \in DOMAIN sr2 /\ sr2[Fresh] = node
                   /\ SameLengths(src, heap, heap', {})
    BY <1>4, <1>5, CopyAdded
  <1>7. FrameCopies(g, sr2, heap', e)
    <2>1. StandAll(g, sr2, e.values, FrameItems(g, e)) /\ Len(e.values) = 0
      BY <1>3, StandNone
    <2>2. Len(heap'[Fresh].kids) = 0
      BY <1>2, <1>4, StandNone DEF Extended
    <2>3. g[node].kids = << >> => Range(g[node].kids) \subseteq Clean(g)
      BY StandNone, EmptySeq DEF Range
    <2> QED BY <1>3, <1>6, <2>1, <2>2, <2>3 DEF FrameCopies
  <1>8. FramesCopy(g, sr2, heap', stack')
    BY <1>1, <1>6, <1>7, PushCopies
  <1>9. Remembers(sr2, memo', on \cup {node})
    <2>1. \A y \in on \cup {node} : y \in DOMAIN memo' /\ memo'[y] = (IF y = node THEN Fresh ELSE memo[y])
      BY <1>1 DEF Bind, Remembers
    <2> QED BY <1>6, <2>1 DEF Remembers, Grown
  <1> QED BY <1>6, <1>8, <1>9

(* What stands for the original after a step.                              *)
Stood(src) ==
    /\ pass = "redact" => /\ Copying(original, src, heap) /\ FramesCopy(original, src, heap, stack)
                          /\ Remembers(src, memo, seen)
    /\ pass = "done" /\ config.redact => /\ Copying(original, src, heap)
                                         /\ Stands(original, src, answer.payload, Root)

LEMMA ReturnCopies ==
  ASSUME TallyInv, pass = "redact", Unlisted(config), NEW T, Tallied(T), NEW h, Shaped(h),
         NEW src, Copying(original, src, h), FramesCopy(original, src, h, Below), Remembers(src, memo, On),
         NEW value, NEW count, Return(h, value, count), Stands(original, src, value, Top.node),
         count = T[<<Top.node, Top.path, On>>]
  PROVE  Stood(src)'
  <1> DEFINE g == original
             c == config
             b == Below
             n == Len(stack)
  <1>1. /\ UntouchedInv /\ CountInv /\ g \in Graphs /\ IsTally(g, c, T) /\ c.redact
        /\ Calls(g, c, T, stack) /\ IsSeq(stack) /\ n > 0 /\ n \in Nat /\ seen = Running(stack, n)
    BY Unchanging, IsSeqFacts DEF TallyInv, CountInv, Tallied, Calls
  <1>2. original' = original /\ config' = config
    BY DEF Return
  <1>3. /\ Calls(g, c, T, b) /\ Len(b) = n - 1 /\ On = seen \ {Top.node}
        /\ Len(b) > 0 => CalledBy(g, b[Len(b)], Top)
    BY <1>1, CallsPop DEF Below, Top, On
  <1>4. CASE n > 1
    <2> DEFINE f == b[Len(b)]
               k == Len(f.values) + 1
    <2>1. /\ Accept(b, h, value, count) /\ pass' = pass /\ seen' = On
          /\ memo' = memo \/ memo' = Restrict(memo, DOMAIN memo \ {Top.node})
      BY <1>3, <1>4 DEF Return, Released, Unmark
    <2>2. Len(b) > 0
      BY <1>1, <1>3, <1>4
    <2>3. /\ Len(f.values) < Len(FrameItems(g, f)) /\ FrameItems(g, f)[k] = Top.node
      BY <1>3, <2>2 DEF CalledBy
    <2>4. IsSeq(f.values) /\ IsSeq(b) /\ f.node \in DOMAIN g /\ f.part \in Parts /\ f.path \in FieldPaths
      <3>1. IsSeq(b) /\ \A i \in 1..Len(b) : FrameOK(g, c, T, Running(b, i - 1), b[i])
        BY <1>3 DEF Calls
      <3>2. Len(b) \in 1..Len(b)
        BY <2>2, <3>1, IsSeqFacts
      <3>3. FrameOK(g, c, T, Running(b, Len(b) - 1), f)
        BY <3>1, <3>2
      <3> QED BY <3>1, <3>3 DEF FrameOK, CallOK
    <2>5. Len(f.values) # Len(FrameItems(g, f))
      <3>1. Len(f.values) \in Nat /\ Len(FrameItems(g, f)) \in Nat
        BY <1>1, <2>4, IsSeqFacts, ItemsFacts DEF FrameItems
      <3> QED BY <2>3, <3>1
    <2>6. heap[f.node] = g[f.node]
      BY <1>1, <2>4, Unchanging DEF g
    <2> HIDE DEF f
    <2>7. Copying(g, src, heap') /\ FramesCopy(g, src, heap', stack')
      <3>1. f = b[Len(b)] /\ Stands(g, src, value, FrameItems(g, f)[Len(f.values) + 1])
        BY <2>3 DEF f
      <3>2. Copying(g, src, h) /\ FramesCopy(g, src, h, b)
        OBVIOUS
      <3> HIDE DEF g, c, b
      <3> QED BY <1>1, <1>3, <2>1, <2>2, <2>5, <2>6, <3>1, <3>2, AcceptCopies
    <2>8. Remembers(src, memo', On)
      <3>1. \A y \in On : y \in DOMAIN memo' /\ memo'[y] = memo[y]
        BY <1>3, <2>1 DEF Remembers, Restrict
      <3> QED BY <3>1 DEF Remembers
    <2>9. /\ pass' = "redact" /\ Copying(original', src, heap') /\ FramesCopy(original', src, heap', stack')
          /\ Remembers(src, memo', seen')
      BY <1>2, <2>1, <2>7, <2>8
    <2> QED BY <2>9 DEF Stood
  <1>5. CASE ~(n > 1)
    <2>1. /\ pass' = "done" /\ heap' = h
          /\ answer' = Answer(count, IF count = 0 THEN Root ELSE value)
      BY <1>5 DEF Return
    <2>2. n = 1
      <3>1. n \in Nat /\ n > 0 /\ ~(n > 1)
        BY <1>1, <1>5
      <3> HIDE DEF n
      <3> QED BY <3>1
    <2>3. Top.node = Root /\ Top.path = << >> /\ On = {}
      <3>1. Top.node = Root /\ Top.path = << >>
        BY <1>1, <2>2 DEF Calls, Top
      <3>2. On = {}
        BY <2>2 DEF Running, On
      <3> QED BY <3>1, <3>2
    <2>4. answer'.payload = IF count # 0 THEN value ELSE Root
      BY <1>1, <2>1 DEF Answer
    <2>5. Stands(g, src, answer'.payload, Root)
      <3>1. CASE count = 0
        <4>1. Root \in Clean(g)
          BY <1>1, <2>3, <3>1, RootClean DEF GraphCount
        <4> QED BY <2>4, <3>1, <4>1 DEF Stands
      <3>2. CASE count # 0
        BY <2>3, <2>4, <3>2
      <3> QED BY <3>1, <3>2
    <2>6. Copying(original', src, heap') /\ Stands(original', src, answer'.payload, Root)
      BY <1>2, <2>1, <2>5
    <2> QED BY <2>1, <2>6 DEF Stood
  <1> QED BY <1>4, <1>5

LEMMA NodeClean ==
  ASSUME NEW g \in Graphs, NEW node \in DOMAIN g,
         Range(g[node].kids) \subseteq Clean(g), Range(g[node].extras) \subseteq Clean(g)
  PROVE  node \in Clean(g)
  <1> DEFINE C == Clean(g) \cup {node}
  <1>1. IsClean(g, Clean(g)) /\ Clean(g) \subseteq DOMAIN g \cup Strings
    BY CleanFacts
  <1>2. Secret \notin C /\ C \in SUBSET (DOMAIN g \cup Strings)
    BY <1>1, GraphFacts DEF IsClean
  <1>3. \A i \in C \ Strings : ValuesOf(g[i]) \subseteq C
    BY <1>1 DEF IsClean, ValuesOf
  <1> HIDE DEF C
  <1>4. C \subseteq Clean(g)
    BY <1>2, <1>3, CleanFacts DEF IsClean
  <1> QED BY <1>4 DEF C

LEMMA NoneHeld == Range(<< >>) = {}
  BY EmptySeq DEF Range

(* A call that is making its copy.                                         *)
CopyingNow(T, src) ==
    /\ original \in Graphs /\ IsTally(original, config, T) /\ Calls(original, config, T, stack)
    /\ IsSeq(stack) /\ Len(stack) \in Nat /\ Len(stack) > 0 /\ Top = stack[Len(stack)]
    /\ Shaped(heap) /\ DOMAIN original \subseteq DOMAIN heap /\ \A i \in DOMAIN original : heap[i] = original[i]
    /\ Copying(original, src, heap) /\ FramesCopy(original, src, heap, stack)
    /\ Remembers(src, memo, seen) /\ Remembers(src, memo, On)
    /\ FrameCopies(original, src, heap, Top) /\ IsCopy(original, src, heap[Top.copy], Top.node)
    /\ Top.copy \in DOMAIN src /\ src[Top.copy] = Top.node /\ Top.copy \in DOMAIN heap
    /\ DOMAIN heap[Top.copy] = ContainerFields
    /\ Top.node \in DOMAIN original /\ heap[Top.node] = original[Top.node] /\ On \in SUBSET DOMAIN original
    /\ Top.path \in FieldPaths /\ DOMAIN Top = FrameFields
    /\ seen \in SUBSET DOMAIN original /\ (~Exhausted(Top) => AtChild(original, Top))
    /\ IsSeq(original[Top.node].kids)

LEMMA NowCopying ==
  ASSUME TallyInv, pass = "redact", NEW T, Tallied(T), NEW R,
         Rebuilding(original, config, T, R, heap, stack), NEW src, Stood(src)
  PROVE  CopyingNow(T, src)
  <1>1. RedactFacts(T, R)
    BY Redacting
  <1>2. /\ Copying(original, src, heap) /\ FramesCopy(original, src, heap, stack)
        /\ Remembers(src, memo, seen)
    BY DEF Stood
  <1>3. /\ original \in Graphs /\ IsTally(original, config, T) /\ Calls(original, config, T, stack)
        /\ IsSeq(stack) /\ Len(stack) \in Nat /\ Len(stack) > 0 /\ Top = stack[Len(stack)]
        /\ Shaped(heap) /\ DOMAIN original \subseteq DOMAIN heap
        /\ Top.node \in DOMAIN original /\ heap[Top.node] = original[Top.node]
        /\ On \in SUBSET DOMAIN original /\ seen = On \cup {Top.node}
        /\ FrameOK(original, config, T, On, Top) /\ Top.path \in FieldPaths
        /\ (~Exhausted(Top) => AtChild(original, Top)) /\ seen \in SUBSET DOMAIN original
    BY <1>1 DEF RedactFacts
  <1>4. \A i \in DOMAIN original : heap[i] = original[i]
    BY Unchanging DEF TallyInv
  <1>5. FrameCopies(original, src, heap, Top)
    <2>1. Len(stack) \in 1..Len(stack)
      BY <1>3
    <2> QED BY <1>2, <1>3, <2>1 DEF FramesCopy
  <1>6. Top.copy \in DOMAIN src /\ src[Top.copy] = Top.node
    BY <1>5 DEF FrameCopies
  <1>7. Top.copy \in DOMAIN heap /\ IsCopy(original, src, heap[Top.copy], Top.node)
    BY <1>2, <1>6 DEF Copying
  <1>8. DOMAIN heap[Top.copy] = ContainerFields /\ DOMAIN Top = FrameFields
    BY <1>3, <1>7 DEF Shaped, FrameOK, CallOK
  <1>9. Remembers(src, memo, On)
    BY <1>2, <1>3 DEF Remembers
  <1>10. IsSeq(original[Top.node].kids)
    BY <1>3, HeldInGraph
  <1> QED BY <1>2, <1>3, <1>4, <1>5, <1>6, <1>7, <1>8, <1>9, <1>10 DEF CopyingNow

LEMMA AcceptStood ==
  ASSUME TallyInv, pass = "redact", NEW T, NEW src, CopyingNow(T, src), ~Exhausted(Top),
         NEW value, NEW n, Accept(stack, heap, value, n),
         Stands(original, src, value, Child),
         UNCHANGED <<original, config, pass, seen, memo>>
  PROVE  Stood(src)'
  <1> DEFINE g == original
             c == config
             s == stack
             f == Top
             h == heap
  <1>1. /\ g \in Graphs /\ Calls(g, c, T, s) /\ Len(s) > 0 /\ f = s[Len(s)]
        /\ heap[f.node] = g[f.node] /\ AtChild(g, f)
        /\ Shaped(h) /\ Copying(g, src, h) /\ FramesCopy(g, src, h, s) /\ Remembers(src, memo, seen)
    BY DEF CopyingNow
  <1>2. /\ Len(f.values) # Len(FrameItems(g, f))
        /\ Stands(g, src, value, FrameItems(g, f)[Len(f.values) + 1])
    BY <1>1 DEF AtChild
  <1>3. Accept(s, h, value, n)
    OBVIOUS
  <1> HIDE DEF g, c, s, f, h
  <1>4. Copying(g, src, heap') /\ FramesCopy(g, src, heap', stack')
    BY <1>1, <1>2, <1>3, AcceptCopies
  <1>5. /\ Copying(original', src, heap') /\ FramesCopy(original', src, heap', stack')
        /\ Remembers(src, memo', seen') /\ pass' = "redact"
    BY <1>1, <1>4 DEF g
  <1> QED BY <1>5 DEF Stood

LEMMA StringStood ==
  ASSUME TallyInv, pass = "redact", Unlisted(config), NEW T, NEW src, CopyingNow(T, src), ScanString
  PROVE  Stood(src)'
  <1> DEFINE hit == Child = Secret /\ ShouldScan(ChildPath)
             value == IF hit THEN Redacted ELSE Child
  <1>1. /\ ~Exhausted(Top) /\ Child \in Strings /\ UNCHANGED <<original, config, pass, seen, memo>>
        /\ \E n : Accept(stack, heap, value, n)
    BY DEF ScanString, Scanning
  <1>2. ShouldScan(ChildPath)
    BY DEF ShouldScan, Denied, Unlisted
  <1>3. original \in Graphs
    BY DEF CopyingNow
  <1>4. Stands(original, src, value, Child)
    <2>1. CASE Child = Secret
      BY <1>2, <2>1 DEF Stands
    <2>2. CASE Child = Redacted
      BY <1>3, <2>2, ScanAssumption, CleanFacts DEF Stands
    <2> QED BY <1>1, <2>1, <2>2 DEF Strings
  <1> HIDE DEF value
  <1> QED BY <1>1, <1>4, AcceptStood

LEMMA ReferenceStood ==
  ASSUME TallyInv, pass = "redact", NEW T, NEW src, CopyingNow(T, src), BackReference
  PROVE  Stood(src)'
  <1>1. /\ ~Exhausted(Top) /\ Child \in seen /\ UNCHANGED <<original, config, pass, seen, memo>>
        /\ Accept(stack, heap, StandIn(Child), 0)
    BY DEF BackReference, Enterable, Scanning
  <1>2. Stands(original, src, StandIn(Child), Child)
    <2>1. Remembers(src, memo, seen)
      BY DEF CopyingNow
    <2> QED BY <1>1, <2>1 DEF Remembers, StandIn, Stands
  <1> QED BY <1>1, <1>2, AcceptStood

LEMMA DescendStood ==
  ASSUME TallyInv, pass = "redact", NEW T, NEW src, CopyingNow(T, src), Descend
  PROVE  \E U : Stood(U)'
  <1>1. /\ UNCHANGED <<original, config, pass>> /\ Enter(Child, ChildPath, stack)
        /\ ~Exhausted(Top) /\ Child \notin Strings
    BY DEF Descend, Enterable, Scanning
  <1> DEFINE g == original
             s == stack
             node == Child
             path == ChildPath
             on == seen
  <1>2. /\ g \in Graphs /\ IsSeq(s) /\ Copying(g, src, heap) /\ FramesCopy(g, src, heap, s)
        /\ Shaped(heap) /\ DOMAIN g \subseteq DOMAIN heap /\ \A i \in DOMAIN g : heap[i] = g[i]
        /\ Remembers(src, memo, on)
    BY DEF CopyingNow
  <1>3. node \in DOMAIN g
    BY <1>1 DEF CopyingNow, AtChild
  <1>4. Enter(node, path, s) /\ pass' = "redact"
    BY <1>1
  <1>5. seen' = on \cup {node}
    BY <1>1 DEF Enter, Marked
  <1> HIDE DEF g, s, node, path, on
  <1>6. PICK U : /\ Copying(g, U, heap') /\ FramesCopy(g, U, heap', stack')
                 /\ Remembers(U, memo', on \cup {node})
    BY <1>2, <1>3, <1>4, EnterCopies
  <1>7. /\ Copying(original', U, heap') /\ FramesCopy(original', U, heap', stack')
        /\ Remembers(U, memo', seen')
    BY <1>1, <1>5, <1>6 DEF g
  <1>8. Stood(U)'
    BY <1>4, <1>7 DEF Stood
  <1> QED BY <1>8

(* A complete call returns what stands for its container.                  *)
LEMMA ReturnStood ==
  ASSUME TallyInv, pass = "redact", Unlisted(config), NEW T, Tallied(T), NEW src, CopyingNow(T, src),
         NEW sr2, Grown(src, sr2), NEW h, Shaped(h), Copying(original, sr2, h),
         SameLengths(src, heap, h, {Top.copy}), NEW value, NEW count, Return(h, value, count),
         Stands(original, sr2, value, Top.node), count = T[<<Top.node, Top.path, On>>]
  PROVE  Stood(sr2)'
  <1> DEFINE g == original
             c == config
             s == stack
             b == Below
  <1>1. /\ Calls(g, c, T, s) /\ Len(s) > 0 /\ FramesCopy(g, src, heap, s) /\ Top = s[Len(s)]
        /\ Remembers(src, memo, On)
    BY DEF CopyingNow
  <1>2. b = SubSeq(s, 1, Len(s) - 1) /\ SameLengths(src, heap, h, {s[Len(s)].copy})
    BY <1>1 DEF Below
  <1>3. FramesCopy(original, sr2, h, Below)
    <2> HIDE DEF g, c, s, b
    <2>1. FramesCopy(g, sr2, h, b)
      BY <1>1, <1>2, PopCopies
    <2> QED BY <2>1 DEF g, b
  <1>4. Remembers(sr2, memo, On)
    BY <1>1 DEF Remembers, Grown
  <1> QED BY <1>3, <1>4, ReturnCopies

(* What a complete call of the second pass has.                            *)
CopiedAll(T) ==
    /\ HasCounted(original, config, T, On, Top)
    /\ Top.part = "kids" \/ Top.part = "extras"
    /\ Top.part = "extras" => original[Top.node].extras # << >>
    /\ original[Top.node].kind # "object" => original[Top.node].extras = << >>
    /\ Top.part = "extras" /\ ~Top.rebuilt => Top.count = 0

LEMMA CompleteCopies ==
  ASSUME TallyInv, pass = "redact", NEW T, Tallied(T), NEW R,
         Rebuilding(original, config, T, R, heap, stack), Exhausted(Top)
  PROVE  CopiedAll(T)
  BY CompleteFacts DEF CopiedAll

LEMMA SelfGrown == \A src : Grown(src, src)
  BY DEF Grown

LEMMA MappingStood ==
  ASSUME TallyInv, pass = "redact", Unlisted(config), NEW T, Tallied(T), NEW src, CopyingNow(T, src),
         Exhausted(Top) => CopiedAll(T), FinishMapping
  PROVE  Stood(src)'
  <1>1. /\ Exhausted(Top) /\ heap[Top.node].kind # "object"
        /\ Return(heap, Top.copy, Top.partCount)
    BY DEF FinishMapping, Complete
  <1>2. original[Top.node].extras = << >> /\ Top.part = "kids" /\ HasCounted(original, config, T, On, Top)
    BY <1>1 DEF CopiedAll, CopyingNow
  <1>3. Top.partCount = T[<<Top.node, Top.path, On>>]
    BY <1>2 DEF HasCounted
  <1>4. Stands(original, src, Top.copy, Top.node)
    BY DEF CopyingNow, Stands
  <1>5. SameLengths(src, heap, heap, {Top.copy})
    BY DEF SameLengths
  <1>6. Shaped(heap) /\ Copying(original, src, heap) /\ Grown(src, src)
    BY SelfGrown DEF CopyingNow
  <1> QED BY <1>1, <1>3, <1>4, <1>5, <1>6, ReturnStood

LEMMA TupleStood ==
  ASSUME TallyInv, pass = "redact", Unlisted(config), NEW T, Tallied(T), NEW src, CopyingNow(T, src),
         Exhausted(Top) => CopiedAll(T), FinishTuple
  PROVE  \E U : Stood(U)'
  <1> DEFINE made == [kind |-> "tuple", kids |-> Top.values, extras |-> << >>]
             k == Add(made)
             h == ReplacePlaceholder(k, Fresh, Top.copy, Fresh)
             g == original
  <1>1. /\ Exhausted(Top) /\ heap[Top.node].kind = "tuple" /\ Return(h, Fresh, Top.partCount)
    BY DEF FinishTuple, Complete
  <1>2. /\ original[Top.node].extras = << >> /\ Top.part = "kids"
        /\ HasCounted(original, config, T, On, Top)
    BY <1>1 DEF CopiedAll, CopyingNow
  <1>3. Top.partCount = T[<<Top.node, Top.path, On>>]
    BY <1>2 DEF HasCounted
  <1>4. /\ g \in Graphs /\ Copying(g, src, heap) /\ DOMAIN g \subseteq DOMAIN heap /\ Shaped(heap)
        /\ Top.node \in DOMAIN g /\ Top.copy \in DOMAIN src /\ src[Top.copy] = Top.node
    BY DEF CopyingNow
  <1>5. Extended(heap, Fresh, made, k)
    BY <1>4, AddShaped DEF ContainerFields
  <1>6. IsCopy(g, src, made, Top.node)
    <2>1. StandAll(g, src, Top.values, g[Top.node].kids)
      BY <1>2 DEF CopyingNow, FrameCopies, FrameItems, Items
    <2> QED BY <2>1, StandNone DEF IsCopy
  <1> HIDE DEF made, k, g
  <1>7. PICK U : /\ Grown(src, U) /\ Copying(g, U, k) /\ Fresh \in DOMAIN U /\ U[Fresh] = Top.node
                 /\ SameLengths(src, heap, k, {})
    BY <1>4, <1>5, <1>6, CopyAdded
  <1>8. Top.copy \in DOMAIN U /\ U[Top.copy] = U[Fresh]
    BY <1>4, <1>7 DEF Grown
  <1>9. Shaped(k)
    BY <1>5 DEF Extended
  <1>10. h = ReplacePlaceholder(k, Fresh, Top.copy, Fresh)
    OBVIOUS
  <1> HIDE DEF h
  <1>11. Copying(g, U, h) /\ SameLengths(U, k, h, {})
    BY <1>4, <1>7, <1>8, <1>9, <1>10, CopyReplaced
  <1>12. Shaped(h)
    BY <1>9, <1>10, ReplaceFacts
  <1>13. SameLengths(src, heap, h, {Top.copy})
    BY <1>7, <1>11 DEF SameLengths, Grown
  <1>14. Stands(original, U, Fresh, Top.node)
    BY <1>7 DEF Stands
  <1>15. Stood(U)'
    BY <1>1, <1>3, <1>7, <1>11, <1>12, <1>13, <1>14, ReturnStood DEF g
  <1> QED BY <1>15

(* The copy of the innermost call is assigned to.                          *)
LEMMA AssignStood ==
  ASSUME NEW T, NEW src, CopyingNow(T, src), NEW x, DOMAIN x = ContainerFields,
         IsCopy(original, src, x, Top.node), NEW h, h = [heap EXCEPT ![Top.copy] = x]
  PROVE  /\ Shaped(h) /\ Copying(original, src, h) /\ SameLengths(src, heap, h, {Top.copy})
         /\ h[Top.copy] = x
  <1> DEFINE g == original
             j == heap
             y == Top.copy
  <1>1. /\ Shaped(j) /\ Copying(g, src, j) /\ y \in DOMAIN src /\ IsCopy(g, src, x, src[y])
        /\ y \in DOMAIN j /\ h = [j EXCEPT ![y] = x]
    BY DEF CopyingNow
  <1> HIDE DEF g, j, y
  <1>2. Shaped(h)
    BY <1>1 DEF Shaped
  <1>3. Copying(g, src, h)
    BY <1>1, CopyAssigned
  <1>4. SameLengths(src, j, h, {y}) /\ h[y] = x
    BY <1>1 DEF SameLengths, Copying
  <1> QED BY <1>2, <1>3, <1>4 DEF g, j, y

(* Attributes that compare equal to what they were are clean.              *)
LEMMA SameKidsClean ==
  ASSUME NEW T, NEW src, CopyingNow(T, src), Top.part = "kids", ~AttributesChanged
  PROVE  Range(original[Top.node].kids) \subseteq Clean(original)
  <1> DEFINE g == original
             s == Top.values
             t == g[Top.node].kids
  <1>1. /\ g \in Graphs /\ Copying(g, src, heap) /\ Shaped(heap) /\ DOMAIN g \subseteq DOMAIN heap
        /\ \A i \in DOMAIN g : heap[i] = g[i]
        /\ heap[Top.node] = g[Top.node] /\ IsSeq(t)
    BY DEF CopyingNow
  <1>2. StandAll(g, src, s, t)
    BY DEF CopyingNow, FrameCopies, FrameItems, Items
  <1>3. SameItems(heap, s, t)
    BY <1>1 DEF AttributesChanged
  <1> HIDE DEF g, s, t
  <1>4. Range(t) \subseteq Clean(g)
    BY <1>1, <1>2, <1>3, SameClean
  <1> QED BY <1>4 DEF g, t

LEMMA AttributesStood ==
  ASSUME TallyInv, pass = "redact", Unlisted(config), NEW T, Tallied(T), NEW src, CopyingNow(T, src),
         Exhausted(Top) => CopiedAll(T), FinishAttributes
  PROVE  Stood(src)'
  <1>1. /\ Exhausted(Top) /\ Top.part = "kids" /\ heap[Top.node].extras = << >>
    BY DEF FinishAttributes, Complete
  <1>2. /\ original[Top.node].extras = << >> /\ HasCounted(original, config, T, On, Top)
        /\ original \in Graphs /\ Top.node \in DOMAIN original
    BY <1>1 DEF CopiedAll, CopyingNow
  <1>3. Top.partCount = T[<<Top.node, Top.path, On>>]
    BY <1>1, <1>2 DEF HasCounted
  <1>4. CASE AttributesChanged
    <2> DEFINE x == [heap[Top.copy] EXCEPT !.kids = Top.values]
    <2>1. PICK h : h = [heap EXCEPT ![Top.copy] = x]
      OBVIOUS
    <2>2. Return(h, Top.copy, Top.partCount)
      BY <1>4, <2>1 DEF FinishAttributes
    <2>3. DOMAIN x = ContainerFields /\ x.kids = Top.values /\ x.extras = heap[Top.copy].extras
      BY DEF CopyingNow, ContainerFields
    <2> HIDE DEF x
    <2>4. IsCopy(original, src, x, Top.node)
      <3>1. StandAll(original, src, Top.values, original[Top.node].kids)
        BY <1>1 DEF CopyingNow, FrameCopies, FrameItems, Items
      <3>2. StandAll(original, src, heap[Top.copy].extras, original[Top.node].extras)
        BY DEF CopyingNow, IsCopy
      <3> QED BY <2>3, <3>1, <3>2 DEF IsCopy
    <2>5. Shaped(h) /\ Copying(original, src, h) /\ SameLengths(src, heap, h, {Top.copy})
      BY <2>1, <2>3, <2>4, AssignStood
    <2>6. Stands(original, src, Top.copy, Top.node)
      BY DEF CopyingNow, Stands
    <2> QED BY <1>3, <2>2, <2>5, <2>6, SelfGrown, ReturnStood
  <1>5. CASE ~AttributesChanged
    <2>1. Return(heap, Top.node, Top.partCount)
      BY <1>5 DEF FinishAttributes
    <2>2. Top.node \in Clean(original)
      <3>1. Range(original[Top.node].kids) \subseteq Clean(original)
        BY <1>1, <1>5, SameKidsClean
      <3>2. Range(original[Top.node].extras) \subseteq Clean(original)
        BY <1>2, NoneHeld
      <3> QED BY <1>2, <3>1, <3>2, NodeClean
    <2>3. Stands(original, src, Top.node, Top.node)
      BY <2>2 DEF Stands
    <2>4. Shaped(heap) /\ Copying(original, src, heap) /\ SameLengths(src, heap, heap, {Top.copy})
      BY DEF CopyingNow, SameLengths
    <2> QED BY <1>3, <2>1, <2>3, <2>4, SelfGrown, ReturnStood
  <1> QED BY <1>4, <1>5

LEMMA ExtrasStood ==
  ASSUME TallyInv, pass = "redact", Unlisted(config), ExtrasLeadAway(original),
         NEW T, Tallied(T), NEW src, CopyingNow(T, src), Exhausted(Top) => CopiedAll(T), FinishExtras
  PROVE  Stood(src)'
  <1>1. Exhausted(Top) /\ Top.part = "extras"
    BY DEF FinishExtras, Complete
  <1>2. /\ HasCounted(original, config, T, On, Top) /\ (~Top.rebuilt => Top.count = 0)
        /\ original \in Graphs /\ Top.node \in DOMAIN original
        /\ IsTally(original, config, T) /\ Calls(original, config, T, stack) /\ Len(stack) > 0
        /\ Top = stack[Len(stack)] /\ Top.path \in FieldPaths /\ On \in SUBSET DOMAIN original
    BY <1>1 DEF CopiedAll, CopyingNow
  <1>3. Top.count + Top.partCount = T[<<Top.node, Top.path, On>>]
    BY <1>1, <1>2 DEF HasCounted
  <1>4. CASE Top.partCount > 0 \/ Top.rebuilt
    <2> DEFINE x == [heap[Top.copy] EXCEPT !.extras = Top.values]
    <2>1. PICK h : h = [heap EXCEPT ![Top.copy] = x]
      OBVIOUS
    <2>2. Return(h, Top.copy, Top.count + Top.partCount)
      BY <1>4, <2>1 DEF FinishExtras
    <2>3. DOMAIN x = ContainerFields /\ x.kids = heap[Top.copy].kids /\ x.extras = Top.values
      BY DEF CopyingNow, ContainerFields
    <2> HIDE DEF x
    <2>4. IsCopy(original, src, x, Top.node)
      <3>1. StandAll(original, src, Top.values, original[Top.node].extras)
        BY <1>1 DEF CopyingNow, FrameCopies, FrameItems, Items
      <3>2. StandAll(original, src, heap[Top.copy].kids, original[Top.node].kids)
        BY DEF CopyingNow, IsCopy
      <3> QED BY <2>3, <3>1, <3>2 DEF IsCopy
    <2>5. Shaped(h) /\ Copying(original, src, h) /\ SameLengths(src, heap, h, {Top.copy})
      BY <2>1, <2>3, <2>4, AssignStood
    <2>6. Stands(original, src, Top.copy, Top.node)
      BY DEF CopyingNow, Stands
    <2> QED BY <1>3, <2>2, <2>5, <2>6, SelfGrown, ReturnStood
  <1>5. CASE ~(Top.partCount > 0 \/ Top.rebuilt)
    <2>1. Return(heap, Top.node, Top.count + Top.partCount)
      BY <1>5 DEF FinishExtras
    <2>2. Range(original[Top.node].kids) \subseteq Clean(original)
      BY <1>1, <1>5 DEF CopyingNow, FrameCopies
    <2>3. Held(original, config, T, Top.node, Top.path, On, "extras") = 0
      <3>1. T[<<Top.node, Top.path, On>>] = 0
        BY <1>2, <1>3, <1>5 DEF HasCounted
      <3>2. Top.node \notin On
        BY <1>2, IsSeqFacts DEF Calls, FrameOK, CallOK, On
      <3>3. T[<<Top.node, Top.path, On>>] = Counted(original, config, T, Top.node, Top.path, On)
            /\ T \in [Walks(original) -> Nat]
        BY <1>2 DEF IsTally
      <3>4. /\ Held(original, config, T, Top.node, Top.path, On, "kids") \in Nat
            /\ Held(original, config, T, Top.node, Top.path, On, "extras") \in Nat
        BY <1>2, <3>3, HeldType
      <3> QED BY <3>1, <3>2, <3>3, <3>4 DEF Counted
    <2>4. Range(original[Top.node].extras) \subseteq Clean(original)
      <3> DEFINE g == original
                 c == config
                 s == stack
                 f == Top
                 on == On
      <3>1. /\ g \in Graphs /\ ExtrasLeadAway(g) /\ Unlisted(c) /\ IsTally(g, c, T) /\ Calls(g, c, T, s)
            /\ Len(s) > 0 /\ f = s[Len(s)] /\ on = Running(s, Len(s) - 1)
            /\ Held(g, c, T, f.node, f.path, on, "extras") = 0
        BY <1>2, <2>3 DEF On
      <3> HIDE DEF g, c, s, f, on
      <3>2. Range(g[f.node].extras) \subseteq Clean(g)
        BY <3>1, ExtrasClean
      <3> QED BY <3>2 DEF g, f
    <2>5. Top.node \in Clean(original)
      BY <1>2, <2>2, <2>4, NodeClean
    <2>6. Stands(original, src, Top.node, Top.node)
      BY <2>5 DEF Stands
    <2>7. Shaped(heap) /\ Copying(original, src, heap) /\ SameLengths(src, heap, heap, {Top.copy})
      BY DEF CopyingNow, SameLengths
    <2> QED BY <1>3, <2>1, <2>6, <2>7, SelfGrown, ReturnStood
  <1> QED BY <1>4, <1>5

LEMMA TurnStood ==
  ASSUME TallyInv, pass = "redact", NEW T, NEW src, CopyingNow(T, src), TurnToExtras
  PROVE  \E U : Stood(U)'
  <1> DEFINE g == original
             c == config
             s == stack
             f == Top
             e0 == ExtrasOf(f)
             j == heap
  <1>1. /\ f.part = "kids" /\ UNCHANGED <<original, config, pass, seen>>
    BY DEF TurnToExtras
  <1>2. /\ g \in Graphs /\ Calls(g, c, T, s) /\ IsSeq(s) /\ Len(s) > 0 /\ f = s[Len(s)] /\ DOMAIN f = FrameFields
        /\ Shaped(j) /\ Copying(g, src, j) /\ FramesCopy(g, src, j, s) /\ DOMAIN g \subseteq DOMAIN j
        /\ Remembers(src, memo, seen) /\ f.node \in DOMAIN g /\ heap[f.node] = g[f.node]
        /\ f.copy \in DOMAIN src /\ src[f.copy] = f.node /\ IsCopy(g, src, j[f.copy], f.node)
        /\ DOMAIN j[f.copy] = ContainerFields /\ FrameCopies(g, src, j, f) /\ IsSeq(g[f.node].kids)
    BY DEF CopyingNow
  <1>3. ASSUME NEW e, stack' = Append(Below, e)
        PROVE  TopIs(s, e, stack')
    <2>1. stack' = Append(SubSeq(s, 1, Len(s) - 1), e)
      BY <1>3 DEF Below
    <2> QED BY <1>2, <2>1, TopReplaced
  <1>4. StandAll(g, src, f.values, g[f.node].kids)
    BY <1>1, <1>2 DEF FrameCopies, FrameItems, Items
  <1>5. ASSUME NEW U, Copying(g, U, heap'), FramesCopy(g, U, heap', stack'), Remembers(U, memo', seen)
        PROVE  \E V : Stood(V)'
    <2>1. /\ pass' = "redact" /\ Copying(original', U, heap') /\ FramesCopy(original', U, heap', stack')
          /\ Remembers(U, memo', seen')
      BY <1>1, <1>5
    <2>2. Stood(U)'
      BY <2>1 DEF Stood
    <2> QED BY <2>2
  <1>6. g[f.node].extras # << >>
    <2>1. heap[f.node].extras # << >>
      BY DEF TurnToExtras
    <2> QED BY <1>2, <2>1
  <1>7. g[f.node].kind \notin {"dict", "list"}
    BY <1>2, <1>6, GraphFacts DEF WellFormed
  <1>8. CASE AttributesChanged
    <2> DEFINE x == [j[f.copy] EXCEPT !.kids = f.values]
               e == [e0 EXCEPT !.rebuilt = TRUE]
    <2>1. heap' = [j EXCEPT ![f.copy] = x] /\ stack' = Append(Below, e) /\ memo' = memo
      BY <1>8 DEF TurnToExtras
    <2>2. x.kids = f.values /\ x.extras = j[f.copy].extras
      BY <1>2 DEF ContainerFields
    <2>3. /\ e.node = f.node /\ e.copy = f.copy /\ e.values = << >> /\ e.rebuilt = TRUE
      BY <1>2 DEF ExtrasOf, FrameFields
    <2>4. TopIs(s, e, stack')
      BY <1>3, <2>1
    <2> HIDE DEF x, e
    <2>5. IsCopy(g, src, x, src[f.copy])
      BY <1>2, <1>4, <2>2 DEF IsCopy
    <2>6. Copying(g, src, heap') /\ SameLengths(src, j, heap', {f.copy})
      <3> HIDE DEF g, f, j
      <3>1. Copying(g, src, heap')
        BY <1>2, <2>1, <2>5, CopyAssigned
      <3>2. SameLengths(src, j, heap', {f.copy})
        BY <1>2, <2>1 DEF SameLengths, Copying
      <3> QED BY <3>1, <3>2
    <2>7. FrameCopies(g, src, heap', e)
      BY <1>2, <1>7, <2>3, StandNone DEF FrameCopies
    <2>8. FramesCopy(g, src, heap', stack')
      <3> HIDE DEF g, c, s, f, j
      <3> QED BY <1>2, <2>4, <2>6, <2>7, SelfGrown, TopCopies
    <2> QED BY <1>2, <1>5, <2>1, <2>6, <2>8
  <1>9. CASE ~AttributesChanged
    <2> DEFINE x == [Blank("object") EXCEPT !.kids = heap[f.node].kids]
               e == [e0 EXCEPT !.copy = Fresh]
    <2>1. heap' = Add(x) /\ stack' = Append(Below, e) /\ memo' = [memo EXCEPT ![f.node] = Fresh]
      BY <1>9 DEF TurnToExtras
    <2>2. DOMAIN x = ContainerFields /\ x.kids = g[f.node].kids /\ x.extras = << >>
      BY <1>2 DEF Blank, ContainerFields
    <2>3. /\ e.node = f.node /\ e.copy = Fresh /\ e.values = << >>
      BY <1>2 DEF ExtrasOf, FrameFields
    <2>4. TopIs(s, e, stack')
      BY <1>3, <2>1
    <2>5. Range(g[f.node].kids) \subseteq Clean(g)
      BY <1>1, <1>9, SameKidsClean
    <2> HIDE DEF x, e
    <2>6. Extended(heap, Fresh, x, heap')
      BY <1>2, <2>1, <2>2, AddShaped
    <2>7. IsCopy(g, src, x, f.node)
      <3>1. \A i \in DOMAIN x.kids : Stands(g, src, x.kids[i], x.kids[i])
        BY <2>2, <2>5 DEF Stands, Range
      <3>2. StandAll(g, src, x.kids, g[f.node].kids)
        BY <1>2, <2>2, <3>1 DEF StandAll
      <3> QED BY <2>2, <3>2, StandNone DEF IsCopy
    <2>8. PICK U : /\ Grown(src, U) /\ Copying(g, U, heap') /\ Fresh \in DOMAIN U /\ U[Fresh] = f.node
                   /\ SameLengths(src, heap, heap', {})
      BY <1>2, <2>6, <2>7, CopyAdded
    <2>9. FrameCopies(g, U, heap', e)
      BY <1>7, <2>3, <2>5, <2>8, StandNone DEF FrameCopies
    <2>10. FramesCopy(g, U, heap', stack')
      <3>1. SameLengths(src, j, heap', {f.copy})
        BY <2>8 DEF SameLengths
      <3> HIDE DEF g, c, s, f, j
      <3> QED BY <1>2, <2>4, <2>8, <2>9, <3>1, TopCopies
    <2>11. Remembers(U, memo', seen)
      BY <1>2, <2>1, <2>8 DEF Remembers, Grown
    <2> QED BY <1>5, <2>8, <2>10, <2>11
  <1> QED BY <1>8, <1>9

(* The first pass makes nothing.                                           *)
LEMMA FindStood ==
  ASSUME TallyInv, Shaped(heap), pass = "find", Unlisted(config), NEW T, Tallied(T), Next
  PROVE  \E U : Stood(U)'
  <1>1. ASSUME pass' = "find" PROVE \E U : Stood(U)'
    BY <1>1 DEF Stood
  <1>2. CASE FindComplete
    <2> DEFINE count == Top.count + Top.partCount
               n == Len(stack)
    <2>1. Return(heap, Top.node, count) /\ Exhausted(Top) /\ (Top.part = "extras" \/ heap[Top.node].extras = << >>)
      BY <1>2 DEF FindComplete
    <2>2. /\ UntouchedInv /\ original \in Graphs /\ IsTally(original, config, T)
          /\ Calls(original, config, T, stack) /\ seen = Running(stack, n)
          /\ IsSeq(stack) /\ n \in Nat /\ n > 0 /\ Top = stack[n]
          /\ stack[1].node = Root /\ stack[1].path = << >>
      BY Unchanging, IsSeqFacts DEF TallyInv, CountInv, Tallied, Calls, Top
    <2>3. DOMAIN original \subseteq DOMAIN heap /\ \A i \in DOMAIN original : heap[i] = original[i]
      BY <2>2 DEF UntouchedInv, HeapInv, Keeps
    <2>4. PICK src : src = [y \in {} |-> Root]
      OBVIOUS
    <2>5. Copying(original, src, heap) /\ Remembers(src, memo, {})
      BY <2>4 DEF Copying, Remembers
    <2> HIDE DEF count
    <2>6. CASE n > 1
      <3>1. pass' = pass
        BY <2>1, <2>6 DEF Return
      <3> QED BY <1>1, <3>1
    <2>7. CASE ~(n > 1)
      <3>1. n = 1
        <4>1. n \in Nat /\ n > 0 /\ ~(n > 1)
          BY <2>2, <2>7
        <4> HIDE DEF n
        <4> QED BY <4>1
      <3>2. Top.node = Root /\ Top.path = << >> /\ On = {} /\ seen = {Root}
        BY <2>2, <3>1 DEF On, Running
      <3>3. CASE config.redact /\ count # 0
        <4>1. pass' = "redact" /\ Enter(Root, << >>, << >>) /\ UNCHANGED <<original, config>>
          BY <2>1, <2>7, <3>3 DEF Return
        <4> DEFINE g == original
                   s == << >>
                   node == Root
                   path == << >>
                   on == {}
        <4>2. /\ g \in Graphs /\ IsSeq(s) /\ Copying(g, src, heap) /\ FramesCopy(g, src, heap, s)
              /\ Shaped(heap) /\ DOMAIN g \subseteq DOMAIN heap /\ \A i \in DOMAIN g : heap[i] = g[i]
              /\ node \in DOMAIN g /\ Remembers(src, memo, on)
          <5>1. FramesCopy(g, src, heap, s) /\ IsSeq(s)
            BY StandNone DEF FramesCopy
          <5>2. node \in DOMAIN g
            BY <2>2, GraphFacts
          <5> QED BY <2>2, <2>3, <2>5, <5>1, <5>2
        <4>3. Enter(node, path, s) /\ seen' = on \cup {node}
          BY <3>2, <4>1 DEF Enter, Marked
        <4> HIDE DEF g, s, node, path, on
        <4>4. PICK U : /\ Copying(g, U, heap') /\ FramesCopy(g, U, heap', stack')
                       /\ Remembers(U, memo', on \cup {node})
          BY <4>1, <4>2, <4>3, EnterCopies
        <4>5. /\ Copying(original', U, heap') /\ FramesCopy(original', U, heap', stack')
              /\ Remembers(U, memo', seen')
          BY <4>1, <4>3, <4>4 DEF g
        <4>6. Stood(U)'
          BY <4>1, <4>5 DEF Stood
        <4> QED BY <4>6
      <3>4. CASE ~(config.redact /\ count # 0)
        <4>1. /\ pass' = "done" /\ answer' = Answer(count, IF count = 0 THEN Root ELSE Top.node)
              /\ heap' = heap /\ UNCHANGED <<original, config>>
          BY <2>1, <2>7, <3>4 DEF Return
        <4>2. ASSUME config.redact PROVE Root \in Clean(original)
          <5> DEFINE g == original
                     c == config
                     f == Top
          <5>1. /\ FrameOK(g, c, T, On, f) /\ Part(f) = FrameItems(g, f) /\ heap[f.node] = g[f.node]
            BY <2>2, ScanningFacts DEF On
          <5>2. Len(f.values) = Len(FrameItems(g, f)) /\ IsTally(g, c, T) /\ g \in Graphs
            BY <2>1, <2>2, <5>1 DEF Exhausted
          <5>3. HasCounted(g, c, T, On, f)
            <6> HIDE DEF g, c, f
            <6> QED BY <5>1, <5>2, FrameReturns
          <5>4. GraphCount(T) = 0
            BY <2>1, <3>2, <3>4, <4>2, <5>1, <5>3 DEF HasCounted, GraphCount, count
          <5> QED BY <2>2, <5>4, RootClean
        <4>3. answer'.payload = Root
          BY <3>2, <4>1 DEF Answer
        <4>4. config'.redact => Copying(original', src, heap') /\ Stands(original', src, answer'.payload, Root)
          BY <2>5, <4>1, <4>2, <4>3 DEF Stands
        <4>5. Stood(src)'
          BY <4>1, <4>4 DEF Stood
        <4> QED BY <4>5
      <3> QED BY <3>3, <3>4
    <2> QED BY <2>6, <2>7
  <1>3. ScanString \/ SkipField \/ BackReference \/ Descend \/ TurnToExtras \/ Returned => pass' = pass
    BY DEF ScanString, SkipField, BackReference, Descend, TurnToExtras, Returned, vars
  <1> QED BY <1>1, <1>2, <1>3 DEF Next, FinishMapping, FinishTuple, FinishAttributes, FinishExtras

LEMMA RedactStood ==
  ASSUME TallyInv, pass = "redact", Unlisted(config), ExtrasLeadAway(original), NEW T, Tallied(T),
         NEW R, Certified(T, R), NEW src, Stood(src), Next
  PROVE  \E U : Stood(U)'
  <1>1. Rebuilding(original, config, T, R, heap, stack)
    BY DEF Certified
  <1>2. CopyingNow(T, src)
    BY <1>1, NowCopying
  <1>3. Exhausted(Top) => CopiedAll(T)
    BY <1>1, CompleteCopies
  <1>4. CASE ScanString
    <2>1. Stood(src)'
      BY <1>2, <1>4, StringStood
    <2> QED BY <2>1
  <1>5. CASE BackReference
    <2>1. Stood(src)'
      BY <1>2, <1>5, ReferenceStood
    <2> QED BY <2>1
  <1>6. CASE Descend
    BY <1>2, <1>6, DescendStood
  <1>7. CASE TurnToExtras
    BY <1>2, <1>7, TurnStood
  <1>8. CASE FinishMapping
    <2>1. Stood(src)'
      BY <1>2, <1>3, <1>8, MappingStood
    <2> QED BY <2>1
  <1>9. CASE FinishTuple
    BY <1>2, <1>3, <1>9, TupleStood
  <1>10. CASE FinishAttributes
    <2>1. Stood(src)'
      BY <1>2, <1>3, <1>10, AttributesStood
    <2> QED BY <2>1
  <1>11. CASE FinishExtras
    <2>1. Stood(src)'
      BY <1>2, <1>3, <1>11, ExtrasStood
    <2> QED BY <2>1
  <1> QED BY <1>4, <1>5, <1>6, <1>7, <1>8, <1>9, <1>10, <1>11 DEF Next, SkipField, FindComplete, Returned

(* The invariant: without field lists all that was made so far stands for  *)
(* something of the original.                                              *)
LeakInv == FieldsInv /\ (Unlisted(config) /\ ExtrasLeadAway(original) => \E src : Stood(src))

LEMMA LeakStep ==
  ASSUME LeakInv, [Next]_vars
  PROVE  LeakInv'
  <1>1. FieldsInv /\ FieldsInv'
    BY FieldsStep DEF LeakInv
  <1>2. original' = original /\ config' = config
    BY DEF Next, ScanString, SkipField, BackReference, Descend, FindComplete, FinishMapping,
           FinishTuple, TurnToExtras, FinishAttributes, FinishExtras, Return, Returned, vars
  <1> SUFFICES ASSUME Unlisted(config), ExtrasLeadAway(original) PROVE \E U : Stood(U)'
    <2>1. /\ Unlisted(config') => Unlisted(config)
          /\ ExtrasLeadAway(original') => ExtrasLeadAway(original)
      BY <1>2
    <2> QED BY <1>1, <2>1 DEF LeakInv
  <1>3. PICK src : Stood(src)
    BY DEF LeakInv
  <1>4. PICK T, R : T = TallyOf(original, config) /\ Tallied(T) /\ Certified(T, R)
    BY <1>1 DEF FieldsInv, MadeWell
  <1>5. TallyInv /\ Shaped(heap) /\ pass \in {"find", "redact", "done"}
    BY <1>1 DEF FieldsInv, TallyInv, CountInv
  <1>6. CASE UNCHANGED vars
    <2>1. Stood(src)'
      BY <1>3, <1>6 DEF Stood, vars
    <2> QED BY <2>1
  <1>7. CASE Next /\ pass = "find"
    BY <1>4, <1>5, <1>7, FindStood
  <1>8. CASE Next /\ pass = "redact"
    BY <1>3, <1>4, <1>5, <1>8, RedactStood
  <1>9. CASE Next /\ pass = "done"
    <2>1. UNCHANGED vars
      BY <1>9 DEF Next, ScanString, SkipField, BackReference, Descend, Enterable, Scanning, FindComplete,
                  FinishMapping, FinishTuple, TurnToExtras, FinishAttributes, FinishExtras, Complete, Returned
    <2> QED BY <1>6, <2>1
  <1> QED BY <1>5, <1>6, <1>7, <1>8, <1>9

LEMMA LeakInit == Init => LeakInv
  <1> SUFFICES ASSUME Init PROVE LeakInv
    OBVIOUS
  <1>1. FieldsInv /\ pass = "find"
    BY FieldsInit DEF Init
  <1>2. \A src : Stood(src)
    BY <1>1 DEF Stood
  <1> QED BY <1>1, <1>2 DEF LeakInv

(* What stands for something of the original leads to nothing else.        *)
LEMMA NothingLeaksThen == LeakInv => (ExtrasLeadAway(original) => NothingLeaks)
  <1> SUFFICES ASSUME LeakInv, ExtrasLeadAway(original), pass = "done", config.redact, config.allow = {}, config.deny = {}
               PROVE  Secret \notin ReachableIn(heap, answer.payload)
    BY DEF NothingLeaks
  <1>1. PICK src : Copying(original, src, heap) /\ Stands(original, src, answer.payload, Root)
    BY DEF LeakInv, Unlisted, Stood
  <1>2. /\ original \in Graphs /\ \A i \in DOMAIN original : heap[i] = original[i]
        /\ Shaped(heap) /\ DOMAIN original \subseteq DOMAIN heap
    BY Unchanging DEF LeakInv, FieldsInv, TallyInv, UntouchedInv, HeapInv, Keeps
  <1> DEFINE g == original
             h == heap
             Good == DOMAIN src \cup Clean(g)
             v == answer.payload
  <1>3. /\ DOMAIN src \subseteq DOMAIN h \ DOMAIN g /\ \A y \in DOMAIN src : IsCopy(g, src, h[y], src[y])
        /\ IsClean(g, Clean(g)) /\ Clean(g) \subseteq DOMAIN g \cup Strings /\ Redacted \in Clean(g)
    BY <1>1, <1>2, CleanFacts DEF Copying
  <1>4. \A n, o : Stands(g, src, n, o) => n \in Good
    BY <1>3 DEF Stands
  <1>5. v \in Good
    BY <1>1, <1>4
  <1>6. ASSUME NEW i \in Good \ Strings PROVE ValuesOf(h[i]) \subseteq Good
    <2>1. CASE i \in DOMAIN src
      <3>1. \A s, t : StandAll(g, src, s, t) => Range(s) \subseteq Good
        BY <1>4 DEF StandAll, Range
      <3>2. IsCopy(g, src, h[i], src[i])
        BY <1>3, <2>1
      <3> HIDE DEF Good
      <3> QED BY <3>1, <3>2 DEF IsCopy, ValuesOf
    <2>2. CASE i \notin DOMAIN src
      <3>1. i \in Clean(g) \ Strings
        BY <1>6, <2>2
      <3>2. i \in DOMAIN g /\ h[i] = g[i]
        BY <1>2, <1>3, <3>1
      <3> QED BY <1>3, <3>1, <3>2 DEF IsClean
    <2> QED BY <2>1, <2>2
  <1>7. Secret \notin Good
    <2>1. DOMAIN h = 1..Cardinality(DOMAIN h) /\ Cardinality(DOMAIN h) \in Nat
      BY <1>2, FS_CardinalityType DEF Shaped
    <2> HIDE DEF h
    <2>2. Secret \notin DOMAIN h
      <3>1. \A y \in DOMAIN h : y \in Nat
        BY <2>1
      <3>2. Secret \in Strings /\ Strings \cap Nat = {}
        BY ScanAssumption DEF Strings
      <3> QED BY <3>1, <3>2
    <2> QED BY <1>3, <2>2 DEF IsClean
  <1>8. IsFiniteSet(DOMAIN h)
    BY <1>2 DEF Shaped
  <1> HIDE DEF g, h, Good, v
  <1>9. ReachableIn(h, v) \subseteq Good
    BY <1>5, <1>6, <1>8, ReachWithin
  <1> QED BY <1>7, <1>9 DEF h, v

(* python_scan.rs:205-486.  Without field lists, and whatever the graph of *)
(* containers, no secret is left anywhere that the redacted payload leads  *)
(* to, if no object leads back to itself from what it holds under keys     *)
(* that are no strings.  What the second pass makes is a copy, value by    *)
(* value; where it gives back an original, nothing was found in it, nor in *)
(* anything it leads to.                                                   *)
THEOREM NothingLeaksHolds == Spec => [](ExtrasLeadAway(original) => NothingLeaks)
  <1>1. LeakInv /\ [Next]_vars => LeakInv'
    BY LeakStep
  <1> QED BY <1>1, LeakInit, NothingLeaksThen, PTL DEF Spec
=============================================================================
