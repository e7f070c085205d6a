---------------------------- MODULE LengthGuard ----------------------------
(***************************************************************************)
(* output_length_guard: one tool result in, one answer out (config.rs,     *)
(* guards.rs, structured.rs, plugin.rs).  The plugin keeps no state        *)
(* between calls; HookCalls calls it.                                      *)
(*                                                                         *)
(* Labels ("type": "text") are strings of one symbol.                      *)
(***************************************************************************)
EXTENDS PyValues

CONSTANTS
  Boundary,      \* the characters of BOUNDARY_CHARS
  Blanks,        \* those that trim removes
  Digits,        \* those a number is made of
  CharBytes,     \* [character -> its bytes in UTF-8]
  Spelling,      \* [text of an option -> the same lower-cased and trimmed]
  TextLengths, StructureSizes, RecursionDepths, TokenRatios,
                 \* the ranges the configuration accepts
  Defaults,      \* of the options in those ranges, and of the ellipsis
  MaxNumericBytes,
  UnwrapDepth    \* dictionaries of one key unwrapped in a text (10)

(***************************************************************************)
(* The configuration.  A maximum of None or 0 disables it: 0 stands for    *)
(* both here.                                                              *)
(***************************************************************************)
Option(raw, key, default) ==
  LET v == Given(raw, key, default)
  IN IF v \in DOMAIN Spelling THEN Spelling[v] ELSE "unknown"

Maximum(raw, key) == Given(raw, key, 0)

FromPyDict(raw) ==
  [min_chars |-> Given(raw, "min_chars", 0), max_chars |-> Maximum(raw, "max_chars"),
   min_tokens |-> Given(raw, "min_tokens", 0), max_tokens |-> Maximum(raw, "max_tokens"),
   chars_per_token |-> Given(raw, "chars_per_token", Defaults.chars_per_token),
   limit_mode |-> Option(raw, "limit_mode", "character"),
   strategy |-> Option(raw, "strategy", "truncate"),
   ellipsis |-> Given(raw, "ellipsis", Defaults.ellipsis),
   word_boundary |-> Given(raw, "word_boundary", FALSE),
   max_text_length |-> Given(raw, "max_text_length", Defaults.max_text_length),
   max_structure_size |-> Given(raw, "max_structure_size", Defaults.max_structure_size),
   max_recursion_depth |->
     Given(raw, "max_recursion_depth", Defaults.max_recursion_depth)]

Accepted(c) ==
  /\ {c.min_chars, c.max_chars, c.min_tokens, c.max_tokens} \subseteq Nat
  /\ c.chars_per_token \in TokenRatios
  /\ c.limit_mode \in {"character", "token"}
  /\ c.strategy \in {"truncate", "block"}
  /\ c.max_text_length \in TextLengths
  /\ c.max_structure_size \in StructureSizes
  /\ c.max_recursion_depth \in RecursionDepths
  /\ c.max_chars # 0 => c.min_chars <= c.max_chars
  /\ c.max_tokens # 0 => c.min_tokens <= c.max_tokens

Configs(raw) == {c \in {FromPyDict(raw)} : Accepted(c)}

(***************************************************************************)
(* guards.rs.                                                              *)
(***************************************************************************)
Tokens(text, c) == Len(text) \div c.chars_per_token

BelowMin(text, c) ==
  IF c.limit_mode = "token" THEN Tokens(text, c) < c.min_tokens
  ELSE Len(text) < c.min_chars

AtMax(text, c) ==                                             \* mutant
  IF c.limit_mode = "token" THEN c.max_tokens # 0 /\ Tokens(text, c) > c.max_tokens
  ELSE c.max_chars # 0 /\ Len(text) > c.max_chars + 1
AboveMax(text, c) ==
  IF c.limit_mode = "token" THEN c.max_tokens # 0 /\ Tokens(text, c) > c.max_tokens
  ELSE c.max_chars # 0 /\ Len(text) > c.max_chars

Bytes(text) == FoldSeq(LAMBDA ch, sum : sum + CharBytes[ch], 0, text)

IsNumeric(text) ==
  LET inner == {i \in DOMAIN text : text[i] \notin Blanks}
  IN /\ Bytes(text) <= MaxNumericBytes
     /\ inner # {}
     /\ \A i \in Min(inner)..Max(inner) : text[i] \in Digits

(* The cut moves back behind the last boundary within a fifth of budget.   *)
WordBoundary(text, cut, budget) ==
  LET near == {i \in cut - budget \div 5 + 1..cut : i > 0 /\ text[i] \in Boundary}
  IN IF near = {} THEN cut ELSE Max(near)

(* cap_at_max_text_length counts bytes, and ends before a character it     *)
(* would split.                                                            *)
Capped(text, c) ==
  SubSeq(text, 1, Max({n \in 0..Len(text) : Bytes(SubSeq(text, 1, n)) <= c.max_text_length}))

TruncateTokens(text, c) ==
  LET effective == Capped(text, c)
      most == Min({Len(effective), c.max_tokens * c.chars_per_token})
      cut == IF c.word_boundary THEN WordBoundary(effective, most, most) ELSE most
  IN IF ~AboveMax(text, c) THEN text ELSE SubSeq(effective, 1, cut) \o c.ellipsis

CutAnyText(text, c) ==                                        \* mutant
  SubSeq(text, 1, Min({Len(text), c.max_chars - Len(c.ellipsis)})) \o c.ellipsis
TruncateChars(text, c) ==
  LET most == c.max_chars - Len(c.ellipsis)
      cut == IF c.word_boundary THEN WordBoundary(text, most, c.max_chars) ELSE most
  IN IF ~AboveMax(text, c) THEN text
     ELSE IF most <= 0 THEN SubSeq(text, 1, c.max_chars)
     ELSE SubSeq(text, 1, cut) \o c.ellipsis

Truncate(text, c) ==
  IF c.limit_mode = "token" THEN TruncateTokens(text, c) ELSE TruncateChars(text, c)

(***************************************************************************)
(* handle_text and process_string: what one text becomes.  code is the     *)
(* violation's, when the strategy blocks.                                  *)
(***************************************************************************)
Code(text, c) ==
  IF AboveMax(text, c) /\ c.limit_mode = "token" THEN "OUTPUT_TOKEN_VIOLATION"
  ELSE "OUTPUT_LENGTH_VIOLATION"

NotAbove(text, c) == IsNumeric(text) \/ ~AboveMax(text, c)     \* mutant
InBounds(text, c) == IsNumeric(text) \/ (~BelowMin(text, c) /\ ~AboveMax(text, c))

HandleText(text, c) ==
  [code |-> IF c.strategy = "block" /\ ~InBounds(text, c) THEN Code(text, c) ELSE "none",
   text |-> IF c.strategy = "truncate" /\ ~IsNumeric(text) THEN Truncate(text, c) ELSE text]

(* what the metadata says of a text: a cut that leaves the text as it was  *)
(* counts as within bounds                                                 *)
WithinBounds(text, c) ==
  LET done == HandleText(text, c)
  IN IsNumeric(text) \/ (done.code = "none" /\ done.text = text /\ ~BelowMin(text, c))

(***************************************************************************)
(* structured.rs: a whole structure, depth first.                          *)
(***************************************************************************)
Untouched(v) == [code |-> "none", value |-> v]
Oversized(v, c, code) == [code |-> IF c.strategy = "block" THEN code ELSE "none", value |-> v]

ProcessString(text, c) ==
  LET t == HandleText(text, c) IN [code |-> t.code, value |-> Str(t.text)]

(* A list or a dictionary, given what its children became: the first       *)
(* violation among them is its own.                                        *)
ProcessContainer(v, c, done) ==
  LET bad == {i \in DOMAIN done : done[i].code # "none"}
  IN IF Len(done) > c.max_structure_size THEN Oversized(v, c, "STRUCTURE_SIZE_VIOLATION")
     ELSE IF bad # {} THEN [code |-> done[Min(bad)].code, value |-> v]
     ELSE Untouched(WithChildren(v, [i \in DOMAIN done |-> done[i].value]))

RECURSIVE ProcessStructured(_, _, _)
ProcessStructured(v, c, depth) ==
  IF depth > c.max_recursion_depth THEN Oversized(v, c, "STRUCTURE_DEPTH_VIOLATION")
  ELSE IF IsText(v) THEN ProcessString(v.text, c)
  ELSE IF IsContainer(v)
       THEN ProcessContainer(v, c, [i \in DOMAIN Children(v) |->
                                      ProcessStructured(Children(v)[i], c, depth + 1)])
  ELSE Untouched(v)

(* json.dumps without spaces; keys are one symbol                          *)
RECURSIVE JsonDumps(_)
JsonDumps(v) ==
  LET joined(parts) == IF parts = << >> THEN << >>
                       ELSE FoldSeq(LAMBDA p, all : all \o <<",">> \o p, Head(parts), Tail(parts))
  IN CASE v.type = "str" -> <<"q">> \o v.text \o <<"q">>
       [] v.type = "list" ->
            <<"[">> \o joined([i \in DOMAIN v.items |-> JsonDumps(v.items[i])]) \o <<"]">>
       [] v.type = "dict" ->
            <<"{">> \o joined([i \in DOMAIN v.entries |->
                                 <<"q", v.entries[i].key, "q", ":">>
                                   \o JsonDumps(v.entries[i].value)]) \o <<"}">>
       [] OTHER -> <<"7">>

RECURSIVE TextRepresentation(_, _)
TextRepresentation(v, depth) ==
  IF IsText(v) THEN v.text
  ELSE IF v.type = "dict" /\ Len(v.entries) = 1 /\ depth < UnwrapDepth
       THEN TextRepresentation(v.entries[1].value, depth + 1)
  ELSE JsonDumps(v)

(***************************************************************************)
(* plugin.rs: the answer to a tool's result.  The metrics, sent when the   *)
(* request is traced, count the texts that were cut and their lengths; an  *)
(* answer on a list of strings says what happened to each.                 *)
(***************************************************************************)
NoMetrics == [chars_seen |-> 0, truncated_count |-> 0]
Pass(v) == [kind |-> "pass", code |-> "none", payload |-> v,
            metrics |-> NoMetrics, items |-> << >>]
Blocked(v, code) == [Pass(v) EXCEPT !.kind = "blocked", !.code = code]
Modified(v, new, metrics) ==
  [Pass(new) EXCEPT !.kind = IF new = v THEN "pass" ELSE "modified", !.metrics = metrics]

Metrics(texts, done) ==
  LET cut == {i \in DOMAIN texts : done[i].text # texts[i]}
  IN [chars_seen |-> MapThenSumSet(LAMBDA i : Len(texts[i]), cut),
      truncated_count |-> Cardinality(cut)]

(* handle_plain_string and handle_text_dict; put gives the result that has *)
(* a text in place of the old one.                                         *)
GuardText(v, text, c, put(_)) ==
  LET done == HandleText(text, c)
  IN IF done.code # "none" THEN Blocked(v, done.code)
     ELSE [Modified(v, put(done.text), Metrics(<<text>>, <<done>>)) EXCEPT
             !.items = <<WithinBounds(text, c)>>]

HandlePlainString(v, c) == GuardText(v, v.text, c, Str)

HandleTextDict(v, c) ==
  IF ~HasText(v, "text") THEN Pass(v)
  ELSE GuardText(v, Item(v, "text").text, c, LAMBDA t : ReplaceKey(v, "text", Str(t)))

(* The items say whether each text was within bounds, up to a violation.   *)
HandleStringList(v, c) ==
  LET done == [i \in DOMAIN v.items |-> HandleText(v.items[i].text, c)]
      texts == [i \in DOMAIN v.items |-> v.items[i].text]
      bad == {i \in DOMAIN done : done[i].code # "none"}
      within(n) == [i \in 1..n |-> WithinBounds(texts[i], c)]
  IN IF bad # {} THEN [Blocked(v, done[Min(bad)].code) EXCEPT !.items = within(Min(bad))]
     ELSE [Modified(v, [v EXCEPT !.items = [i \in DOMAIN @ |-> Str(done[i].text)]],
                    Metrics(texts, done)) EXCEPT !.items = within(Len(texts))]

(* The text of an item of MCP content, in itself or in its resource.       *)
TypeIs(item, label) ==
  HasText(item, "type") /\ Item(item, "type").text = <<label>>
HoldsText(item) ==
  \/ TypeIs(item, "text") /\ HasText(item, "text")
  \/ /\ TypeIs(item, "resource") /\ "resource" \in Keys(item)
     /\ HasText(Item(item, "resource"), "text")
ItemText(item) ==
  IF TypeIs(item, "text") THEN Item(item, "text").text
  ELSE Item(Item(item, "resource"), "text").text
WithItemText(item, text) ==
  IF TypeIs(item, "text") THEN ReplaceKey(item, "text", Str(text))
  ELSE ReplaceKey(item, "resource", ReplaceKey(Item(item, "resource"), "text", Str(text)))

(* process_mcp_items_result *)
McpItems(list, c) ==
  LET items == list.items
      at == SelectSeq([i \in DOMAIN items |-> i], LAMBDA i : HoldsText(items[i]))
      texts == [k \in DOMAIN at |-> ItemText(items[at[k]])]
      done == [k \in DOMAIN at |-> HandleText(texts[k], c)]
      bad == {k \in DOMAIN at : done[k].code # "none"}
      new(i) == WithItemText(items[i], HandleText(ItemText(items[i]), c).text)
  IN [code |-> IF c.strategy = "block" /\ Len(items) > c.max_structure_size
               THEN "STRUCTURE_SIZE_VIOLATION"
               ELSE IF bad # {} THEN done[Min(bad)].code ELSE "none",
      value |-> [list EXCEPT !.items = [i \in DOMAIN @ |->
                    IF HoldsText(@[i]) THEN new(i) ELSE @[i]]],
      metrics |-> Metrics(texts, done)]

HandleMcpList(v, c) ==
  LET done == McpItems(v, c)
  IN IF done.code # "none" THEN Blocked(v, done.code)
     ELSE Modified(v, done.value, done.metrics)

(* Structured content comes first: if a text in it was cut, the content is *)
(* replaced by its text, one item.                                         *)
StructKeys(v) ==
  SelectSeq(<<"structuredContent", "structured_content">>,
            LAMBDA k : k \in Keys(v) /\ Item(v, k) # None)

Rebuilt(value) ==
  List(<<Dict(<<Entry("type", Str(<<"text">>)),
                Entry("text", Str(TextRepresentation(value, 0)))>>)>>)

HandleContent(v, c) ==
  LET done == McpItems(Item(v, "content"), c)
  IN IF done.code # "none" THEN Blocked(v, done.code)
     ELSE Modified(v, ReplaceKey(v, "content", done.value), done.metrics)

HandleMcpContentDict(v, c) ==
  IF StructKeys(v) = << >> THEN HandleContent(v, c)
  ELSE LET key == Head(StructKeys(v))
           done == ProcessStructured(Item(v, key), c, 0)
       IN IF done.code # "none" THEN Blocked(v, done.code)
          ELSE IF done.value = Item(v, key) THEN HandleContent(v, c)
          ELSE Modified(v, ReplaceKey(ReplaceKey(v, key, done.value), "content",
                                      Rebuilt(done.value)), NoMetrics)

ToolPostInvoke(v, c) ==
  IF v.type = "dict" /\ "content" \in Keys(v) /\ Item(v, "content").type = "list"
  THEN HandleMcpContentDict(v, c)
  ELSE IF v.type = "dict" THEN HandleTextDict(v, c)
  ELSE IF IsText(v) THEN HandlePlainString(v, c)
  ELSE IF v.type # "list" \/ v.items = << >> THEN Pass(v)
  ELSE IF v.items[1].type = "dict" /\ "type" \in Keys(v.items[1]) THEN HandleMcpList(v, c)
  ELSE IF \A i \in DOMAIN v.items : IsText(v.items[i]) THEN HandleStringList(v, c)
  ELSE Pass(v)
=============================================================================
