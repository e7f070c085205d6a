--------------------------- MODULE ExfilDetection ---------------------------
(***************************************************************************)
(* The detection of encoded payloads                                       *)
(* (plugins/rust/python-package/encoded_exfil_detection): the scan of a    *)
(* text for encoded segments, layer by layer, the redaction of what was    *)
(* found, and the handler of the hooks.  A text is a sequence of symbols;  *)
(* one symbol of the percent encoding or of the hex escapes stands for the *)
(* characters of one byte, and sizes and places count symbols except where *)
(* bytes of other symbols make a difference.  What the decoders make of a *)
(* segment, and the entropy and the printable share of that, are given.    *)
(***************************************************************************)
EXTENDS PyValues, FiniteSetsExt

CONSTANTS
  Alphabet,          \* the symbols of each encoding
  MinRun,            \* the least length of each encoding's expression
  Layers,            \* what decodes: encoding, code, plain text, entropic, printable
  SensitiveKeywords, EgressHints,  \* symbols that stand for the words
  HintReach,         \* how many bytes around a segment hints are looked for
  Widths,            \* the bytes of a symbol and of its lower case, if not one each
  PreviewLength,     \* symbols of a segment that a finding shows
  JsonOf,            \* the values of the texts that are JSON
  KeyTexts,          \* the texts of the keys that are long enough to matter
  ScanDefaults       \* the configuration when not given

Encodings == <<"base64", "base64url", "hex", "percent_encoding", "escaped_hex">>

(***************************************************************************)
(* EncodedExfilDetectorConfig, and the engine's copy of it.                *)
(***************************************************************************)
Bounds ==
  [min_suspicion_score |-> 1..10, max_findings_per_value |-> 1..500,
   min_findings_to_block |-> 1..1000, max_decode_depth |-> 1..5, max_recursion_depth |-> 1..1000]
Configs(raw) ==
  LET value(key) == Given(raw, key, ScanDefaults[key])
      allowed == Given(raw, "allowlist_patterns", {})
      valid == /\ \A key \in DOMAIN Bounds : value(key) \in Bounds[key]
               /\ \A p \in allowed : p.sound
  IN IF ~valid THEN {}
     ELSE {[key \in DOMAIN ScanDefaults |->
              IF key = "allowlist_patterns" THEN {p.code : p \in allowed} ELSE value(key)]}

(***************************************************************************)
(* Segments.  The expressions match runs of their alphabet that nothing    *)
(* extends, in base64 with up to two signs of padding.                     *)
(***************************************************************************)
In(text, i, encoding) == i \in DOMAIN text /\ text[i] \in Alphabet[encoding]
Padding(text, end) ==
  IF ~(end < Len(text) /\ text[end + 1] = "=") THEN 0
  ELSE IF end + 1 < Len(text) /\ text[end + 2] = "=" THEN 2 ELSE 1
FindIter(text, encoding) ==
  LET runs == {<<s, e>> \in (0..Len(text)) \X (0..Len(text)) :
                 /\ e - s >= MinRun[encoding]
                 /\ \A i \in s + 1..e : In(text, i, encoding)
                 /\ ~In(text, s, encoding) /\ ~In(text, e + 1, encoding)}
      padded(r) == IF encoding \in {"base64", "base64url"} THEN <<r[1], r[2] + Padding(text, r[2])>>
                   ELSE r
  IN {padded(r) : r \in runs}

HasValidBoundaries(text, start, end, encoding) ==
  encoding \in {"base64", "base64url", "hex"} =>
    ~In(text, start, encoding) /\ ~In(text, end + 1, encoding)

(* The bytes of a text, and of the same in lower case.                     *)
Width(ch) == Given(Widths, ch, <<1, 1>>)
Bytes(text) == FoldLeft(LAMBDA n, ch : n + Width(ch)[1], 0, text)
LowerBytes(text) == FoldLeft(LAMBDA n, ch : n + Width(ch)[2], 0, text)

DecodeCandidate(encoding, code) == {l \in Layers : l.encoding = encoding /\ l.code = code}

HasSensitiveKeywords(plain, c) ==
  \E i \in DOMAIN plain : plain[i] \in SensitiveKeywords \cup c.extra_sensitive_keywords
(* Hints are looked for in the text in lower case, at the bytes where the  *)
(* segment stands in the text as it is: the window may be another, and if  *)
(* the text has lost so many bytes that it ends before it starts, to slice *)
(* it panics.                                                              *)
HintWindow(text, start, end) ==
  [left |-> Max({0, Bytes(SubSeq(text, 1, start)) - HintReach}),
   right |-> Min({Bytes(SubSeq(text, 1, end)) + HintReach, LowerBytes(text)})]
HasEgressContext(text, start, end, c) ==
  LET window == HintWindow(text, start, end)
  IN \E i \in DOMAIN text : /\ text[i] \in EgressHints \cup c.extra_egress_hints
                            /\ window.left <= LowerBytes(SubSeq(text, 1, i - 1))
                            /\ LowerBytes(SubSeq(text, 1, i)) <= window.right

Score(text, start, end, layer, c) ==
  1 + (IF layer.entropic THEN 1 ELSE 0)
    + (IF layer.printable THEN 1 ELSE 0)
    + (IF HasSensitiveKeywords(layer.plain, c) THEN 2 ELSE 0)
    + (IF HasEgressContext(text, start, end, c) THEN 1 ELSE 0)
    + (IF end - start >= 2 * c.min_encoded_length THEN 1 ELSE 0)
Threshold(encoding, c) == Given(c.per_encoding_score, encoding, c.min_suspicion_score)

(* The findings of one segment itself: one or none.                        *)
EvaluateCandidate(text, encoding, start, end, c) ==
  LET code == SubSeq(text, start + 1, end)
      score(l) == Score(text, start, end, l, c)
  IN IF Len(code) < c.min_encoded_length THEN {}
     ELSE {[start |-> start, end |-> end, encoding |-> encoding, score |-> score(l),
            match |-> SubSeq(code, 1, PreviewLength)] :
             l \in {m \in DecodeCandidate(encoding, code) :
                      Bytes(m.plain) >= c.min_decoded_length /\ score(m) >= Threshold(encoding, c)}}
EvaluationPanics(text, encoding, start, end, c) ==
  LET code == SubSeq(text, start + 1, end)
      window == HintWindow(text, start, end)
  IN /\ Len(code) >= c.min_encoded_length
     /\ \E l \in DecodeCandidate(encoding, code) : Bytes(l.plain) >= c.min_decoded_length
     /\ window.left > window.right

(***************************************************************************)
(* apply_redactions: from the last span to the first, each in the text     *)
(* that the ones before have left; a span that ends past it panics.        *)
(***************************************************************************)
SpanBefore(f, g) == f.start < g.start \/ (f.start = g.start /\ f.end < g.end)
ApplyRedactions(text, findings, replacement) ==
  LET replace(done, f) ==
        IF done.panics \/ f.end > Len(done.text) THEN [done EXCEPT !.panics = TRUE]
        ELSE [done EXCEPT !.text = SubSeq(@, 1, f.start) \o replacement
                                     \o SubSeq(@, f.end + 1, Len(@))]
  IN FoldLeft(replace, [text |-> text, panics |-> FALSE], Reverse(findings))

(***************************************************************************)
(* scan_text.  Of the findings of one span the one with the highest score  *)
(* is kept, the outer layer's and the earlier encoding's before the others *)
(* with the same.                                                          *)
(***************************************************************************)
Enabled(encoding, c) == Given(c.enabled, encoding, TRUE)
Segments(text, c) ==
  LET of(encoding) ==
        LET spans == {r \in FindIter(text, encoding) :
                        /\ HasValidBoundaries(text, r[1], r[2], encoding)
                        /\ SubSeq(text, r[1] + 1, r[2]) \notin c.allowlist_patterns}
            order == InOrder(spans, LAMBDA r, q : r[1] < q[1])
        IN [i \in DOMAIN order |-> [encoding |-> encoding, start |-> order[i][1], end |-> order[i][2]]]
  IN FlattenSeq([n \in DOMAIN Encodings |->
                   IF Enabled(Encodings[n], c) THEN of(Encodings[n]) ELSE << >>])

OneTooDeep(depth, c) == depth < c.max_decode_depth             \* mutant
GoesDeeper(depth, c) == depth < c.max_decode_depth - 1
Plain(encoding, code, c) ==
  LET long == {l \in DecodeCandidate(encoding, code) : Bytes(l.plain) >= c.min_decoded_length}
  IN IF long = {} THEN << >> ELSE (CHOOSE l \in long : TRUE).plain

(* The best of a segment's own finding and of those in what it decodes to, *)
(* which are told of the segment; then what is kept of a text.             *)
BestOf(s, own, inner) ==
  LET take(best, f) == IF \A b \in best : f.score > b.score
                       THEN {[f EXCEPT !.start = s.start, !.end = s.end]} ELSE best
  IN FoldLeft(take, own, inner)
SameSpan(f, g) == f.start = g.start /\ f.end = g.end
KeepBest(held, best) ==
  {f \in held : \A b \in best : SameSpan(f, b) => b.score <= f.score}
    \cup {b \in best : \A f \in held : SameSpan(f, b) => b.score > f.score}
AddSegment(held, s, own, inner, panics) ==
  [findings |-> KeepBest(held.findings, BestOf(s, own, inner.findings)),
   panics |-> held.panics \/ inner.panics \/ panics]

Redacted(text, findings, c) ==
  IF c.redact THEN ApplyRedactions(text, findings, c.redaction_text)
  ELSE [text |-> text, panics |-> FALSE]
Scanned(redacted, findings, panics) ==
  [text |-> redacted.text, findings |-> findings, panics |-> panics \/ redacted.panics]
WithRedactions(text, found, c) ==
  LET order == InOrder(found.findings, SpanBefore)
  IN Scanned(Redacted(text, order, c), order, found.panics)

RECURSIVE ScanText(_, _, _)
ScanText(text, c, depth) ==
  LET code(s) == SubSeq(text, s.start + 1, s.end)
      inside(s) == IF GoesDeeper(depth, c) THEN Plain(s.encoding, code(s), c) ELSE << >>
      scan(held, s) ==
        IF Cardinality(held.findings) >= c.max_findings_per_value THEN held
        ELSE AddSegment(held, s, EvaluateCandidate(text, s.encoding, s.start, s.end, c),
                        ScanText(inside(s), c, depth + 1),
                        EvaluationPanics(text, s.encoding, s.start, s.end, c))
      nothing == [findings |-> {}, panics |-> FALSE]
  IN IF text = << >> \/ Bytes(text) > c.max_scan_string_length
     THEN [text |-> text, findings |-> << >>, panics |-> FALSE]
     ELSE WithRedactions(text, FoldLeft(scan, nothing, Segments(text, c)), c)

(***************************************************************************)
(* scan_container.  The keys of a dictionary are scanned, never rewritten, *)
(* and a string that holds JSON is scanned once more for what shows only   *)
(* in its values.                                                          *)
(***************************************************************************)
Result(v, findings, panics) == [value |-> v, findings |-> findings, panics |-> panics]
KeyText(key) == Given(KeyTexts, key, <<key>>)

ParsesJson(v, c, depth) ==
  /\ c.parse_json_strings /\ depth < c.max_recursion_depth
  /\ Bytes(v.text) <= c.max_scan_string_length
  /\ v.text \in DOMAIN JsonOf
ScannedString(raw, json) ==
  LET shown == {raw.findings[i].match : i \in DOMAIN raw.findings}
  IN Result(Str(raw.text),
            raw.findings \o SelectSeq(json.findings, LAMBDA f : f.match \notin shown),
            raw.panics \/ json.panics)
ScannedKeys(v, c) ==
  [i \in DOMAIN Children(v) |->
     ScanText(IF v.type = "dict" /\ Len(KeyText(v.entries[i].key)) >= c.min_encoded_length
              THEN KeyText(v.entries[i].key) ELSE << >>, c, 0)]
ScannedContainer(v, keys, children) ==
  Result(WithChildren(v, [i \in DOMAIN children |-> children[i].value]),
         FlattenSeq([i \in DOMAIN children |-> keys[i].findings \o children[i].findings]),
         \E i \in DOMAIN children : keys[i].panics \/ children[i].panics)

RECURSIVE ScanContainer(_, _, _)
ScanContainer(v, c, depth) ==
  LET inner(w) == ScanContainer(w, c, depth + 1)
  IN IF depth > c.max_recursion_depth THEN Result(v, << >>, FALSE)
     ELSE IF IsText(v)
          THEN ScannedString(ScanText(v.text, c, 0),
                             inner(IF ParsesJson(v, c, depth) THEN JsonOf[v.text] ELSE None))
     ELSE IF ~IsContainer(v) THEN Result(v, << >>, FALSE)
     ELSE ScannedContainer(v, ScannedKeys(v, c), [i \in DOMAIN Children(v) |-> inner(Children(v)[i])])

(***************************************************************************)
(* prompt_pre_fetch, tool_post_invoke, resource_post_fetch: one handler.   *)
(***************************************************************************)
BuildMetrics(findings, redacted, traced) ==
  IF ~traced \/ findings = << >> THEN "None"
  ELSE [total_detections |-> Len(findings),
        encoding_types |-> {findings[i].encoding : i \in DOMAIN findings}, redacted |-> redacted]

Answer(v, r, c, traced) ==
  LET told(kind, new) ==
        [kind |-> kind, payload |-> new, count |-> Len(r.findings),
         metrics |-> BuildMetrics(r.findings, kind = "modified", traced)]
  IN IF r.panics THEN [kind |-> "raised", payload |-> v]
     ELSE IF Len(r.findings) >= c.min_findings_to_block /\ c.block_on_detection
          THEN told("blocked", v)
     ELSE IF c.redact /\ r.value # v THEN told("modified", r.value)
     ELSE told("pass", v)
Hook(v, c, traced) == Answer(v, ScanContainer(v, c, 0), c, traced)
=============================================================================
