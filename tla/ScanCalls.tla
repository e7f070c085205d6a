----------------------------- MODULE ScanCalls -----------------------------
(***************************************************************************)
(* Calls of the plugins that look for content and take it out: the PII     *)
(* filter, the detection of encoded payloads and, for single texts, the    *)
(* detection of secrets.  A plugin is constructed from the operator's      *)
(* configuration, or not, and then called.                                 *)
(***************************************************************************)
EXTENDS PyValues, FiniteSetsExt

CONSTANTS
  Deployments,   \* records: plugin, hook, and sets of raws, inputs, spans, traced
  Letters, HexLetters, Capitals, WordChars, DigitValue, MaxTextBytes, MaxNestedDepth, MaxCollectionItems,
  PiiDefaults, Alphabet, MinRun, Layers, SensitiveKeywords, EgressHints, HintReach, Widths, PreviewLength, JsonOf,
  KeyTexts, ScanDefaults, Size, KeyMarks, SecretDefaults

Pii == INSTANCE PiiFilter
Exfil == INSTANCE ExfilDetection
Secrets == INSTANCE SecretsText

VARIABLES
  deployment,
  core,          \* the plugin's core and its configuration
  answer         \* what the call has answered

vars == <<deployment, core, answer>>

NotBuilt == [status |-> "new"]
Rejected == [status |-> "rejected"]
Built(c) == [status |-> "built", config |-> c]
Pending == [kind |-> "pending"]

Init ==
  /\ \E d \in Deployments : \E raw \in d.raws, v \in d.inputs, s \in d.spans, t \in d.traced :
       deployment = [plugin |-> d.plugin, hook |-> d.hook, raw |-> raw, input |-> v, spans |-> s,
                     traced |-> t]
  /\ core = NotBuilt
  /\ answer = Pending

Configs ==
  CASE deployment.plugin = "pii_filter" -> Pii!Configs(deployment.raw)
    [] deployment.plugin = "encoded_exfil_detection" -> Exfil!Configs(deployment.raw)
    [] deployment.plugin = "secrets_detection" -> Secrets!Configs(deployment.raw)

Construct ==
  /\ core = NotBuilt
  /\ \E c \in Configs : core' = Built(c)
  /\ UNCHANGED <<deployment, answer>>

ConstructFails ==
  /\ core = NotBuilt
  /\ Configs = {}
  /\ core' = Rejected
  /\ UNCHANGED <<deployment, answer>>

Called(plugin, hook) ==
  /\ core.status = "built" /\ deployment.plugin = plugin /\ deployment.hook = hook
  /\ answer = Pending

Answered(a) ==
  /\ answer' = a
  /\ UNCHANGED <<deployment, core>>

(* prompt_pre_fetch, tool_pre_invoke and tool_post_invoke                  *)
PiiNestedStage ==
  /\ Called("pii_filter", "nested")
  /\ Answered(Pii!HandleNestedStage(deployment.input, core.config, deployment.traced))

PiiPromptPostFetch ==
  /\ Called("pii_filter", "messages")
  /\ Answered(Pii!PromptPostFetch(deployment.input, core.config, deployment.traced))

(* PIIDetectorRust.mask, with the spans of the caller                      *)
PiiMask ==
  /\ Called("pii_filter", "mask")
  /\ \E a \in Pii!Mask(deployment.input.text, deployment.spans, core.config) : Answered(a)

(* prompt_pre_fetch, tool_post_invoke and resource_post_fetch              *)
ExfilScan ==
  /\ Called("encoded_exfil_detection", "nested")
  /\ Answered(Exfil!Hook(deployment.input, core.config, deployment.traced))

(* resource_post_fetch, and tool_post_invoke with a text for its result    *)
SecretsScanText ==
  /\ Called("secrets_detection", "text")
  /\ Answered(Secrets!ScanPayload(deployment.input, core.config, deployment.traced))

Next ==
  \/ Construct \/ ConstructFails
  \/ PiiNestedStage \/ PiiPromptPostFetch \/ PiiMask
  \/ ExfilScan \/ SecretsScanText

Spec == Init /\ [][Next]_vars

(***************************************************************************)
(* Properties of the answer to the input.                                  *)
(***************************************************************************)
Input == deployment.input
Config == core.config
AnsweredBy(plugin, hooks) ==
  deployment.plugin = plugin /\ deployment.hook \in hooks /\ answer # Pending
ByPii == AnsweredBy("pii_filter", {"nested", "messages"})
ByExfil == AnsweredBy("encoded_exfil_detection", {"nested"})
TextAt(v, p) == Follow(v, p).text
(* What was handed on in the place of a text of the input.                 *)
Delivered(p) ==
  IF p # << >> /\ Follow(Input, Front(p)).type = "set"
  THEN {m.text : m \in {n \in ToSet(Follow(answer.payload, Front(p)).items) : IsText(n)}}
  ELSE {TextAt(answer.payload, p)}

(* The texts that the filter masks: all, or those of messages' contents.   *)
Holds(v, path, key) ==
  LET dict == Follow(v, SubSeq(path, 1, Len(path) - 1))
  IN dict.type = "dict" /\ dict.entries[Last(path)].key = key
MaskedPaths ==
  IF deployment.hook = "nested" THEN TextPaths(Input)
  ELSE {p \in TextPaths(Input) : /\ Len(p) = 5
                                 /\ Holds(Input, p, "text")
                                 /\ Holds(Input, SubSeq(p, 1, 3), "content")}

(* What a text becomes by the rule of the README: reading on, the longest  *)
(* match that starts here is masked, and reading goes on behind it.        *)
Longest(candidates, at) ==
  LET here == {d \in candidates : d.start = at}
  IN {d \in here : \A e \in here : e.end <= d.end}
MaskedBy(t) ==
  LET candidates == Pii!Candidates(t, Config)
      from[at \in 0..Len(t)] ==
        IF at = Len(t) THEN [texts |-> {<< >>}, count |-> 0, types |-> {}]
        ELSE LET here == Longest(candidates, at)
                 rest == from[IF here = {} THEN at + 1 ELSE Max({d.end : d \in here})]
             IN IF here = {} THEN [rest EXCEPT !.texts = {<<t[at + 1]>> \o u : u \in @}]
                ELSE [texts |-> {Pii!ApplyMaskStrategy(d, Config) \o u : d \in here, u \in rest.texts},
                      count |-> rest.count + 1,
                      types |-> rest.types \cup {CHOOSE x \in {d.type : d \in here} :
                                                   \A d \in here : Pii!AsStr(x) <= Pii!AsStr(d.type)}]
  IN from[0]

(* pii_filter README.md:13, detector.rs:68-93, masking.rs:44-59.  Where    *)
(* matches overlap the earliest wins and of these the longest: every text  *)
(* at any depth is delivered with exactly those masked and all between     *)
(* them as it was, and nothing but texts is changed.                       *)
PiiEarliestThenLongest ==
  ByPii /\ answer.kind \in {"pass", "modified"} =>
    /\ \A p \in MaskedPaths : Delivered(p) \cap MaskedBy(TextAt(Input, p)).texts # {}
    /\ \A p \in TextPaths(Input) \ MaskedPaths : TextAt(answer.payload, p) = TextAt(Input, p)
    /\ WithoutTexts(answer.payload) = WithoutTexts(Input)

(* plugin.rs:247-301, 370-445.  A blocking filter hands on no detected     *)
(* text and changes none; the violation, and for traced calls the metrics, *)
(* count what was found, and for messages what the first one had.          *)
Tells(count, types) ==
  /\ answer.kind = "blocked" => answer.violation = [detected_types |-> types, count |-> count]
  /\ answer.kind # "pass" /\ deployment.traced =>
       answer.metrics = [total_detections |-> count, detection_types |-> types,
                         total_masked |-> IF answer.kind = "modified" THEN count ELSE 0]
TellsOf(masks, hit) ==
  LET told == IF deployment.hook = "messages" /\ answer.kind = "blocked"
              THEN {p \in hit : \A q \in hit : p[1] <= q[1]} ELSE hit
  IN /\ answer.kind = (IF hit = {} THEN "pass"
                       ELSE IF Config.block_on_detection THEN "blocked" ELSE "modified")
     /\ Tells(MapThenSumSet(LAMBDA p : masks[p].count, told), UNION {masks[p].types : p \in told})
Counts(masks) == TellsOf(masks, {p \in DOMAIN masks : masks[p].count > 0})
PiiCountsHonest ==
  ByPii /\ answer.kind # "raised" =>
    /\ answer.kind # "modified" => answer.payload = Input
    /\ Counts([p \in MaskedPaths |-> MaskedBy(TextAt(Input, p))])

(* masking.rs:65-114.  Spans of a caller that leave the text or meet each  *)
(* other are refused, and others are masked each in its place, whatever    *)
(* the order they come in; of a span without a symbol nothing is said.     *)
(* One exception: four or five symbols, a letter among them, that are said *)
(* to be an account number have no partial mask (masking.rs:189-195 takes  *)
(* six from their number), and the call panics.                            *)
ShortAccount(d) ==
  /\ d.type = "bank_account" /\ d.strategy = "partial"
  /\ Len(d.value) \in {4, 5} /\ \E i \in DOMAIN d.value : d.value[i] \in Letters
PiiMasksCallersSpans ==
  AnsweredBy("pii_filter", {"mask"}) /\ (\A d \in deployment.spans : d.start # d.end /\ d.complete) =>
    LET t == Input.text
        spans == {d \in deployment.spans : d.type \in ToSet(Pii!Types)}
        covers(d, i) == d.start < i /\ i <= d.end
        wrong == \/ \E d \in spans : d.start > d.end \/ d.end > Len(t)
                 \/ \E d, e \in spans : d # e /\ \E i \in DOMAIN t : covers(d, i) /\ covers(e, i)
        masked(d) == Pii!ApplyMaskStrategy(
                       [d EXCEPT !.strategy = IF @ \in Pii!Strategies THEN @ ELSE "redact"], Config)
        piece(i) == LET over == {d \in spans : covers(d, i)}
                    IN IF over = {} THEN <<t[i]>>
                       ELSE LET d == CHOOSE e \in over : TRUE
                            IN IF i = d.start + 1 THEN masked(d) ELSE << >>
    IN IF wrong THEN answer.kind = "raised"
       ELSE IF \E d \in spans : ShortAccount(d) THEN answer.kind = "panicked"
       ELSE /\ answer.kind = "masked"
            /\ answer.payload = Str(FlattenSeq([i \in DOMAIN t |-> piece(i)]))

(***************************************************************************)
(* Encoded payloads.                                                       *)
(***************************************************************************)
(* A segment is suspicious when it, or one that some layer of it holds,    *)
(* reaches the threshold of its encoding; so many layers are peeled.       *)
RECURSIVE Suspicious(_, _, _)
Suspicious(t, s, layers) ==
  \E l \in Exfil!DecodeCandidate(s.encoding, SubSeq(t, s.start + 1, s.end)) :
    /\ Exfil!Bytes(l.plain) >= Config.min_decoded_length
    /\ \/ /\ s.end - s.start >= Config.min_encoded_length
          /\ Exfil!Score(t, s.start, s.end, l, Config) >= Exfil!Threshold(s.encoding, Config)
       \/ /\ layers > 1
          /\ Exfil!Bytes(l.plain) <= Config.max_scan_string_length
          /\ \E n \in DOMAIN Exfil!Segments(l.plain, Config) :
               Suspicious(l.plain, Exfil!Segments(l.plain, Config)[n], layers - 1)
Spans(t) ==
  IF Exfil!Bytes(t) > Config.max_scan_string_length THEN {}
  ELSE LET segments == ToSet(Exfil!Segments(t, Config))
       IN {<<s.start, s.end>> : s \in {r \in segments : Suspicious(t, r, Config.max_decode_depth)}}
ScannedPaths ==
  {p \in TextPaths(Input) :
     /\ Len(p) <= Config.max_recursion_depth
     /\ \A n \in 0..Len(p) - 1 : IsContainer(Follow(Input, SubSeq(p, 1, n)))}

(* lib.rs:548-646, encoded_exfil_detection.py:218.  The count that decides *)
(* on blocking is the number of segments that hide something within        *)
(* max_decode_depth layers, each counted once whatever encodings read it,  *)
(* and up to the limit for one text.  Serialized JSON and long keys may    *)
(* only add to it.                                                         *)
ExfilCountsSegments ==
  ByExfil /\ answer.kind # "raised" =>
    LET capped(p) == LET n == Cardinality(Spans(TextAt(Input, p)))
                     IN IF n < Config.max_findings_per_value THEN n ELSE Config.max_findings_per_value
        count == MapThenSumSet(capped, ScannedPaths)
        keys == UNION {Keys(Follow(Input, p)) : p \in {q \in Paths(Input) : Follow(Input, q).type = "dict"}}
        plain == /\ \A p \in ScannedPaths : TextAt(Input, p) \notin DOMAIN JsonOf
                 /\ keys \cap DOMAIN KeyTexts = {}
    IN /\ IF plain THEN answer.count = count ELSE answer.count >= count
       /\ answer.kind = "blocked" <=>
            Config.block_on_detection /\ answer.count >= Config.min_findings_to_block

(* encoded_exfil_detection.py:67.  Redaction takes the detected segments   *)
(* out of the texts and nothing else: the replacement aside, a text is     *)
(* delivered without them and otherwise as it was.                         *)
Outside(t) ==
  LET kept == {i \in DOMAIN t : \A s \in Spans(t) : ~(s[1] < i /\ i <= s[2])}
  IN [n \in 1..Cardinality(kept) |-> t[CHOOSE i \in kept : Cardinality({j \in kept : j < i}) = n - 1]]
WithoutReplacement(t) == SelectSeq(t, LAMBDA ch : ch \notin ToSet(Config.redaction_text))
OnlyRedacts(p) ==
  WithoutReplacement(TextAt(answer.payload, p)) = Outside(TextAt(Input, p))
Apart(t) ==
  \A s, r \in Spans(t) : s # r => s[2] <= r[1] \/ r[2] <= s[1]
Complete(t) == Cardinality(Spans(t)) <= Config.max_findings_per_value

(* What a scan may read of a text: itself, and what its segments decode to.*)
RECURSIVE Readings(_, _)
Readings(t, layers) ==
  LET plain(s) == {l.plain : l \in Exfil!DecodeCandidate(s.encoding, SubSeq(t, s.start + 1, s.end))}
      inside == UNION {plain(s) : s \in ToSet(Exfil!Segments(t, Config))}
  IN {t} \cup (IF layers = 1 THEN {} ELSE UNION {Readings(u, layers - 1) : u \in inside})
ReadTexts ==
  LET json == {JsonOf[t] : t \in DOMAIN JsonOf}
      given == UNION {{TextAt(v, p) : p \in TextPaths(v)} : v \in json \cup {Input}}
  IN UNION {Readings(t, Config.max_decode_depth) :
              t \in given \cup {KeyTexts[key] : key \in DOMAIN KeyTexts}}
Shrinks(t) == Exfil!Bytes(t) - Exfil!LowerBytes(t) > HintReach


(* The same for any segments, as the configuration's documentation has it. *)
ExfilRedactsAnySegments ==
  ByExfil /\ Config.redact /\ answer.kind # "blocked" =>
    /\ answer.kind # "raised"
    /\ \A p \in ScannedPaths : Complete(TextAt(Input, p)) => OnlyRedacts(p)

(***************************************************************************)
(* Secrets.                                                                *)
(***************************************************************************)
(* text_scan.rs:59-121, scanner.rs:408.  Secrets that overlap, however     *)
(* many, are one finding: none of their symbols is delivered when the      *)
(* plugin redacts, each group leaves one replacement and all other symbols *)
(* stay, and the finding has the name of the most specific pattern among   *)
(* them.  It blocks by the number of groups.                               *)
SecretsTakenWhole ==
  AnsweredBy("secrets_detection", {"text"}) /\ IsText(Input) =>
    LET t == Input.text
        secrets == Secrets!Candidates(t, Config)
        first == {d.start : d \in {e \in secrets : \A f \in secrets : ~(f.start < e.start /\ e.start < f.end)}}
        group(s) == {d \in secrets : d.start >= s /\ \A r \in first : r > s => d.start < r}
        best(s) == Min({Secrets!PatternSpecificity(d.name) : d \in group(s)})
        piece(i) == IF i - 1 \in first THEN Config.redaction_text
                    ELSE IF \E d \in secrets : d.start < i /\ i <= d.end THEN << >>
                    ELSE <<t[i]>>
        order == InOrder(first, LAMBDA r, s : r < s)
        count == Cardinality(first)
    IN /\ answer.payload = Str(IF Config.redact THEN FlattenSeq([i \in DOMAIN t |-> piece(i)]) ELSE t)
       /\ answer.kind = "blocked" <=>
            Config.block_on_detection /\ count >= Config.min_findings_to_block
       /\ answer.kind = "blocked" =>
            /\ answer.violation.count = count /\ Len(answer.violation.types) = count
            /\ \A n \in DOMAIN order :
                 LET name == answer.violation.types[n]
                 IN /\ \E d \in group(order[n]) : d.name = name
                    /\ Secrets!PatternSpecificity(name) = best(order[n])
       /\ deployment.traced /\ count > 0 =>
            /\ answer.metrics.total_detections = count
            /\ answer.metrics.total_masked + answer.metrics.total_blocked =
                 (IF answer.kind = "blocked" \/ Config.redact THEN count ELSE 0)

=============================================================================
