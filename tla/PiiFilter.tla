----------------------------- MODULE PiiFilter ------------------------------
(***************************************************************************)
(* The PII filter (plugins/rust/python-package/pii_filter): the detector's *)
(* patterns, the choice among what they match, the masks, and the handlers *)
(* of its hooks.  A text is a sequence of symbols: a letter, a digit, a    *)
(* mark, or a label such as "SSN" with the spelling the patterns allow it. *)
(* A place in a text is a number of symbols before it.                     *)
(***************************************************************************)
EXTENDS PyValues, TextPatterns

CONSTANTS
  Letters, HexLetters,  \* symbols, the second among the first
  MaxTextBytes, MaxNestedDepth, MaxCollectionItems,  \* limits of the limits
  PiiDefaults           \* the limits and the redaction text when not given

Labels == {"SSN", "BSN", "DOB", "Passport", "DL", "Account", "MRN", "My", "is"}
OnlyDigits(text) == SelectSeq(text, LAMBDA ch : ch \in Digits)

(***************************************************************************)
(* The built-in patterns of each kind of PII.                              *)
(***************************************************************************)
Marks == {"-", ".", " "}
Labelled(label, marks, least, rest) ==
  Pattern(TRUE, {<<One({label}), Many(marks, least)>> \o r : r \in rest})
Optional(word) == {<< >>, <<One({word}), Many({" "}, 1)>>}
Areas == {Numeral(3, 3, 1..665), Numeral(3, 3, 667..899)}
Group == Numeral(2, 2, 1..99)
Serial == Numeral(4, 4, 1..9999)
Octet == Numeral(1, 3, 0..255)
Hextet == Some(Digits \cup HexLetters, 1, 4)
Slash == One({"-", "/"})
PhoneNumber == <<Maybe({"("}), Some(Digits, 3, 3), Maybe({")"}), Maybe(Marks),
                 Some(Digits, 3, 3), Maybe(Marks), Some(Digits, 4, 4)>>
CountryCode == <<Maybe({"+"}), Numeral(1, 1, {1}), Maybe(Marks)>>
Iban == <<Some(Letters, 2, 2), Some(Digits, 2, 2), Some(Letters \cup Digits, 4, 4),
          Some(Digits, 7, 7)>>

BuiltIn(type) ==
  CASE type = "ssn" ->
         <<Pattern(TRUE, {<<area, One({"-"}), Group, One({"-"}), Serial>> : area \in Areas}),
           Labelled("SSN", {":", " ", "#", "-"}, 0, {<<area, Group, Serial>> : area \in Areas})>>
    [] type = "bsn" ->
         <<Labelled("BSN", {":", " ", "#"}, 0, {<<Some(Digits, 9, 9)>>}),
           Pattern(TRUE, {my \o <<One({"BSN"}), Many({" "}, 1)>> \o is \o <<Some(Digits, 9, 9)>> :
                            my \in Optional("My"), is \in Optional("is")})>>
    [] type = "credit_card" -> <<Pattern(TRUE, {<<Spread(Digits, {"-", " "}, 13, 19)>>})>>
    [] type = "email" ->
         <<Pattern(TRUE, {<<Many(Letters \cup Digits \cup {".", "_", "%", "+", "-"}, 1), One({"@"}),
                            Many(Letters \cup Digits \cup {".", "-"}, 1), One({"."}),
                            Many(Letters \cup {"|"}, 2)>>})>>
    [] type = "phone" ->
         <<Pattern(TRUE, {PhoneNumber, CountryCode \o PhoneNumber}),
           [Pattern(FALSE, {<<One({"+"}), Numeral(1, 1, 1..9), Some(Digits, 9, 14)>>})
              EXCEPT !.ends = TRUE]>>
    [] type = "ip_address" ->
         <<Pattern(TRUE, {[i \in 1..7 |-> IF i % 2 = 1 THEN Octet ELSE One({"."})]}),
           Pattern(TRUE, {[i \in 1..15 |-> IF i % 2 = 1 THEN Hextet ELSE One({":"})]})>>
    [] type = "date_of_birth" ->
         <<Labelled("DOB", {":", " "}, 1, {<<Some(Digits, 1, 2), Slash, Some(Digits, 1, 2), Slash,
                                             Some(Digits, 2, 4)>>}),
           Pattern(TRUE, {<<Numeral(2, 2, 1..12), Slash, Numeral(2, 2, 1..31), Slash,
                            Numeral(4, 4, 1900..2099)>>})>>
    [] type = "passport" ->
         <<Labelled("Passport", {"#", ":", " ", "-"}, 1, {<<Some(Letters \cup Digits, 6, 9)>>})>>
    [] type = "driver_license" ->
         <<Labelled("DL", {"#", ":", " "}, 1, {<<Some(Letters \cup Digits, 5, 20)>>})>>
    [] type = "bank_account" ->
         <<Labelled("Account", {"#", ":", " ", "-"}, 0, {<<Some(Digits, 8, 17)>>}),
           Pattern(TRUE, {Iban, Iban \o <<Some(Digits, 3, 3)>>})>>
    [] type = "medical_record" ->
         <<Labelled("MRN", {"#", ":", " "}, 1, {<<Some(Letters \cup Digits, 6, 12)>>})>>

(* The kinds in the order in which they are compiled, and by their names.  *)
Compiled == <<"bsn", "ssn", "credit_card", "email", "phone", "ip_address", "date_of_birth",
              "passport", "driver_license", "bank_account", "medical_record">>
Types == <<"bank_account", "bsn", "credit_card", "custom", "date_of_birth", "driver_license",
           "email", "ip_address", "medical_record", "passport", "phone", "ssn">>
AsStr(type) == CHOOSE n \in DOMAIN Types : Types[n] = type

(***************************************************************************)
(* The configuration: none when it is refused.  A custom pattern has the   *)
(* fields it must have ("complete"), and compiles within the guardrails    *)
(* ("sound"), or not.                                                      *)
(***************************************************************************)
Strategies == {"redact", "partial", "hash", "tokenize", "remove"}

ValidateCustomPattern(p) == p.sound
CompilePatterns(raw, default) ==
  LET builtIn(type) == [n \in DOMAIN BuiltIn(type) |->
                         [type |-> type, pattern |-> n, strategy |-> default]]
      custom == SelectSeq(Given(raw, "custom_patterns", << >>), LAMBDA p : p.enabled)
      own(p) == [type |-> "custom", pattern |-> p.pattern,
                 strategy |-> IF p.mask_strategy = "None" THEN default ELSE p.mask_strategy]
      wanted == SelectSeq(Compiled, LAMBDA type : Given(raw, type, TRUE))
  IN FlattenSeq([n \in DOMAIN wanted |-> builtIn(wanted[n])])
       \o [n \in DOMAIN custom |-> own(custom[n])]

Configs(raw) ==
  LET limit(key) == Given(raw, key, PiiDefaults[key])
      default == Given(raw, "default_mask_strategy", "redact")
      custom == ToSet(Given(raw, "custom_patterns", << >>))
      valid ==
        /\ limit("max_text_bytes") \in 1..MaxTextBytes
        /\ limit("max_nested_depth") \in 1..MaxNestedDepth
        /\ limit("max_collection_items") \in 1..MaxCollectionItems
        /\ default \in Strategies
        /\ \A p \in custom : /\ p.complete
                             /\ p.mask_strategy \in Strategies \cup {"None"}
                             /\ p.enabled => ValidateCustomPattern(p)
        /\ \A p \in Given(raw, "whitelist_patterns", {}) : p.sound
  IN IF ~valid THEN {}
     ELSE {[max_text_bytes |-> limit("max_text_bytes"),
            max_nested_depth |-> limit("max_nested_depth"),
            max_collection_items |-> limit("max_collection_items"),
            redaction_text |-> limit("redaction_text"),
            block_on_detection |-> Given(raw, "block_on_detection", FALSE),
            patterns |-> CompilePatterns(raw, default),
            whitelist |-> {p.pattern : p \in Given(raw, "whitelist_patterns", {})}]}

(***************************************************************************)
(* Detection.                                                              *)
(***************************************************************************)
IsValidSsn(value) ==
  LET digits == OnlyDigits(value)
  IN /\ Len(digits) = 9
     /\ Amount(SubSeq(digits, 1, 3)) \in (1..899) \ {666}
     /\ Amount(SubSeq(digits, 4, 5)) # 0
     /\ Amount(SubSeq(digits, 6, 9)) # 0

HasKnownCardPrefix(digits) ==
  LET prefix(n) == Amount(SubSeq(digits, 1, n))
      len == Len(digits)
  IN \/ prefix(1) = 4 /\ len \in {13, 16, 19}
     \/ prefix(2) \in {34, 37} /\ len = 15
     \/ (prefix(4) = 6011 \/ prefix(2) = 65) /\ len \in {16, 19}
     \/ prefix(2) = 62 /\ len \in 16..19
     \/ prefix(2) = 67 /\ len \in 12..19
     \/ (prefix(2) \in {36, 38, 39} \/ prefix(3) \in 300..305) /\ len = 14
     \/ (prefix(2) \in 51..55 \/ prefix(4) \in (2221..2720) \cup (3528..3589)) /\ len = 16

Doubled(n) == IF 2 * n > 9 THEN 2 * n - 9 ELSE 2 * n
PassesLuhn(value) ==
  LET digits == OnlyDigits(value)
      weighed(i) == LET n == DigitValue[digits[i]]
                    IN IF (i - 1) % 2 = Len(digits) % 2 THEN Doubled(n) ELSE n
  IN /\ Len(digits) \in 13..19
     /\ FoldLeftDomain(LAMBDA sum, i : sum + weighed(i), 0, digits) % 10 = 0
     /\ HasKnownCardPrefix(digits)

IsValidDetection(type, value) ==
  /\ type = "ssn" => IsValidSsn(value)
  /\ type = "credit_card" => PassesLuhn(value)

IsWhitelisted(value, c) == \E p \in c.whitelist : Captures(value, p) # {}

Candidates(text, c) ==
  UNION {LET p == c.patterns[n]
             expression == IF p.type = "custom" THEN p.pattern ELSE BuiltIn(p.type)[p.pattern]
             found(at) == [type |-> p.type, pattern |-> n, strategy |-> p.strategy,
                           start |-> at[1], end |-> at[2],
                           value |-> SubSeq(text, at[1] + 1, at[2])]
         IN {d \in {found(at) : at \in Captures(text, expression)} :
               ~IsWhitelisted(d.value, c) /\ IsValidDetection(d.type, d.value)} :
         n \in DOMAIN c.patterns}

ShorterFirst(a, b) ==                                          \* mutant
  \/ a.start < b.start
  \/ a.start = b.start /\ a.end < b.end
  \/ a.start = b.start /\ a.end = b.end /\ AsStr(a.type) < AsStr(b.type)
  \/ a.start = b.start /\ a.end = b.end /\ a.type = b.type /\ a.pattern < b.pattern
Before(a, b) ==
  \/ a.start < b.start
  \/ a.start = b.start /\ a.end > b.end
  \/ a.start = b.start /\ a.end = b.end /\ AsStr(a.type) < AsStr(b.type)
  \/ a.start = b.start /\ a.end = b.end /\ a.type = b.type /\ a.pattern < b.pattern
Free(d, lastEnd) == d.start >= lastEnd
CollectDetections(text, c) ==
  LET take(kept, d) ==
        IF Free(d, IF kept = << >> THEN 0 ELSE Last(kept).end) THEN Append(kept, d) ELSE kept
  IN FoldLeft(take, << >>, InOrder(Candidates(text, c), Before))

(***************************************************************************)
(* Masks.                                                                  *)
(***************************************************************************)
Stars(n) == [i \in 1..n |-> "*"]
LastFour(value) == SubSeq(value, Len(value) - 3, Len(value))
GenericMask(value) ==
  CASE Len(value) > 2 -> <<Head(value)>> \o Stars(Len(value) - 2) \o <<Last(value)>>
    [] Len(value) = 2 -> <<Head(value), "*">>
    [] OTHER -> <<"*">>
IbanLike(value) ==
  Len(value) >= 4 /\ \E i \in DOMAIN value : value[i] \in Letters \cup Labels
PartialMask(value, type) ==
  LET digits == OnlyDigits(value)
      tail(t, stars) == stars \o (IF Len(t) >= 4 THEN LastFour(t) ELSE Stars(4))
      at == SelectInSeq(value, LAMBDA ch : ch = "@")
  IN CASE type = "ssn" -> tail(value, <<"*", "*", "*", "-", "*", "*", "-">>)
       [] type = "bsn" -> IF Len(value) >= 4 THEN Stars(5) \o LastFour(value) ELSE <<"[REDACTED]">>
       [] type = "credit_card" -> tail(digits, Stars(12))
       [] type = "phone" -> tail(digits, Stars(6))
       [] type = "email" ->
            IF at = 0 THEN <<"[REDACTED]">>
            ELSE (IF at > 3 THEN <<value[1]>> \o Stars(3) \o <<value[at - 1]>> ELSE Stars(3))
                   \o SubSeq(value, at, Len(value))
       [] type = "bank_account" ->
            IF IbanLike(value)
            THEN SubSeq(value, 1, 2) \o Stars(Len(value) - 6) \o LastFour(value)
            ELSE <<"[REDACTED]">>
       [] OTHER -> GenericMask(value)

(* A hash and a token are new symbols.                                     *)
ApplyMaskStrategy(d, c) ==
  CASE d.strategy = "redact" -> c.redaction_text
    [] d.strategy = "partial" -> PartialMask(d.value, d.type)
    [] d.strategy = "hash" -> <<"[HASH]">>
    [] d.strategy = "tokenize" -> <<"[TOKEN]">>
    [] d.strategy = "remove" -> << >>

(* Spans in the order of their starts.                                     *)
MaskPii(text, spans, c) ==
  LET next(done, d) ==
        [text |-> done.text \o SubSeq(text, done.cursor + 1, d.start) \o ApplyMaskStrategy(d, c),
         cursor |-> d.end]
      done == FoldLeft(next, [text |-> << >>, cursor |-> 0], spans)
  IN done.text \o SubSeq(text, done.cursor + 1, Len(text))

(* Spans from the caller of the detector's own interface.                  *)
WithinText(text, spans) ==                                     \* mutant
  \A d \in spans : d.start <= d.end /\ d.end <= Len(text)
ValidateDetectionRanges(text, spans) ==
  LET order == InOrder({<<d.start, d.end>> : d \in spans},
                       LAMBDA a, b : a[1] < b[1] \/ (a[1] = b[1] /\ a[2] < b[2]))
  IN /\ \A d \in spans : d.start <= d.end /\ d.end <= Len(text)
     /\ \A d, e \in spans : d # e => (<<d.start, d.end>> # <<e.start, e.end>> \/ d.start = d.end)
     /\ \A i \in 2..Len(order) : order[i][1] >= order[i - 1][2]

(***************************************************************************)
(* Nested data: what is too deep or too large anywhere stops the call.     *)
(***************************************************************************)
ValidateTextSize(text, c) == Len(text) <= c.max_text_bytes
RECURSIVE Rejected(_, _, _)
Rejected(v, depth, c) ==
  \/ depth > c.max_nested_depth
  \/ IsText(v) /\ ~ValidateTextSize(v.text, c)
  \/ /\ IsNested(v)
     /\ \/ v.type # "object" /\ Len(Children(v)) > c.max_collection_items
        \/ \E i \in DOMAIN Children(v) : Rejected(Children(v)[i], depth + 1, c)

(* Every detection in the data, and the data with all of them masked.      *)
RECURSIVE Detections(_, _)
Detections(v, c) ==
  IF IsText(v) THEN CollectDetections(v.text, c)
  ELSE IF IsNested(v)
       THEN FlattenSeq([i \in DOMAIN Children(v) |-> Detections(Children(v)[i], c)])
  ELSE << >>
RECURSIVE Masked(_, _)
Masked(v, c) ==
  IF IsText(v) THEN Str(MaskPii(v.text, CollectDetections(v.text, c), c))
  ELSE IF IsNested(v)
       THEN WithChildren(v, [i \in DOMAIN Children(v) |-> Masked(Children(v)[i], c)])
  ELSE v

(***************************************************************************)
(* The hooks.                                                              *)
(***************************************************************************)
DetectedTypes(found) == {found[n].type : n \in DOMAIN found}
MaskedEither(found, masked, traced) ==                      \* mutant
  IF ~traced THEN "None"
  ELSE [total_detections |-> Len(found), total_masked |-> Len(found),
        detection_types |-> DetectedTypes(found)]
Metrics(found, masked, traced) ==
  IF ~traced THEN "None"
  ELSE [total_detections |-> Len(found), total_masked |-> IF masked THEN Len(found) ELSE 0,
        detection_types |-> DetectedTypes(found)]
Blocked(v, found, traced) ==
  [kind |-> "blocked", payload |-> v, metrics |-> Metrics(found, FALSE, traced),
   violation |-> [detected_types |-> DetectedTypes(found), count |-> Len(found)]]
Modified(v, found, traced) ==
  [kind |-> "modified", payload |-> v, metrics |-> Metrics(found, TRUE, traced)]
Default(v) == [kind |-> "pass", payload |-> v]
Raised(v) == [kind |-> "raised", payload |-> v]

(* prompt_pre_fetch, tool_pre_invoke, tool_post_invoke                     *)
HandleNestedStage(v, c, traced) ==
  LET found == Detections(v, c)
  IN IF v.type = "None" THEN Default(v)
     ELSE IF Rejected(v, 0, c) THEN Raised(v)
     ELSE IF found = << >> THEN Default(v)
     ELSE IF c.block_on_detection THEN Blocked(v, found, traced)
     ELSE Modified(Masked(v, c), found, traced)

HasAttribute(v, name) == v.type = "object" /\ name \in Keys(v.attributes)
Attribute(v, name) == Item(v.attributes, name)
HasTextContent(message) ==
  /\ HasAttribute(message, "content")
  /\ HasAttribute(Attribute(message, "content"), "text")
  /\ IsText(Attribute(Attribute(message, "content"), "text"))
ContentText(message) == Attribute(Attribute(message, "content"), "text").text
WithText(message, text) ==
  LET content == Object(ReplaceKey(Attribute(message, "content").attributes, "text", Str(text)))
  IN Object(ReplaceKey(message.attributes, "content", content))

PromptPostFetch(v, c, traced) ==
  LET texts == {i \in DOMAIN v.items : HasTextContent(v.items[i])}
      found(i) == IF i \in texts THEN CollectDetections(ContentText(v.items[i]), c) ELSE << >>
      raises(i) == /\ i \in texts
                   /\ \/ ~ValidateTextSize(ContentText(v.items[i]), c)
                      \/ found(i) # << >> /\ ~HasAttribute(v.items[i], "role")
      stops == {i \in texts : raises(i) \/ (c.block_on_detection /\ found(i) # << >>)}
      all == FlattenSeq([i \in DOMAIN v.items |-> found(i)])
      masked(i) == IF found(i) = << >> THEN v.items[i]
                   ELSE WithText(v.items[i], MaskPii(ContentText(v.items[i]), found(i), c))
  IN IF v.type # "list" THEN Default(v)
     ELSE IF stops # {}
          THEN IF raises(Min(stops)) THEN Raised(v)
               ELSE Blocked(v, found(Min(stops)), traced)
     ELSE IF all = << >> THEN Default(v)
     ELSE Modified(List([i \in DOMAIN v.items |-> masked(i)]), all, traced)

(* PIIDetectorRust.mask: what it may answer.  The spans are put in the     *)
(* order of their starts only, and an empty one may then stand before or   *)
(* after the one that starts with it; after it, the cursor is past it and  *)
(* the slice of the text up to it panics.  So does the mask of an account  *)
(* number that is too short for its stars.                                 *)
ByStart(spans) ==
  {order \in SetToSeqs(spans) :
     \A i, j \in DOMAIN order : i < j => order[i].start <= order[j].start}
PyDetectionsToRust(spans) ==
  {[d EXCEPT !.strategy = IF @ \in Strategies THEN @ ELSE "redact"] :
     d \in {e \in spans : e.type \in ToSet(Types)}}
Mask(text, spans, c) ==
  LET known == PyDetectionsToRust(spans)
      passed(order) == \E i \in 2..Len(order) : order[i - 1].end > order[i].start
      tooShort == \E d \in known : /\ d.type = "bank_account" /\ d.strategy = "partial"
                                   /\ IbanLike(d.value) /\ Len(d.value) < 6
      answer(order) == IF passed(order) \/ tooShort THEN [kind |-> "panicked", payload |-> Str(text)]
                       ELSE [kind |-> "masked", payload |-> Str(MaskPii(text, order, c))]
  IN IF \/ ~ValidateTextSize(text, c)
        \/ \E d \in spans : ~d.complete
        \/ ~ValidateDetectionRanges(text, known)
     THEN {Raised(Str(text))}
     ELSE {answer(order) : order \in ByStart(known)}
=============================================================================
