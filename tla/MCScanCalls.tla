---------------------------- MODULE MCScanCalls ----------------------------
(***************************************************************************)
(* Instances of ScanCalls for TLC.                                         *)
(***************************************************************************)
EXTENDS ScanCalls

LOCAL INSTANCE TextPatterns

Deploy(plugin, hook, raws, inputs, spans, traced) ==
  [plugin |-> plugin, hook |-> hook, raws |-> raws, inputs |-> inputs, spans |-> spans,
   traced |-> traced]
Texts(chars, sizes) == UNION {[1..n -> chars] : n \in sizes}
NoKeys == [k \in {} |-> k]

(***************************************************************************)
(* The PII filter.                                                         *)
(***************************************************************************)
Decimal ==
  LET symbols == <<"0", "1", "2", "3", "4", "5", "6", "7", "8", "9">>
  IN [d \in ToSet(symbols) |-> (CHOOSE n \in 1..10 : symbols[n] = d) - 1]
Redacted == [max_text_bytes |-> 60, max_nested_depth |-> 6, max_collection_items |-> 4,
             redaction_text |-> <<"[R]">>]

(* Patterns that overlap in every way over three letters.                  *)
Run(runs) == Pattern(FALSE, {runs})
Custom(p, strategy) ==
  [pattern |-> p, mask_strategy |-> strategy, enabled |-> TRUE, complete |-> TRUE, sound |-> TRUE]
Ab == Run(<<One({"a"}), One({"b"})>>)
Bc == Run(<<One({"b"}), One({"c"})>>)
As == Run(<<Many({"a"}, 2)>>)
Abc == Run(<<One({"a"}), One({"b", "c"}), One({"c"})>>)
Cc == Run(<<One({"c"}), One({"c"})>>)
Kinds == {"bsn", "ssn", "credit_card", "email", "phone", "ip_address", "date_of_birth",
          "passport", "driver_license", "bank_account", "medical_record"}
NoBuiltIn == [type \in Kinds |-> FALSE]
WithCustom(patterns, more) == NoBuiltIn @@ [custom_patterns |-> patterns] @@ more
Overlapping ==
  {WithCustom(<<Custom(Ab, "remove"), Custom(Bc, "None"), Custom(Abc, "partial")>>, NoKeys),
   WithCustom(<<Custom(As, "hash"), Custom(Cc, "None"), Custom(Ab, "partial"),
                [Custom(Abc, "None") EXCEPT !.enabled = FALSE, !.sound = FALSE]>>,
              [default_mask_strategy |-> "tokenize"]),
   WithCustom(<<Custom(Ab, "None"), Custom(Abc, "hash"), Custom(Bc, "redact")>>,
              [whitelist_patterns |-> {[pattern |-> Bc, sound |-> TRUE]}]),
   WithCustom(<<Custom(Bc, "None"), Custom(Cc, "None"), Custom(As, "None")>>,
              [block_on_detection |-> TRUE])}
Letter == Texts({"a", "b", "c"}, 0..5)

(* The built-in patterns, side by side.                                    *)
Ssn == <<"1", "2", "3", "-", "4", "5", "-", "6", "7", "8", "9">>
Dob == <<"0", "1", "/", "0", "2", "/", "1", "9", "9", "0">>
Phone == <<"5", "5", "5", "-", "1", "2", "3", "-", "4", "5", "6", "7">>
Email == <<"a", "b", "c", "1", "@", "a", ".", "a", "b">>
Pieces ==
  {Ssn, Dob, Phone, Email,
   <<"SSN", ":", " ", "1", "2", "3", "4", "5", "6", "7", "8", "9">>,
   <<"My", " ", "BSN", " ", "is", " ", "1", "2", "3", "4", "5", "6", "7", "8", "9">>,
   <<"Account", " ", "1", "2", "3", "4", "5", "6", "7", "8">>,
   <<"1", ".", "2", "2", ".", "2", "5", "5", ".", "4">>,
   <<"6", "6", "6", "-", "4", "5", "-", "6", "7", "8", "9">>, <<"a", "(", "+">>}
SideBySide == {p \o s \o q : p \in Pieces, q \in Pieces, s \in {<< >>, <<" ">>, <<"-">>, <<".">>}}
BuiltIns ==
  {NoKeys, [default_mask_strategy |-> "partial", phone |-> FALSE], [block_on_detection |-> TRUE]}

Cards ==
  {<<"4", "1", "1", "1", "1", "1", "1", "1", "1", "1", "1", "1", "1", "1", "1", "1">>,
   <<"3", "7", "8", "2", "8", "2", "2", "4", "6", "3", "1", "0", "0", "0", "5">>,
   <<"3", "0", "5", "6", "9", "3", "0", "9", "0", "2", "5", "9", "0", "4">>,
   <<"4", "2", "2", "2", "2", "2", "2", "2", "2", "2", "2", "2", "2">>}
Spaced == <<"4", "1", "1", "1", " ", "1", "1", "1", "1", "-", "1", "1", "1", "1", " ", "1", "1", "1", "1">>
CardTexts == {<<"a", " ">> \o t \o <<" ", "a">> : t \in Cards} \cup Cards \cup {Spaced}
CardOnly == [type \in Kinds \ {"credit_card"} |-> FALSE]

(* Nested data, too deep and too large among it.                           *)
Leaves == {Str(<<"a", "b">>), Str(<<"c", "a">>), Str(<<"b", "c", "a", "b">>), Number, None}
Pairs == {<<v, w>> : v \in Leaves, w \in Leaves}
Nested ==
  Leaves
    \cup {Dict(<<Entry("x", p[1]), Entry("y", p[2])>>) : p \in Pairs}
    \cup {Tuple(<<p[1], List(<<p[2]>>)>>) : p \in Pairs}
    \cup {Object(Dict(<<Entry("x", p[1]), Entry("y", PySet({p[1], p[2]}))>>)) : p \in Pairs}
    \cup {List(<<v, v, v, v, v>>) : v \in Leaves}
    \cup {List(<<Tuple(<<Dict(<<Entry("x", Object(Dict(<<Entry("y", List(<<v>>))>>)))>>)>>)>>) : v \in Leaves}
    \cup {Str([n \in 1..size |-> "a"]) : size \in {60, 61}}

Attributes(entries) == Object(Dict(entries))
Message(v) == Attributes(<<Entry("role", Str(<<"a", "b">>)), Entry("content", v)>>)
Content(v) == Attributes(<<Entry("text", v), Entry("type", Str(<<"a", "b">>))>>)
SomeMessages ==
  {Message(Content(v)) : v \in Leaves}
    \cup {Message(Number), Number, Message(Attributes(<<Entry("uri", Str(<<"a", "b">>))>>)),
          Message(Content(Str([n \in 1..61 |-> "c"]))),
          Attributes(<<Entry("content", Content(Str(<<"b", "a">>)))>>),
          Attributes(<<Entry("content", Content(Str(<<"a", "b">>)))>>)}
MessageLists ==
  {List(<<m, n>>) : m \in SomeMessages, n \in SomeMessages}
    \cup {List(<<Message(Content(Str(<<"a", "b">>))), m, Message(Content(Str(<<"b", "c">>)))>>) :
            m \in SomeMessages}
    \cup {Number}

(* Spans of a caller.                                                      *)
Abcde == <<"a", "b", "c", "1", "@">>
Account == <<"a", "b", "1", "2", "3", "4", "5">>
SpanOf(text, type, start, end, strategy) ==
  [type |-> type, start |-> start, end |-> end, strategy |-> strategy, complete |-> TRUE,
   value |-> [i \in 1..end - start |-> IF start + i \in DOMAIN text THEN text[start + i] ELSE "?"]]
Span(type, start, end, strategy) == SpanOf(Abcde, type, start, end, strategy)
SomeSpans ==
  {Span(t, s, e, "partial") : t \in {"phone", "custom"}, s \in 0..4, e \in 1..6}
    \cup {Span("email", s, e, "anything") : s \in {0, 2}, e \in {1, 2, 5}}
    \cup {Span("unknown", 0, 3, "redact"), Span("ssn", 1, 1, "remove"),
          [Span("bsn", 1, 2, "hash") EXCEPT !.complete = FALSE]}
AccountSpans ==
  {{SpanOf(Account, "bank_account", s, e, "partial")} \cup more :
     s \in 0..4, e \in 1..7,
     more \in {{}, {SpanOf(Account, "custom", 6, 7, "partial")}, {SpanOf(Account, "bsn", 0, 1, "hash")},
              {SpanOf(Account, "bank_account", 0, 2, "redact")}}}
SpanSets == {{}} \cup {{d, e} : d \in SomeSpans, e \in SomeSpans}
              \cup {{Span("custom", 0, 1, "remove"), d, Span("phone", 3, 4, "hash")} : d \in SomeSpans}

PiiRejected ==
  {[default_mask_strategy |-> "drop"], [max_nested_depth |-> 0], [max_collection_items |-> 1000],
   [custom_patterns |-> <<[Custom(Ab, "None") EXCEPT !.complete = FALSE, !.enabled = FALSE]>>],
   [custom_patterns |-> <<[Custom(Ab, "None") EXCEPT !.sound = FALSE]>>],
   [whitelist_patterns |-> {[pattern |-> Ab, sound |-> FALSE]}]}

Nothing == {{}}
PiiDeployments ==
  {Deploy("pii_filter", "nested", Overlapping, {Str(t) : t \in Letter}, Nothing, BOOLEAN),
   Deploy("pii_filter", "nested", BuiltIns, {Str(t) : t \in SideBySide}, Nothing, {TRUE}),
   Deploy("pii_filter", "nested", {CardOnly}, {Str(t) : t \in CardTexts}, Nothing, {FALSE}),
   Deploy("pii_filter", "nested", Overlapping, Nested, Nothing, {TRUE}),
   Deploy("pii_filter", "messages", Overlapping, MessageLists, Nothing, {TRUE}),
   Deploy("pii_filter", "mask", {NoKeys}, {Str(Abcde)}, SpanSets, {FALSE}),
   Deploy("pii_filter", "mask", {NoKeys}, {Str(Account)}, AccountSpans, {FALSE}),
   Deploy("pii_filter", "nested", PiiRejected, {Number}, Nothing, {FALSE})}

(***************************************************************************)
(* Encoded payloads.  "g" is in no hexadecimal number, "/" not in the      *)
(* alphabet for URLs, "-" only there; "%" and "x" are whole encoded bytes, *)
(* "p" a sensitive keyword, "u" a hint.  "K" takes three bytes and its     *)
(* lower case one (as the Kelvin sign, U+212A, does), "I" two and three.   *)
(***************************************************************************)
Alphabets ==
  [base64 |-> {"a", "g", "/"}, base64url |-> {"a", "g", "-"}, hex |-> {"a"},
   percent_encoding |-> {"%"}, escaped_hex |-> {"x"}]
SymbolWidths == [ch \in {"K", "I"} |-> IF ch = "K" THEN <<3, 1>> ELSE <<2, 3>>]
Runs == [e \in DOMAIN Alphabets |-> 2]
Layer(encoding, code, plain, entropic, printable) ==
  [encoding |-> encoding, code |-> code, plain |-> plain, entropic |-> entropic,
   printable |-> printable]
a == "a"
g == "g"
SomeLayers ==
  {Layer("hex", <<a, a>>, <<" ", "p">>, FALSE, TRUE),
   Layer("base64", <<a, a>>, <<" ", " ">>, FALSE, TRUE),
   Layer("base64", <<a, g>>, <<"%", "%">>, FALSE, FALSE),
   Layer("base64url", <<a, g>>, <<" ", "p">>, TRUE, TRUE),
   Layer("percent_encoding", <<"%", "%">>, <<g, g, " ">>, TRUE, FALSE),
   Layer("base64", <<g, g>>, <<"x", "x", "u">>, FALSE, FALSE),
   Layer("escaped_hex", <<"x", "x">>, <<"p", "p">>, FALSE, TRUE),
   Layer("escaped_hex", <<"x", "x", "x">>, <<"p">>, TRUE, TRUE),
   Layer("base64", <<a, g, g>>, <<"K", "K", "K", a, a>>, FALSE, FALSE),
   Layer("base64", <<g, a, "=">>, <<"p", " ">>, FALSE, FALSE),
   Layer("base64", <<g, g, "/", a, g>>, <<"p", " ", "p">>, TRUE, TRUE)}

Codes == {<<a, a>>, <<a, g>>, <<g, g>>, <<"%", "%">>, <<"x", "x">>, <<"x", "x", "x">>, <<g, a, "=">>}
Others == {<<" ">>, <<" ", "u", " ">>, << >>, <<"-">>, <<"=">>}
ExfilTexts ==
  {p \o s \o q : p \in Codes, q \in Codes, s \in Others}
    \cup {p \o <<" ">> \o q \o <<" ">> \o r : p \in Codes, q \in Codes, r \in {<<a, g>>, <<g, g>>}}
    \cup {<< >>, [n \in 1..13 |-> a], <<a, g, g>>}
    \cup {wide \o hint \o p \o more :
            wide \in {<<"K">>, <<"K", "K">>, <<"K", "K", "K">>, <<"I", "I", "I">>, <<"K", "I", "I">>},
            hint \in {<< >>, <<"u">>, <<" ", " ", "u">>}, p \in Codes, more \in {<< >>, <<"u">>}}
OverlappingTexts == {<<g, g, "/", a, g>>, <<" ", g, g, "/", a, g, " ">>}

Json == <<"{", a, a, " ", "}">>
JsonTexts == [t \in {Json} |-> Dict(<<Entry("x", Str(<<a, g>>)), Entry("y", Str(<<a, a>>))>>)]
LongKeys == [k \in {"key"} |-> <<a, a>>]
ScanDefault ==
  [enabled |-> NoKeys, min_encoded_length |-> 2, min_decoded_length |-> 2,
   min_suspicion_score |-> 3, max_scan_string_length |-> 12, max_findings_per_value |-> 2,
   redact |-> TRUE, redaction_text |-> <<"R">>, block_on_detection |-> FALSE,
   min_findings_to_block |-> 1, allowlist_patterns |-> {}, extra_sensitive_keywords |-> {},
   extra_egress_hints |-> {}, max_decode_depth |-> 2, max_recursion_depth |-> 3,
   per_encoding_score |-> NoKeys, parse_json_strings |-> TRUE]

ExfilRaws ==
  {[max_decode_depth |-> d, redaction_text |-> r, max_findings_per_value |-> m] :
     d \in {1, 2, 3}, r \in {<<"R">>, <<"R", "R", "R", "R">>}, m \in {1, 3}}
  \cup
  {[block_on_detection |-> TRUE, min_findings_to_block |-> n, per_encoding_score |-> s, enabled |-> e] :
     n \in {1, 2}, s \in {NoKeys, [base64 |-> 1], [hex |-> 6]}, e \in {NoKeys, [base64url |-> FALSE]}}
  \cup
  {[allowlist_patterns |-> {[code |-> <<a, a>>, sound |-> TRUE]}, redact |-> r,
    extra_sensitive_keywords |-> {" "}, extra_egress_hints |-> {"="}] : r \in BOOLEAN}
ExfilTexts3 == {<<a, a>>, <<a, g, " ", a, a>>, Json, <<" ">>}
ExfilNested ==
  {Dict(<<Entry("x", Str(t)), Entry("key", v)>>) : t \in ExfilTexts3, v \in {Number, None, Str(<<a, a>>)}}
    \cup {List(<<Dict(<<Entry("x", List(<<Str(t)>>))>>), Str(u)>>) : t \in ExfilTexts3, u \in ExfilTexts3}
    \cup {List(<<List(<<List(<<List(<<Str(t)>>)>>)>>), Tuple(<<Str(t)>>), Str(t)>>) : t \in ExfilTexts3}
    \cup {Str(Json), None}
ExfilRejected ==
  {[max_decode_depth |-> 6], [allowlist_patterns |-> {[code |-> << >>, sound |-> FALSE]}]}
ExfilDeployments ==
  {Deploy("encoded_exfil_detection", "nested", ExfilRaws, {Str(t) : t \in ExfilTexts}, Nothing, {TRUE}),
   Deploy("encoded_exfil_detection", "nested", ExfilRaws, ExfilNested, Nothing, BOOLEAN),
   Deploy("encoded_exfil_detection", "nested", ExfilRejected, {Number}, Nothing, {TRUE})}
OverlappingSegments ==
  {Deploy("encoded_exfil_detection", "nested", ExfilRaws, {Str(t) : t \in OverlappingTexts}, Nothing, {TRUE})}

(***************************************************************************)
(* Secrets.  The smallest secrets keep the order of their true sizes.      *)
(***************************************************************************)
Sizes ==
  [aws_access_key_id |-> 2, aws_secret_access_key |-> 6, base64_24 |-> 4,
   generic_api_key_assignment |-> 3, github_token |-> 5, google_api_key |-> 5,
   hex_secret_32 |-> 5, jwt_like |-> 1, slack_token |-> 1, stripe_secret_key |-> 2]
Marks == [begin \in {"BEGIN", "BEGIN RSA"} |-> IF begin = "BEGIN" THEN "END" ELSE "END RSA"]
SecretDefault ==
  [enabled |-> NoKeys, redact |-> FALSE, redaction_text |-> <<"R">>, block_on_detection |-> TRUE,
   min_findings_to_block |-> 1, field_allowlist |-> {}, field_denylist |-> {}]
WordSymbols ==
  {"a", "b", "c", "z", "Z", "_", "SSN", "BSN", "DOB", "Passport", "DL", "Account", "MRN", "My", "is",
   "AKIA", "AIza", "eyJ", "xox", "gh_", "github_pat_", "sk_live_", "api_key", "aws_secret"}
    \cup DOMAIN Decimal

SecretCodes ==
  {<<"AKIA", "1", "Z">>, <<"AIza", "a", "-", "_", "z", "a">>, <<"gh_", "a", "b", "z", "1", "2">>,
   <<"github_pat_", "a", "_", "b", "c", "1">>, <<"sk_live_", "a", "z">>, <<"xox", "-", "a", "b">>,
   <<"eyJ", "a", ".", "eyJ", "b", ".", "c">>, <<"a", "b", "c", "1", "2">>, <<"z", "a", "=", "=">>,
   <<"z", "a", "/", "=">>, <<"z", "a", "+", "1", "=", "=">>, <<"z">>, << >>,
   <<"api_key", ":", " ", "'", "a", "b", "c", "'">>, <<"api_key", "=", "a", "b", "c", "1", "2", "-">>,
   <<"aws_secret", "z", "=", "a", "b", "c", "1", "2", "a">>,
   <<"BEGIN RSA", "a", "END", "a", "b", "c", "1", "2", "END RSA">>, <<"BEGIN", " ">>}
SecretTexts ==
  {p \o s \o q : p \in SecretCodes, q \in SecretCodes, s \in {<< >>, <<" ">>, <<"=">>, <<"/">>}}
AllPatterns == [name \in Secrets!BroadPatterns |-> TRUE]
SecretRaws ==
  {[enabled |-> e, redact |-> r] : e \in {NoKeys, AllPatterns}, r \in BOOLEAN}
    \cup {[enabled |-> AllPatterns, redact |-> TRUE, redaction_text |-> << >>, block_on_detection |-> FALSE,
           field_denylist |-> {<<"x">>}],
          [enabled |-> [jwt_like |-> TRUE, aws_access_key_id |-> FALSE], min_findings_to_block |-> 2,
           redact |-> TRUE]}
SecretRejected == {[field_allowlist |-> {<<"x", "">>}], [field_denylist |-> {<< >>}]}
SecretDeployments ==
  {Deploy("secrets_detection", "text", SecretRaws, {Str(t) : t \in SecretTexts}, Nothing, {TRUE}),
   Deploy("secrets_detection", "text", SecretRaws \cup {[min_findings_to_block |-> 0]},
          {None, Number, Str(<<"z">>), Str(<<"AKIA", "1", "Z">>)}, Nothing, BOOLEAN),
   Deploy("secrets_detection", "text", SecretRejected, {Number}, Nothing, {TRUE})}

AllDeployments == PiiDeployments \cup ExfilDeployments \cup SecretDeployments
=============================================================================
