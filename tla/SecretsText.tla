---------------------------- MODULE SecretsText -----------------------------
(***************************************************************************)
(* How secrets_detection reads one text (plugins/rust/python-package/      *)
(* secrets_detection): its patterns, how overlapping matches become one    *)
(* finding, and the hooks' answer.  A text is a sequence of symbols: a     *)
(* character, or a word that a pattern looks for, such as "AKIA" or the    *)
(* marks around a private key.  ScanGraph has the containers.              *)
(***************************************************************************)
EXTENDS PyValues, TextPatterns

CONSTANTS
  Letters, HexLetters, Capitals,   \* symbols, the others among the first
  Size,          \* the symbols that the secret of each pattern has at least
  KeyMarks,      \* the mark that ends a private key, by the one that begins it
  SecretDefaults \* the configuration when nothing is given

(***************************************************************************)
(* The patterns, in the order of their names.                              *)
(***************************************************************************)
Names == <<"aws_access_key_id", "aws_secret_access_key", "base64_24",
           "generic_api_key_assignment", "github_token", "google_api_key", "hex_secret_32",
           "jwt_like", "private_key_block", "slack_token", "stripe_secret_key">>
BroadPatterns == {"generic_api_key_assignment", "jwt_like", "hex_secret_32", "base64_24"}

Underscored == {"gh_", "github_pat_", "sk_live_", "api_key", "aws_secret", "_"}
Alphanumeric == Letters \cup Digits \cup {"AKIA", "AIza", "eyJ", "xox"}
Base64 == Alphanumeric \cup {"+", "/"}
Dashed == Alphanumeric \cup Underscored \cup {"-"}
AnyOf(text) == ToSet(text)

(* A secret behind a label, which a finding leaves out.                    *)
Assigned(label, between, class, from, to) ==
  [label |-> <<One({label})>> \o between \o
               <<One({"=", ":"}), Many({" "}, 0), Maybe({"'"})>>,
   secret |-> {<<Some(class, from, to)>>}, starts |-> FALSE, ends |-> FALSE]
Token(secret) == [label |-> << >>, secret |-> secret, starts |-> TRUE, ends |-> TRUE]

Shape(name, text) ==
  LET n == Size[name]
      segment == Many(Dashed, n)
  IN CASE name = "aws_access_key_id" ->
            Token({<<One({"AKIA"}), Some(Digits \cup Capitals \cup {"AKIA"}, n, n)>>})
       [] name = "aws_secret_access_key" ->
            Assigned("aws_secret", <<Some(AnyOf(text), 0, 20)>>, Base64 \cup {"="}, n, n)
       [] name = "base64_24" ->
            [label |-> <<One(AnyOf(text) \ Base64)>>,
             secret |-> {<<Many(Base64, n), Some({"="}, 0, 2)>>,
                         <<Some(Base64, n - 2, n - 2), Some({"="}, 2, 2)>>,
                         <<Some(Base64, n - 1, n - 1), One({"="})>>},
             starts |-> FALSE, ends |-> FALSE]
       [] name = "generic_api_key_assignment" ->
            [Assigned("api_key", <<Many({" "}, 0)>>, Dashed, n, 99) EXCEPT !.starts = TRUE]
       [] name = "github_token" ->
            Token({<<One({"gh_"}), Some(Alphanumeric, n, n)>>,
                   <<One({"github_pat_"}), Many(Alphanumeric \cup Underscored, n)>>})
       [] name = "google_api_key" -> Token({<<One({"AIza"}), Some(Dashed, n, n)>>})
       [] name = "hex_secret_32" -> Token({<<Many(Digits \cup HexLetters, n)>>})
       [] name = "jwt_like" ->
            Token({<<One({"eyJ"}), segment, One({"."}), One({"eyJ"}), segment, One({"."}), segment>>})
       [] name = "slack_token" ->
            Token({<<One({"xox"}), One({"-"}), Some(Alphanumeric \cup {"-"}, n, 8 * n)>>})
       [] name = "stripe_secret_key" -> Token({<<One({"sk_live_"}), Many(Alphanumeric, n)>>})

(* A private key ends with the mark of its own kind, or with the text.     *)
PrivateKeys(text) ==
  LET last(i) == LET marks == {e \in i + 1..Len(text) : text[e] = KeyMarks[text[i]]}
                 IN IF marks = {} THEN Len(text) ELSE Min(marks)
      next(found, i) == AddMatch(found, i - 1, IF text[i] \in DOMAIN KeyMarks THEN {last(i)} ELSE {})
  IN FoldLeftDomain(next, [matches |-> {}, end |-> 0], text).matches

(* Where the secrets of a pattern are.                                     *)
SecretPlaces(shape, text) ==
  LET pattern == [starts |-> shape.starts, ends |-> shape.ends,
                  alternatives |-> {shape.label \o s : s \in shape.secret}]
      begin(m) == Max({p \in Reached(text, m[1], {shape.label}) :
                         m[2] \in Reached(text, p, shape.secret)})
  IN {<<begin(m), m[2]>> : m \in Captures(text, pattern)}

(* The text's start stands for a symbol that is no part of a secret; the   *)
(* places behind it are one too far.                                       *)
Base64Places(text) ==
  LET behind == <<"^">> \o text
      complete(m) == m[2] = Len(text) \/ text[m[2] + 1] \notin Base64 \cup {"="}
  IN {m \in {<<b[1] - 1, b[2] - 1>> : b \in SecretPlaces(Shape("base64_24", behind), behind)} :
        complete(m)}

Places(name, text) ==
  CASE name = "private_key_block" -> PrivateKeys(text)
    [] name = "base64_24" -> Base64Places(text)
    [] OTHER -> SecretPlaces(Shape(name, text), text)

Candidates(text, c) ==
  {[name |-> name, start |-> m[1], end |-> m[2]] :
     <<name, m>> \in UNION {{n} \X Places(n, text) : n \in c.enabled}}

(***************************************************************************)
(* From candidates to findings.                                            *)
(***************************************************************************)
PatternSpecificity(name) ==
  CASE name \in {"generic_api_key_assignment", "jwt_like"} -> 1
    [] name = "hex_secret_32" -> 2
    [] name = "base64_24" -> 3
    [] OTHER -> 0
Rank(name) == CHOOSE n \in DOMAIN Names : Names[n] = name
Length(d) == d.end - d.start

Before(a, b) ==
  LET key(d, e) == <<d.start - e.start, PatternSpecificity(d.name) - PatternSpecificity(e.name),
                     Length(e) - Length(d), Rank(d.name) - Rank(e.name)>>
      k == key(a, b)
  IN \E n \in DOMAIN k : k[n] < 0 /\ \A i \in 1..n - 1 : k[i] = 0

EndOfTheFirst(current, d) == current.end                         \* mutant
LaterEnd(current, d) == Max({current.end, d.end})
MoreSpecific(d, current) ==
  LET difference == PatternSpecificity(d.name) - PatternSpecificity(current.name)
  IN difference < 0 \/ (difference = 0 /\ Length(d) > Length(current))
Merge(current, d) ==
  [name |-> IF MoreSpecific(d, current) THEN d.name ELSE current.name,
   start |-> current.start, end |-> LaterEnd(current, d)]
Selected(text, c) ==
  LET add(selected, d) ==
        IF selected = << >> \/ d.start >= Last(selected).end THEN Append(selected, d)
        ELSE Append(Front(selected), Merge(Last(selected), d))
  IN FoldLeft(add, << >>, InOrder(Candidates(text, c), Before))

RedactedText(text, selected, c) ==
  LET next(done, d) ==
        [text |-> done.text \o SubSeq(text, done.cursor + 1, d.start) \o c.redaction_text,
         cursor |-> d.end]
      done == FoldLeft(next, [text |-> << >>, cursor |-> 0], selected)
  IN done.text \o SubSeq(text, done.cursor + 1, Len(text))

(***************************************************************************)
(* The configuration: none when it is refused.  A field path is the        *)
(* sequence of its segments.                                               *)
(***************************************************************************)
MergeEnabledMap(overrides) ==
  {name \in ToSet(Names) : Given(overrides, name, name \notin BroadPatterns)}
Parses(path) == path # << >> /\ "" \notin ToSet(path)
Configs(raw) ==
  LET of(key) == Given(raw, key, SecretDefaults[key])
  IN IF \E path \in of("field_allowlist") \cup of("field_denylist") : ~Parses(path) THEN {}
     ELSE {[enabled |-> MergeEnabledMap(of("enabled")), redact |-> of("redact"),
            redaction_text |-> of("redaction_text"),
            block_on_detection |-> of("block_on_detection"),
            min_findings_to_block |-> of("min_findings_to_block"),
            field_allowlist |-> of("field_allowlist"), field_denylist |-> of("field_denylist")]}

(***************************************************************************)
(* The hooks, for a value that is a text itself: whatever the field lists  *)
(* say, it is scanned.                                                     *)
(***************************************************************************)
TypesOf(selected) == [n \in DOMAIN selected |-> selected[n].name]
Metrics(selected, outcome, traced) ==
  IF ~traced THEN "None"
  ELSE LET count(o) == IF outcome = o THEN Len(selected) ELSE 0
       IN [total_detections |-> Len(selected), total_masked |-> count("masked"),
           total_blocked |-> count("blocked"), secret_types |-> ToSet(TypesOf(selected))]
BlockedResult(payload, selected, traced) ==
  [kind |-> "blocked", payload |-> payload, metrics |-> Metrics(selected, "blocked", traced),
   violation |-> [count |-> Len(selected), types |-> TypesOf(selected)]]

ShouldBlock(count, c) == c.block_on_detection /\ count >= c.min_findings_to_block
AnswerTo(v, selected, c, traced) ==
  LET redacted == IF c.redact /\ selected # << >> THEN Str(RedactedText(v.text, selected, c)) ELSE v
  IN CASE ShouldBlock(Len(selected), c) -> BlockedResult(redacted, selected, traced)
       [] ~ShouldBlock(Len(selected), c) /\ selected = << >> -> [kind |-> "pass", payload |-> v]
       [] OTHER ->
            [kind |-> IF c.redact THEN "modified" ELSE "pass", payload |-> redacted,
             metrics |-> Metrics(selected, IF c.redact THEN "masked" ELSE "none", traced)]

(* A resource's content may have no text at all, and nothing is read.      *)
ScanPayload(v, c, traced) ==
  IF v = None THEN [kind |-> "pass", payload |-> v]
  ELSE AnswerTo(v, IF IsText(v) THEN Selected(v.text, c) ELSE << >>, c, traced)
=============================================================================
