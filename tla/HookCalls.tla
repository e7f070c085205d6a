----------------------------- MODULE HookCalls -----------------------------
(***************************************************************************)
(* Calls of the hooks that keep no state between calls: the length guard   *)
(* (tool_post_invoke), the SQL sanitizer (prompt_pre_fetch and             *)
(* tool_pre_invoke, one handler) and the URL reputation check              *)
(* (resource_pre_fetch).  A plugin is constructed from the operator's      *)
(* configuration; the gateway calls it and hands on what it answers, and   *)
(* where gateways are chained the next one calls the same hook on that.    *)
(***************************************************************************)
EXTENDS PyValues

CONSTANTS
  Deployments,   \* records: plugin, configurations, inputs
  MaxPasses,     \* bound: gateways in a chain
  Boundary, Blanks, Digits, CharBytes, Spelling, TextLengths, StructureSizes,
  RecursionDepths, TokenRatios, Defaults, MaxNumericBytes, UnwrapDepth,
  Words, DefaultBlocked,
  Lower, HostLabel, ValidTlds, ShortDomain

Length == INSTANCE LengthGuard
Sql == INSTANCE SqlSanitizer
Url == INSTANCE UrlReputation

VARIABLES
  deployment,
  core,          \* the plugin's core and its configuration
  payload,       \* what is handed to the next call
  passes         \* history: the answers so far

vars == <<deployment, core, payload, passes>>

NotBuilt == [status |-> "new"]
Rejected == [status |-> "rejected"]
Built(c) == [status |-> "built", config |-> c]

Init ==
  /\ \E d \in Deployments : \E raw \in d.raws, v \in d.inputs :
       deployment = [plugin |-> d.plugin, raw |-> raw, input |-> v]
  /\ core = NotBuilt
  /\ payload = deployment.input
  /\ passes = << >>

Configs ==
  CASE deployment.plugin = "output_length_guard" -> Length!Configs(deployment.raw)
    [] deployment.plugin = "sql_sanitizer" -> Sql!Configs(deployment.raw)
    [] deployment.plugin = "url_reputation" -> Url!Configs(deployment.raw)

Construct ==
  /\ core = NotBuilt
  /\ \E c \in Configs : core' = Built(c)
  /\ UNCHANGED <<deployment, payload, passes>>

ConstructFails ==
  /\ core = NotBuilt
  /\ Configs = {}
  /\ core' = Rejected
  /\ UNCHANGED <<deployment, payload, passes>>

(* The gateway goes on unless the hook blocked.                            *)
Called(plugin) ==
  /\ core.status = "built" /\ deployment.plugin = plugin
  /\ Len(passes) < MaxPasses
  /\ passes # << >> => Last(passes).kind # "blocked"

Answered(answer) ==
  /\ passes' = Append(passes, answer)
  /\ payload' = answer.payload
  /\ UNCHANGED <<deployment, core>>

ToolPostInvoke ==
  /\ Called("output_length_guard")
  /\ Answered(Length!ToolPostInvoke(payload, core.config))

(* prompt_pre_fetch and tool_pre_invoke *)
PreHook ==
  /\ Called("sql_sanitizer")
  /\ Answered(Sql!HandlePreHook(payload, core.config))

ResourcePreFetch ==
  /\ Called("url_reputation")
  /\ Answered(Url!ResourcePreFetch(payload, core.config))

Next == Construct \/ ConstructFails \/ ToolPostInvoke \/ PreHook \/ ResourcePreFetch

Spec == Init /\ [][Next]_vars

(***************************************************************************)
(* Properties.  They speak of the first answer to the input, and of the    *)
(* second where there is one.                                              *)
(***************************************************************************)
Input == deployment.input
Config == core.config
First == passes[1]
AnsweredBy(plugin) == deployment.plugin = plugin /\ passes # << >>
ByLength == AnsweredBy("output_length_guard")

(* The texts the length guard looks at, as paths into a result: those of   *)
(* structured content within the limits of depth and size, and those of    *)
(* the items of a content list, a list of strings, a text.                 *)
Within(v, p) ==
  /\ Len(p) <= Config.max_recursion_depth
  /\ \A n \in 0..Len(p) - 1 :
       Len(Children(Follow(v, SubSeq(p, 1, n)))) <= Config.max_structure_size
StructuredPaths(v) ==
  IF v.type # "dict" \/ Length!StructKeys(v) = << >> THEN {}
  ELSE LET key == Head(Length!StructKeys(v))
       IN {<<At(v, key)>> \o p : p \in {q \in TextPaths(Item(v, key)) : Within(Item(v, key), q)}}
InItems(list) ==
  {p \in TextPaths(list) :
     /\ Len(p) \in {2, 3}
     /\ LET item == list.items[p[1]]
            holder == Follow(list, SubSeq(p, 1, Len(p) - 1))
        IN /\ item.type = "dict" /\ holder.type = "dict"
           /\ holder.entries[Last(p)].key = "text"
           /\ Len(p) = 2 => Length!TypeIs(item, "text")
           /\ Len(p) = 3 => item.entries[p[2]].key = "resource" /\ Length!TypeIs(item, "resource")}
IsContent(v) == v.type = "dict" /\ "content" \in Keys(v) /\ Item(v, "content").type = "list"
IsMcpList(v) == /\ v.type = "list" /\ v.items # << >> /\ v.items[1].type = "dict"
                /\ "type" \in Keys(v.items[1])
PlainPaths(v) ==
  IF IsText(v) THEN {<< >>}
  ELSE IF IsContent(v) THEN {<<At(v, "content")>> \o p : p \in InItems(Item(v, "content"))}
  ELSE IF v.type = "dict" THEN {p \in TextPaths(v) : Len(p) = 1 /\ v.entries[p[1]].key = "text"}
  ELSE IF IsMcpList(v) THEN InItems(v)
  ELSE IF v.type # "list" THEN {}
  ELSE {p \in TextPaths(v) : Len(p) = 1 /\ \A i \in DOMAIN v.items : IsText(v.items[i])}

TextAt(v, p) == Follow(v, p).text
Structured(v) == IF IsContent(v) THEN StructuredPaths(v) ELSE {}
Rewritten == \E p \in Structured(Input) : TextAt(First.payload, p) # TextAt(Input, p)
Looked == IF Rewritten THEN Structured(Input) ELSE Structured(Input) \cup PlainPaths(Input)

(* output_length_guard README.md "max_chars", "max_tokens".  No text that  *)
(* the guard looks at is delivered longer than the limit, unless it is a   *)
(* number; counting tokens, the ellipsis may come on top.                  *)
LengthWithinLimits ==
  ByLength /\ First.kind # "blocked" =>
    \A p \in Looked :
      LET text == TextAt(First.payload, p)
      IN IF Length!IsNumeric(TextAt(Input, p)) THEN text = TextAt(Input, p)
         ELSE /\ Config.limit_mode = "character" /\ Config.max_chars # 0
                   => Len(text) <= Config.max_chars
              /\ Config.limit_mode = "token" /\ Config.max_tokens # 0
                   => Len(text) < (Config.max_tokens + 1) * Config.chars_per_token
                                    + Len(Config.ellipsis)

(* guards.rs:150, plugin.rs.  Truncation only cuts: whatever is delivered  *)
(* has the shape of the tool's result, a text within the limit is as it    *)
(* was, and one above is its own beginning, with or without the ellipsis.  *)
(* Only content may be rewritten, from structured content that was cut.    *)
LengthOnlyCuts ==
  ByLength /\ First.kind = "modified" =>
    LET new == First.payload
        kept == {p \in TextPaths(Input) : Rewritten => p[1] # At(Input, "content")}
        over(t) == IF Config.limit_mode = "token"
                   THEN Len(t) >= (Config.max_tokens + 1) * Config.chars_per_token
                   ELSE Len(t) > Config.max_chars
    IN /\ ~Rewritten => WithoutTexts(new) = WithoutTexts(Input)
       /\ \A p \in kept :
            LET old == TextAt(Input, p)
                cut == TextAt(new, p)
            IN cut = old
               \/ /\ over(old)
                  /\ \E n \in 0..Len(old) - 1 :
                       cut \in {SubSeq(old, 1, n), SubSeq(old, 1, n) \o Config.ellipsis}

(* structured.rs, plugin.rs "Strategy::Block".  The blocking strategy      *)
(* changes nothing, and blocks exactly where some text is out of bounds or *)
(* a structure is too deep or too large to look at.                        *)
LengthBlocksExactly ==
  ByLength /\ Config.strategy = "block" =>
    LET outOfBounds(t) ==
          /\ ~Length!IsNumeric(t)
          /\ IF Config.limit_mode = "token"
             THEN \/ Len(t) < Config.min_tokens * Config.chars_per_token
                  \/ /\ Config.max_tokens # 0
                     /\ Len(t) >= (Config.max_tokens + 1) * Config.chars_per_token
             ELSE \/ Len(t) < Config.min_chars
                  \/ Config.max_chars # 0 /\ Len(t) > Config.max_chars
        hidden == IF IsContent(Input) /\ Length!StructKeys(Input) # << >>
                  THEN LET v == Item(Input, Head(Length!StructKeys(Input)))
                       IN \E p \in Paths(v) :
                            \/ Len(p) > Config.max_recursion_depth
                            \/ /\ IsContainer(Follow(v, p))
                               /\ Len(Children(Follow(v, p))) > Config.max_structure_size
                  ELSE FALSE
        content == IF IsContent(Input) THEN Item(Input, "content") ELSE Input
        long == /\ IsContent(Input) \/ IsMcpList(Input)
                /\ Len(Children(content)) > Config.max_structure_size
        refused == \/ \E p \in Structured(Input) \cup PlainPaths(Input) :
                         outOfBounds(TextAt(Input, p))
                   \/ hidden \/ long
    IN First.payload = Input /\ (First.kind = "blocked" <=> refused)

(* The SQL sanitizer.                                                      *)
BySql == AnsweredBy("sql_sanitizer")
ScannedTexts == {TextAt(Input, p) : p \in Sql!Scanned(Input, Config)}

(* comments.rs:176-184.  The body of an executable comment is copied as it *)
(* stands, so a literal or a comment that its body opens goes on after the *)
(* body: the code then reads as inert what an engine runs, and the other   *)
(* way round.  A text is self-contained if its bodies end what they open.  *)
Bodies(t) ==
  LET m == Sql!Modes(t, "exec")
      start(e) == Max({i \in 1..e : m[i] = "gate"}) + 1
  IN {SubSeq(t, start(e), e - 2) : e \in {i \in DOMAIN t : m[i] = "code" /\ m[i - 1] = "execStar"}}
SelfContained(t) == \A b \in Bodies(t) : Sql!Modes(b, "strip")[Len(b)] = "code"

Apart(t) ==
  LET m == Sql!Modes(t, "exec")
  IN \A i \in {j \in DOMAIN t : t[j] = ";" /\ m[j] = "code"} :
       Sql!FindIssues(t, Config) =
         Sql!FindIssues(SubSeq(t, 1, i - 1), Config)
           \cup Sql!FindIssues(SubSeq(t, i + 1, Len(t)), Config)

(* issues.rs:7-9.  A statement is judged alone: at every semicolon outside *)
(* literals and comments, what is found in a text is what is found in its  *)
(* two parts, unless an executable comment opens a literal or a comment    *)
(* that it does not end: then one statement may hide another.              *)
SqlStatementsIndependent ==
  BySql /\ Config.strip_comments /\ ~Config.require_parameterization =>
    \A t \in ScannedTexts : SelfContained(t) => Apart(t)

(* comments.rs:3-17, issues.rs:316.  What stands in a literal or in a      *)
(* comment that no engine executes decides nothing, under the same         *)
(* exception.                                                              *)
Inert(m, i) ==
  \/ m[i - 1] = "lit" /\ m[i] = "lit"
  \/ m[i - 1] = "line" /\ m[i] = "line"
  \/ m[i - 1] = "block" /\ m[i] = "block"
Blanked(t) ==
  LET m == Sql!Modes(t, "exec")
  IN [i \in DOMAIN t |-> IF Inert(m, i) THEN "t" ELSE t[i]]
SqlOnlyLiveCodeCounts ==
  BySql /\ Config.strip_comments =>
    \A t \in ScannedTexts :
      SelfContained(t) => Sql!FindIssues(t, Config) = Sql!FindIssues(Blanked(t), Config)

(* scanner.rs:14-17.  The arguments that are handed on are the ones that   *)
(* were judged: a second gateway finds the same issues and has nothing to  *)
(* strip, at any depth; and all that was not to be scanned is as it was.   *)
(* Texts whose comments touch what they join on both sides are left out,   *)
(* and executable comments, which are judged but not handed on.            *)
Parted(t) ==
  LET m == Sql!Modes(t, "strip")
      removed == {i \in DOMAIN t : Sql!Commented(m, i)}
      ends == {j \in removed : j + 1 \notin removed}
      start(j) == Max({0} \cup {i \in 1..j : i \notin removed}) + 1
  IN \A j \in ends :
       {IF start(j) = 1 THEN " " ELSE t[start(j) - 1], IF j = Len(t) THEN " " ELSE t[j + 1]}
         \cap Sql!Spaces # {}
Executable(t) == Sql!UnwrapExecComments(t) # t

SqlForwardsWhatItJudged ==
  BySql =>
    /\ \A p \in TextPaths(Input) \ Sql!Scanned(Input, Config) :
         TextAt(First.payload, p) = TextAt(Input, p)
    /\ WithoutTexts(First.payload) = WithoutTexts(Input)
    /\ Len(passes) = 2 /\ (\A t \in ScannedTexts : ~Executable(t) /\ Parted(t)) =>
         passes[2] = Sql!Answer("pass", First.payload, First.issues)

(* url_reputation engine.rs:99-143, filters/patterns.rs:12.  A list means  *)
(* whole zones, in any letter case: the host of an address that passes is  *)
(* in no blocked zone, unless a list of exceptions has it, and such an     *)
(* exception always holds.  An entry with letters beyond ASCII names no    *)
(* zone, since hosts do not have them (types.rs:18), and a root dot is a   *)
(* label of its own, in entries and in hosts.                              *)
MatchesAny(patterns) == \E p \in patterns : p.name \in Input.matches
Under(zone, host) ==
  Len(zone) <= Len(host) /\ zone = SubSeq(host, Len(host) - Len(zone) + 1, Len(host))

=============================================================================
