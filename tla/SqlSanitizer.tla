---------------------------- MODULE SqlSanitizer ---------------------------
(***************************************************************************)
(* sql_sanitizer: the arguments of a tool or a prompt in, one answer out   *)
(* (config.rs, comments.rs, issues.rs, scanner.rs, plugin.rs).             *)
(*                                                                         *)
(* A text of SQL is a sequence of symbols: a word is one symbol, and so is *)
(* every character outside words.  Words that meet form one word.          *)
(***************************************************************************)
EXTENDS PyValues

CONSTANTS
  Words,         \* the symbols that are words, the keywords among them
  DefaultBlocked \* the words of DEFAULT_BLOCKED_PATTERNS

Spaces == {" ", "nl"}
WordSymbols == Words \cup {"7"}

(***************************************************************************)
(* config.rs.  A pattern is the word it blocks, "(" one that does not      *)
(* compile, "Pattern" and a word a compiled one, and 0 neither.  None      *)
(* leaves the default.                                                     *)
(***************************************************************************)
PatternOf(item) == IF item.type = "pattern" THEN item.word ELSE item.text
Readable(item) == item.type \in {"str", "pattern"} /\ PatternOf(item) # "("

Flag(raw, key, default) ==
  LET v == Given(raw, key, "None") IN IF v = "None" THEN default ELSE v

Flags(raw) ==
  [block_delete_without_where |-> Flag(raw, "block_delete_without_where", "true"),
   block_update_without_where |-> Flag(raw, "block_update_without_where", "true"),
   strip_comments |-> Flag(raw, "strip_comments", "true"),
   require_parameterization |-> Flag(raw, "require_parameterization", "false"),
   block_on_violation |-> Flag(raw, "block_on_violation", "true")]

FromPyDict(raw) ==
  LET flags == Flags(raw)
      listed == Given(raw, "blocked_statements", {})
  IN [f \in DOMAIN flags |-> flags[f] = "true"]
     @@ [blocked |-> IF "blocked_statements" \in DOMAIN raw
                     THEN {PatternOf(p) : p \in listed} ELSE DefaultBlocked,
         everyField |-> "fields" \notin DOMAIN raw,
         fields |-> Given(raw, "fields", {})]

Configs(raw) ==
  IF /\ \A f \in DOMAIN Flags(raw) : Flags(raw)[f] \in {"true", "false"}
     /\ \A p \in Given(raw, "blocked_statements", {}) : Readable(p)
  THEN {FromPyDict(raw)} ELSE {}

(***************************************************************************)
(* comments.rs and issues.rs follow a text from left to right, and differ  *)
(* in what they look for: "quotes" only, also comments ("strip"), also     *)
(* executable comments ("exec").  Modes(s, what)[i] is the mode after      *)
(* symbol i:                                                               *)
(*   code; lit, and litEscape before the second of two quotes, which stand *)
(*   for one; dash before the second dash, then line; open before the star *)
(*   of a block, then block, or star after a star in it; bangM and bang    *)
(*   before those marks of an executable comment, gate while its version   *)
(*   is read, then exec and execStar.                                      *)
(***************************************************************************)
Next(s, i) == IF i < Len(s) THEN s[i + 1] ELSE "end"

Opened(s, i, what) ==
  IF what = "exec" /\ Next(s, i) = "!" THEN "bang"
  ELSE IF what = "exec" /\ Next(s, i) = "M" /\ Next(s, i + 1) = "!" THEN "bangM"
  ELSE "block"

InBlock(ch, mode, body, star) ==
  IF mode = star /\ ch = "/" THEN "code" ELSE IF ch = "*" THEN star ELSE body

StepMode(s, i, mode, what) ==
  LET ch == s[i]
      comments == what # "quotes"
  IN CASE mode = "code" ->
            (CASE ch = "'" -> "lit"
               [] comments /\ ch = "-" /\ Next(s, i) = "-" -> "dash"
               [] comments /\ ch = "#" -> "line"
               [] comments /\ ch = "/" /\ Next(s, i) = "*" -> "open"
               [] OTHER -> "code")
       [] mode = "lit" ->
            (IF ch # "'" THEN "lit" ELSE IF Next(s, i) = "'" THEN "litEscape" ELSE "code")
       [] mode = "litEscape" -> "lit"
       [] mode = "dash" -> "line"
       [] mode = "line" -> (IF ch = "nl" THEN "code" ELSE "line")
       [] mode = "open" -> Opened(s, i, what)
       [] mode = "bangM" -> "bang"
       [] mode = "bang" -> "gate"
       [] mode \in {"block", "star"} -> InBlock(ch, mode, "block", "star")
       [] mode = "gate" /\ ch = "7" -> "gate"
       [] OTHER -> InBlock(ch, mode, "exec", "execStar")

Modes(s, what) ==
  LET m[i \in 0..Len(s)] == IF i = 0 THEN "code" ELSE StepMode(s, i, m[i - 1], what)
  IN [i \in 0..Len(s) |-> m[i]]

(* What op puts for each position of s.                                    *)
Rewrite(s, op(_)) == FlattenSeq([i \in DOMAIN s |-> op(i)])

(* strip_sql_comments.  The newline that ends a line comment stays.        *)
Commented(m, i) ==
  \/ m[i] \in {"dash", "line", "open", "block", "star"}
  \/ m[i - 1] = "star" /\ m[i] = "code"

StripSqlComments(s) ==
  LET m == Modes(s, "strip")
  IN Rewrite(s, LAMBDA i : IF Commented(m, i) THEN << >> ELSE <<s[i]>>)

(* unwrap_exec_comments: the body of an executable comment stays, between  *)
(* two spaces.  One that does not end is read to the end.                  *)
UnwrapExecComments(s) ==
  LET m == Modes(s, "exec")
      wrapped(i) ==
        CASE m[i] = "open" /\ m[i + 1] # "block" -> <<" ">>
          [] m[i] \in {"bang", "bangM", "gate"} -> << >>
          [] m[i] = "execStar" /\ Next(s, i) = "/" -> << >>
          [] m[i] = "code" /\ m[i - 1] = "execStar" -> <<" ">>
          [] OTHER -> <<s[i]>>
  IN Rewrite(s, wrapped)
       \o (IF Len(s) > 0 /\ m[Len(s)] \in {"gate", "exec", "execStar"}
           THEN <<" ">> ELSE << >>)

(***************************************************************************)
(* issues.rs.  Only quotes count there: comments are gone, or are read as  *)
(* code where they are not stripped.                                       *)
(***************************************************************************)
KeepLiterals(s) == s                                          \* mutant
MaskStringLiterals(s) ==
  LET m == Modes(s, "quotes")
  IN Rewrite(s, LAMBDA i : IF m[i - 1] = "code" \/ m[i] = "code" THEN <<s[i]>> ELSE << >>)

OneStatement(s) == {s}                                        \* mutant
SplitStatements(s) ==
  LET m == Modes(s, "quotes")
      ends == {i \in DOMAIN s : s[i] = ";" /\ m[i] = "code"} \cup {Len(s) + 1}
      start(e) == Max({0} \cup {i \in ends : i < e}) + 1
      parts == {SubSeq(s, start(e), e - 1) : e \in ends}
  IN {p \in parts : \E i \in DOMAIN p : p[i] \notin Spaces}

(* \bword\b, at i *)
StandsAt(s, i, word) ==
  /\ s[i] = word
  /\ i = 1 \/ s[i - 1] \notin WordSymbols
  /\ Next(s, i) \notin WordSymbols
Has(s, word) == \E i \in DOMAIN s : StandsAt(s, i, word)

IsDelete(s) ==
  \E i \in DOMAIN s : StandsAt(s, i, "DELETE") /\ \A j \in 1..i - 1 : s[j] \in Spaces

(* UPDATE [ONLY] table [[AS] alias] SET, each one word                     *)
IsUpdate(s) ==
  \E i, j \in DOMAIN s :
    /\ i < j /\ StandsAt(s, i, "UPDATE") /\ StandsAt(s, j, "SET")
    /\ LET between == SubSeq(s, i + 1, j - 1)
           starts == {k \in DOMAIN between : /\ between[k] \in WordSymbols
                                             /\ k = 1 \/ between[k - 1] \in Spaces}
           first(n) == between[SetToSortSeq(starts, <)[n]]
       IN /\ \A k \in DOMAIN between : between[k] \in Spaces \cup WordSymbols
          /\ between # << >> /\ between[1] \in Spaces /\ Last(between) \in Spaces
          /\ \/ Cardinality(starts) \in {1, 2}
             \/ Cardinality(starts) = 3 /\ (first(1) = "ONLY" \/ first(2) = "AS")
             \/ Cardinality(starts) = 4 /\ first(1) = "ONLY" /\ first(3) = "AS"

StatementIssues(stmt, c) ==
  LET s == MaskStringLiterals(stmt)
  IN {<<"Blocked statement matched", w>> : w \in {w \in c.blocked : Has(s, w)}}
     \cup (IF c.block_delete_without_where /\ IsDelete(s) /\ ~Has(s, "WHERE")
           THEN {<<"DELETE without WHERE clause">>} ELSE {})
     \cup (IF c.block_update_without_where /\ IsUpdate(s) /\ ~Has(s, "WHERE")
           THEN {<<"UPDATE without WHERE clause">>} ELSE {})

HasInterpolation(s) ==
  \/ \E i \in DOMAIN s : s[i] \in {"+", "%s"}
  \/ \E i, j \in DOMAIN s :
       i < j /\ s[i] = "{" /\ s[j] = "}" /\ \A k \in 1..j - 1 : s[k] # "}"

InSqlContext(s) ==
  \/ \E i, j \in DOMAIN s : i < j /\ StandsAt(s, i, "SELECT")
                            /\ \E w \in {"FROM", "WHERE"} : StandsAt(s, j, w)
  \/ \E i, j \in DOMAIN s : i + 1 < j /\ StandsAt(s, i, "DELETE") /\ StandsAt(s, j, "FROM")
                            /\ \A k \in i + 1..j - 1 : s[k] \in Spaces
  \/ \E i, j \in DOMAIN s : StandsAt(s, i, "UPDATE") /\ StandsAt(s, j, "SET")
                            /\ s[i + 1] \in Spaces
                            /\ \E k \in i + 2..j - 1 : s[k] \notin Spaces

HasInlineLiterals(s) ==
  /\ InSqlContext(s)
  /\ \E i \in DOMAIN s : \/ s[i] = "'" /\ Next(s, i) = "'"
                         \/ StandsAt(s, i, "7") /\ (i = 1 \/ s[i - 1] # "?")

Parameterization(s, c) ==
  IF ~c.require_parameterization THEN {}
  ELSE IF HasInterpolation(s) THEN {<<"Possible non-parameterized interpolation detected">>}
  ELSE IF HasInlineLiterals(s) THEN {<<"Inline literal values detected; use bind parameters instead">>}
  ELSE {}

Processed(sql, c) ==
  LET unwrapped == UnwrapExecComments(sql)
  IN IF c.strip_comments THEN StripSqlComments(unwrapped) ELSE unwrapped

FindIssues(sql, c) ==
  UNION {StatementIssues(stmt, c) : stmt \in SplitStatements(Processed(sql, c))}
    \cup Parameterization(MaskStringLiterals(Processed(sql, c)), c)

(***************************************************************************)
(* scanner.rs: the strings to scan are those under a field that is listed, *)
(* an item of a list counting under the list's field.                      *)
(***************************************************************************)
Field(args, path) ==
  LET dicts == {n \in 0..Len(path) - 1 : Follow(args, SubSeq(path, 1, n)).type = "dict"}
      holder == Follow(args, SubSeq(path, 1, Max(dicts)))
  IN holder.entries[path[Max(dicts) + 1]].key

Scanned(args, c) ==
  IF args.type # "dict" THEN {}
  ELSE {p \in TextPaths(args) : c.everyField \/ Field(args, p) \in c.fields}

Issues(args, c) == UNION {FindIssues(Follow(args, p).text, c) : p \in Scanned(args, c)}

Stripped(args, c) ==
  IF ~c.strip_comments THEN {}
  ELSE {p \in Scanned(args, c) :
          StripSqlComments(Follow(args, p).text) # Follow(args, p).text}

(***************************************************************************)
(* plugin.rs.                                                              *)
(***************************************************************************)
RECURSIVE SetAtPath(_, _, _)
SetAtPath(v, path, new) ==
  IF path = << >> THEN new
  ELSE WithChildren(v, [Children(v) EXCEPT ![Head(path)] = SetAtPath(@, Tail(path), new)])

TopLevelOnly(args, paths) ==                                  \* mutant
  FoldSet(LAMBDA p, v : SetAtPath(v, p, Str(StripSqlComments(Follow(args, p).text))),
          args, {p \in paths : Len(p) = 1})
RebuildArgs(args, paths) ==
  FoldSet(LAMBDA p, v : SetAtPath(v, p, Str(StripSqlComments(Follow(args, p).text))),
          args, paths)

Answer(kind, args, issues) == [kind |-> kind, payload |-> args, issues |-> issues]

(* handle_pre_hook, of both hooks *)
HandlePreHook(args, c) ==
  LET issues == Issues(args, c)
      stripped == Stripped(args, c)
  IN IF issues # {} /\ c.block_on_violation THEN Answer("blocked", args, issues)
     ELSE IF stripped # {} THEN Answer("modified", RebuildArgs(args, stripped), issues)
     ELSE Answer("pass", args, issues)
=============================================================================
