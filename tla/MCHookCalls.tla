---------------------------- MODULE MCHookCalls ----------------------------
(***************************************************************************)
(* Instances of HookCalls for TLC.                                         *)
(***************************************************************************)
EXTENDS HookCalls

(***************************************************************************)
(* The length guard.  "e" is the ellipsis, three bytes long.               *)
(***************************************************************************)
GuardBytes == [ch \in {"a", " ", "7", "e", "text", "resource"}
                        \cup {"{", "}", "[", "]", ",", ":", "q", "x", "y"}
                 |-> IF ch = "e" THEN 3 ELSE 1]
Spelled == [s \in {"character", "token", "truncate", "block", " Block"} |->
              IF s = " Block" THEN "block" ELSE s]
LengthDefaults == [max_text_length |-> 12, max_structure_size |-> 3,
                   max_recursion_depth |-> 1, chars_per_token |-> 2, ellipsis |-> <<"e">>]

a == <<"a">>
LongText == <<"a", "a", "a", "a", "a", " ", "a", "a", "a">>
Texts == UNION {[1..n -> {"a", " "}] : n \in 0..8}
           \cup {LongText, <<"7", "7", " ", "7">>, <<"7", "7", "7", "7", "7", "7">>,
                 <<" ", "7", "7", "7", "7", " ">>, <<"7", "7", "7", "a", "7", "7">>,
                 <<"e", "e", "e", "e", "e", "a", "e", "e", "a", "e">>}

TextDict(t) == Dict(<<Entry("text", Str(t)), Entry("id", Str(LongText))>>)
TextItem(t) == Dict(<<Entry("type", Str(<<"text">>)), Entry("text", Str(t))>>)
Resource(t) == Dict(<<Entry("type", Str(<<"resource">>)), Entry("resource", TextDict(t))>>)
Image == Dict(<<Entry("type", Str(<<"a">>)), Entry("text", Str(LongText))>>)
Content(items, key, v) == Dict(<<Entry("content", List(items)), Entry(key, v)>>)

Pieces == {a, LongText, <<"a", "a", "a">>, <<"7", "7", "7", "7", "7", "7">>}
ItemLists ==
  {<<TextItem(t), Resource(u), Image>> : t \in Pieces, u \in Pieces}
    \cup {<<TextItem(a), Number, TextItem(LongText), TextItem(a)>>, <<Image>>}
Structures ==
  {Str(LongText), None, Number, List(<< >>),
   List(<<Str(a), Str(a), Str(LongText), Str(a)>>)}
    \cup {Dict(<<Entry("x", Str(t)), Entry("y", Str(u))>>) : t \in Pieces, u \in Pieces}
    \cup {Dict(<<Entry("x", List(<<Str(t), Number>>))>>) : t \in Pieces}
    \cup {Dict(<<Entry("x", Dict(<<Entry("y", Str(t))>>))>>) : t \in Pieces}
Results ==
  {TextDict(t) : t \in Pieces}
    \cup {List(items) : items \in ItemLists}
    \cup {List(<<Str(t), Str(u)>>) : t \in Pieces, u \in Pieces}
    \cup {List(<< >>), Number, Dict(<< >>), List(<<Number, Str(a)>>), List(<<Dict(<< >>)>>),
          Dict(<<Entry("content", Str(LongText)), Entry("text", Number)>>)}
    \cup {Content(items, "structuredContent", v) : items \in ItemLists, v \in Structures}
    \cup {Content(<<TextItem(t)>>, "structured_content", Str(t)) : t \in Pieces}

LengthRaws ==
  {[strategy |-> s, max_chars |-> m, min_chars |-> n, word_boundary |-> w, ellipsis |-> e] :
     s \in {"truncate", " Block"}, m \in {0, 2, 7}, n \in {0, 2},
     w \in BOOLEAN, e \in {<< >>, <<"e", "e">>}}
  \cup
  {[strategy |-> s, limit_mode |-> "token", max_tokens |-> m, min_tokens |-> n,
    word_boundary |-> w, ellipsis |-> e] :
     s \in {"truncate", "block"}, m \in {0, 3, 8}, n \in {0, 2},
     w \in BOOLEAN, e \in {<<"e">>, <<"e", "e", "e">>}}
LengthRejected ==
  {[min_chars |-> 3, max_chars |-> 2], [max_tokens |-> -1], [strategy |-> "drop"],
   [chars_per_token |-> 0], [max_structure_size |-> 0]}
Deploy(plugin, raws, inputs) == [plugin |-> plugin, raws |-> raws, inputs |-> inputs]
LengthDeployments ==
  {Deploy("output_length_guard", {r \in LengthRaws : Len(r.ellipsis) > 0},
          {Str(t) : t \in Texts}),
   Deploy("output_length_guard", {r \in LengthRaws : ~r.word_boundary}, Results),
   Deploy("output_length_guard", LengthRejected, {Number})}

(***************************************************************************)
(* The SQL sanitizer: texts put together from fragments.                   *)
(***************************************************************************)
SqlWords == {"DELETE", "FROM", "WHERE", "UPDATE", "SET", "DROP", "SELECT", "M",
             "ONLY", "AS", "t"}
Delete == <<"DELETE", " ", "FROM", " ", "t", " ">>
Update == <<"UPDATE", " ", "t", " ", "SET", " ", "t", "=", "7">>
Where == <<"WHERE", " ", "t", "=", "7", " ">>
Fragments ==
  {Delete, Update, Where, <<"DROP">>, <<";">>, <<"'">>, <<" ", "-", "-">>, <<"nl">>, <<"#">>,
   <<"/", "*">>, <<"*", "/", " ">>, <<" ", "/", "*", "!", "7">>, <<"t", "+">>}
Quoting == {<<"'">>, <<" ", "-", "-">>, <<"nl">>, <<"#">>, <<"/", "*">>, <<";">>, <<"DROP">>}
Executed(opener, body, rest) == opener \o body \o <<"*", "/", " ">> \o rest
Sqls ==
  {f \o g \o h : f \in Fragments, g \in Fragments, h \in Fragments}
    \cup {Executed(o, f, g \o h) : o \in {<<" ", "/", "*", "!", "7">>, <<" ", "/", "*", "M", "!">>},
                                   f \in Fragments, g \in Fragments, h \in Fragments}
    \cup {Executed(<<"/", "*", "!">>, f \o g, h \o k) :
            f \in Quoting, g \in Quoting, h \in Fragments, k \in Quoting \cup {<<"DROP">>, Delete}}
    \cup {Delete \o f \o Where \o g \o h : f \in Fragments, g \in Fragments, h \in {<< >>, <<" ">>, <<";">>}}

Clean == Str(Where)
Dashed == Str(Where \o <<"-", "-", "t">>)
NestedArgs ==
  {Dict(<<Entry("sql", v), Entry("note", w)>>) :
     v \in {Dashed, Clean, List(<<Clean, Dashed, Number>>)},
     w \in {Dashed, Str(Delete), Dict(<<Entry("sql", Dashed), Entry("text", Dashed)>>),
            List(<<Dict(<<Entry("sql", List(<<Dashed, Str(Delete)>>))>>)>>)}}
    \cup {None, Number}

NoOptions == [f \in {} |-> "None"]
SqlRaws ==
  {NoOptions, [block_on_violation |-> "false"],
   [require_parameterization |-> "true", block_delete_without_where |-> "None"],
   [strip_comments |-> "false", block_update_without_where |-> "false"]}
FieldRaws ==
  {[fields |-> {"sql"}], [fields |-> {"note", "text"}, block_on_violation |-> "false"],
   [fields |-> {}], [blocked_statements |-> {Str("t"), [type |-> "pattern", word |-> "M"]}]}
SqlRejected ==
  {[blocked_statements |-> {Str("(")}], [blocked_statements |-> {Number}],
   [strip_comments |-> "maybe"]}
SqlDeployments ==
  {Deploy("sql_sanitizer", SqlRaws, {Dict(<<Entry("q", Str(t))>>) : t \in Sqls}),
   Deploy("sql_sanitizer", SqlRaws \cup FieldRaws, NestedArgs),
   Deploy("sql_sanitizer", SqlRejected, {None})}

(***************************************************************************)
(* The URL reputation check.                                               *)
(***************************************************************************)
(* "U" stands for a label with a capital letter beyond ASCII.              *)
Labels == {"Bad", "bad", "api", "com", "Com", "zz", "U", "u", "xn--u", ""}
LowerLabels == [l \in Labels |->
                  CASE l = "Bad" -> "bad" [] l = "Com" -> "com" [] l = "U" -> "u" [] OTHER -> l]
HostLabels == [l \in Labels |-> IF l \in {"U", "u"} THEN "xn--u" ELSE LowerLabels[l]]
Domains == {<<"bad", "com">>, <<"api", "Bad", "com">>, <<"api", "com">>, <<"bad", "zz">>, <<"com">>,
            <<"api", "u", "com">>, <<"xn--u", "com">>, <<"bad", "Com", "">>}
Address(domain) ==
  [parsed |-> "yes", scheme |-> "https", domain |-> domain, numeric |-> FALSE, matches |-> {},
   bytes |-> 12, entropy |-> 300, unicodeSecure |-> TRUE]
Addresses ==
  LET plain == {Address(d) : d \in Domains}
  IN plain \cup {[u EXCEPT !.matches = {"p"}] : u \in plain}
       \cup {[u EXCEPT !.scheme = "http"] : u \in plain}
       \cup {[u EXCEPT !.parsed = p] : u \in plain, p \in {"no", "no host", "no string"}}
       \cup {[u EXCEPT !.entropy = 400, !.bytes = b, !.numeric = n, !.unicodeSecure = s] :
               u \in plain, b \in {6, 12}, n \in BOOLEAN, s \in BOOLEAN}
Pattern(py, rs) == [name |-> "p", python |-> py, rust |-> rs]
UrlRaws ==
  {[whitelist_domains |-> w, blocked_domains |-> b, allowed_patterns |-> p,
    blocked_patterns |-> q, use_heuristic_check |-> h] :
     w \in {{}, {<<"api", "Bad", "com">>}, {<<"com">>}, {<<"u", "com">>, <<"com", "">>}},
     b \in {{}, {<<"bad", "Com">>}, {<<"U", "com">>}, {<<"Bad", "com", "">>, <<"xn--u", "com">>}},
     p \in {{}, {Pattern(TRUE, TRUE)}}, q \in {{}, {Pattern(TRUE, TRUE)}}, h \in BOOLEAN}
  \cup {[blocked_patterns |-> {Pattern(TRUE, FALSE)}], [allowed_patterns |-> {Pattern(FALSE, TRUE)}]}
UrlDeployments == {Deploy("url_reputation", UrlRaws, Addresses)}

AllDeployments == LengthDeployments \cup SqlDeployments \cup UrlDeployments
=============================================================================
