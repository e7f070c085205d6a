--------------------------- MODULE UrlReputation ---------------------------
(***************************************************************************)
(* url_reputation: a resource's address in, a verdict out (the Python      *)
(* shim's configuration and catch-all, engine.rs, filters/).               *)
(*                                                                         *)
(* A domain is the sequence of its labels as it is written; a root dot is  *)
(* an empty last label.  An address is a record: whether the url crate     *)
(* parses it, its parts, the patterns that match its text, and what the    *)
(* heuristics see of its host (its bytes, its entropy in hundredths,       *)
(* whether its labels are safe Unicode).                                   *)
(***************************************************************************)
EXTENDS PyValues

CONSTANTS
  Lower,        \* [label -> the same in lower case]
  HostLabel,    \* [label -> what host_str() has for it: lower case, and for
                \*  letters beyond ASCII the form of IDNA, xn--...]
  ValidTlds,
  ShortDomain   \* domains of fewer bytes have no entropy check (8)

(***************************************************************************)
(* Configuration.  A pattern compiles for Python, for Rust, for both or    *)
(* for neither.                                                            *)
(***************************************************************************)
LowerCase(domain) == [i \in DOMAIN domain |-> Lower[domain[i]]]
NormalizeDomains(domains) == {LowerCase(d) : d \in domains}

UrlConfig(raw) ==
  [whitelist_domains |-> NormalizeDomains(Given(raw, "whitelist_domains", {})),
   blocked_domains |-> NormalizeDomains(Given(raw, "blocked_domains", {})),
   allowed_patterns |-> Given(raw, "allowed_patterns", {}),
   blocked_patterns |-> Given(raw, "blocked_patterns", {}),
   use_heuristic_check |-> Given(raw, "use_heuristic_check", FALSE),
   entropy_threshold |-> Given(raw, "entropy_threshold", 365),
   block_non_secure_http |-> Given(raw, "block_non_secure_http", TRUE)]

Compiles(p) == p.python /\ p.rust
Configs(raw) ==
  {c \in {UrlConfig(raw)} : \A p \in c.allowed_patterns \cup c.blocked_patterns : Compiles(p)}

InDomainList(domain, domains) ==
  \E i \in DOMAIN domain : SubSeq(domain, i, Len(domain)) \in domains

Matches(url, patterns) == \E p \in patterns : p.name \in url.matches

PassedEntropy(url, c) ==
  url.bytes < ShortDomain \/ url.entropy <= c.entropy_threshold
IsTldLegal(host) == Last(host) \in ValidTlds

(* The first of the heuristics that the domain fails; a numeric address    *)
(* has none.                                                               *)
Heuristics(url, c) ==
  IF ~c.use_heuristic_check \/ url.numeric THEN "none"
  ELSE IF ~PassedEntropy(url, c) THEN "High entropy domain"
  ELSE IF ~IsTldLegal(url.domain) THEN "Illegal TLD"
  ELSE IF ~url.unicodeSecure THEN "Domain unicode is not secure"
  ELSE "none"

(***************************************************************************)
(* validate_url: the reason to block, or "none".  The lists are compared   *)
(* with the parsed host, which keeps a root dot; patterns see the text.    *)
(***************************************************************************)
HostStr(domain) == [i \in DOMAIN domain |-> HostLabel[domain[i]]]

Listed(url, c) ==
  InDomainList(url.domain, c.whitelist_domains) \/ Matches(url, c.allowed_patterns)

ValidateUrl(url, c) ==
  IF url.parsed = "no" THEN "Could not parse url"
  ELSE IF url.parsed = "no host" THEN "Could not parse domain"
  ELSE LET host == [url EXCEPT !.domain = HostStr(@)]
       IN IF Listed(host, c) THEN "none"
          ELSE IF c.block_non_secure_http /\ url.scheme # "https"
               THEN "Blocked non secure http url"
          ELSE IF InDomainList(host.domain, c.blocked_domains) THEN "Domain in blocked set"
          ELSE IF Matches(url, c.blocked_patterns) THEN "Blocked pattern"
          ELSE Heuristics(host, c)

(***************************************************************************)
(* The shim: whatever it cannot do blocks.  An address that is no string   *)
(* fails.  The metrics, sent when the request is traced, name a category.  *)
(***************************************************************************)
CategoryByReason ==
  "Could not parse url" :> "malformed_url"
  @@ "Could not parse domain" :> "malformed_domain"
  @@ "Blocked non secure http url" :> "insecure_scheme"
  @@ "Domain in blocked set" :> "blocked_domain"
  @@ "Blocked pattern" :> "blocked_pattern"
  @@ "High entropy domain" :> "high_entropy_domain"
  @@ "Illegal TLD" :> "illegal_tld"
  @@ "Domain unicode is not secure" :> "unicode_spoofing"
  @@ "Rust validation failure" :> "internal_error"

Category(reason) ==
  IF reason \in DOMAIN CategoryByReason THEN CategoryByReason[reason] ELSE "other"

ResourcePreFetch(url, c) ==
  LET reason == IF url.parsed = "no string" THEN "Rust validation failure"
                ELSE ValidateUrl(url, c)
  IN [kind |-> IF reason = "none" THEN "pass" ELSE "blocked",
      payload |-> url, reason |-> reason,
      categories |-> IF reason = "none" THEN {} ELSE {Category(reason)}]
=============================================================================
