------------------------------ MODULE RulePacks -----------------------------
(***************************************************************************)
(* The parsers of rule packs (src/ruleset.rs): ClearURLs JSON, the two     *)
(* Brave lists and the supported AdGuard lines, each into the same         *)
(* intermediate rules (SourceIr), with the report's counters and the       *)
(* limits on what a pack may hold.  One entry is parsed at a time.         *)
(*                                                                         *)
(* A regular expression is [fault, root, hir]: what is wrong with its      *)
(* text, whether it begins with the "^https?://" of a site, alone or with  *)
(* its subdomains, and the tree regex_syntax makes of the rest.  Text is a *)
(* sequence of ASCII characters, in lower case in a ClearURLs pack.        *)
(***************************************************************************)
EXTENDS Naturals, Sequences, SequencesExt, FiniteSetsExt

CONSTANTS
  Packs,         \* packs to parse, see MCRulePacks
  Probes,        \* the characters is_any_character tries
  MaxExpansion,  \* MAX_LITERAL_EXPANSION
  MaxRules,      \* rule_limits.max_external_rules
  MaxRegexes     \* rule_limits.max_regex_rules

-----------------------------------------------------------------------------
(* regex_syntax::hir::Hir.                                                 *)

Unbounded == 99

Nothing            == [kind |-> "empty"]
Look(at)           == [kind |-> "look", at |-> at]
Literal(text)      == [kind |-> "literal", text |-> text]
Class(chars)       == [kind |-> "class", chars |-> chars]
Capture(h)         == [kind |-> "capture", sub |-> h]
Concat(hs)         == [kind |-> "concat", parts |-> hs]
Alternation(hs)    == [kind |-> "alternation", parts |-> hs]
Repetition(h, m, n) == [kind |-> "repetition", sub |-> h, min |-> m, max |-> n]

\* flatten_concat, one level: the tree has no concatenation inside another.
FlattenConcat(h) == IF h.kind = "concat" THEN h.parts ELSE <<h>>

\* A few characters stand for all.
IsAnyCharacter(h) == h.kind = "class" /\ Probes \subseteq h.chars

\* literal_prefix; an option is a sequence of one or no element.
LiteralPrefix(h) ==
  LET parts == FlattenConcat(h)
      rep == Last(parts)
      lead == Front(parts)
  IN IF /\ Len(parts) >= 2
        /\ rep.kind = "repetition" /\ rep.min = 0 /\ rep.max = Unbounded
        /\ IsAnyCharacter(rep.sub)
        /\ \A k \in DOMAIN lead : lead[k].kind \in {"literal", "look"}
     THEN <<FoldLeft(LAMBDA s, p : IF p.kind = "literal" THEN s \o p.text ELSE s, <<>>, lead)>>
     ELSE <<>>

\* Variant of Cross that stops at the limit and keeps what it has.
CrossCut(ls, rs) ==
  [k \in 1..Min({MaxExpansion, Len(ls) * Len(rs)}) |->
     ls[(k - 1) \div Len(rs) + 1] \o rs[((k - 1) % Len(rs)) + 1]]

\* Every word of ls before every word of rs, or nothing over the limit.
Cross(ls, rs) ==
  IF Len(ls) * Len(rs) > MaxExpansion THEN <<>>
  ELSE [k \in 1..Len(ls) * Len(rs) |->
          ls[(k - 1) \div Len(rs) + 1] \o rs[((k - 1) % Len(rs)) + 1]]

Distinct(s) == FoldLeft(LAMBDA d, x : IF Contains(d, x) THEN d ELSE Append(d, x), <<>>, s)

\* expand_hir: all words of an expression, or none when there may be more
\* than the limit.  A class counts only with a single character.
RECURSIVE ExpandHir(_)
ExpandHir(h) ==
  CASE h.kind \in {"empty", "look"} -> << <<>> >>
    [] h.kind = "literal" -> <<h.text>>
    [] h.kind = "capture" -> ExpandHir(h.sub)
    [] h.kind = "class" -> IF Cardinality(h.chars) = 1 THEN <<SetToSeq(h.chars)>> ELSE <<>>
    [] h.kind = "concat" ->
         FoldLeft(LAMBDA ws, p : Cross(ws, ExpandHir(p)), << <<>> >>, h.parts)
    [] h.kind = "alternation" ->
         LET each == [k \in DOMAIN h.parts |-> ExpandHir(h.parts[k])]
             all == Distinct(FlattenSeq(each))
         IN IF Contains(each, <<>>) \/ Len(all) > MaxExpansion THEN <<>> ELSE all
    [] h.kind = "repetition" ->
         IF h.max # h.min \/ h.max > 8 THEN <<>>
         ELSE FoldLeft(LAMBDA ws, k : Cross(ws, ExpandHir(h.sub)), << <<>> >>,
                       [k \in 1..h.max |-> k])

-----------------------------------------------------------------------------
(* Matchers, and normalize_clearurls_pattern.                              *)

\* What a matcher looks at in a segment of the query.
DecodedName == [subject |-> "name", case_sensitive |-> FALSE, requires_equals |-> FALSE]
RawName     == [subject |-> "raw name", case_sensitive |-> TRUE, requires_equals |-> TRUE]

\* Variant of DecodedPair that looks at the name.
DecodedNameOnly == [DecodedName EXCEPT !.case_sensitive = TRUE]

DecodedPair == [subject |-> "pair", case_sensitive |-> TRUE, requires_equals |-> TRUE]

Exact(on, text)  == [kind |-> "exact", on |-> on, text |-> text]
Prefix(on, text) == [kind |-> "prefix", on |-> on, text |-> text]
Regex(on, h)     == [kind |-> "regex", on |-> on, hir |-> h]

\* "^(?:...)$"
Wrapped(h) == Concat(<<Look("start"), Capture(h), Look("end")>>)

\* to_ascii_lowercase.
LowerCase(c) == CASE c = "U" -> "u" [] c = "T" -> "t" [] OTHER -> c

Lower(text) == [k \in DOMAIN text |-> LowerCase(text[k])]

RegexPatternAllowed(p) == p.fault # "too_long"

Valid(p) == p.fault = "none"

\* The cheapest matchers for a pattern; none if it has a fault.
NormalizeClearurlsPattern(p) ==
  LET prefix == LiteralPrefix(p.hir)
      words == ExpandHir(p.hir)
  IN IF ~Valid(p) THEN <<>>
     ELSE IF p.hir.kind = "literal" THEN <<Exact(DecodedName, p.hir.text)>>
     ELSE IF prefix \notin {<<>>, << <<>> >>} THEN <<Prefix(DecodedName, prefix[1])>>
     ELSE IF words # <<>> THEN [k \in DOMAIN words |-> Exact(DecodedName, words[k])]
     ELSE <<Regex(DecodedName, Wrapped(p.hir))>>

\* compile_provider_direct_pattern: the literals after "^https?://", with the
\* labels that may precede them; none for any other pattern.
CompileProviderDirectPattern(p) == IF p.root = "none" THEN <<>> ELSE ExpandHir(p.hir)

-----------------------------------------------------------------------------
(* SourceIr and its counters.                                              *)

EmptyIr ==
  [providers |-> <<>>, params |-> <<>>, redirects |-> <<>>, beacons |-> <<>>, raw_rules |-> <<>>,
   parsed |-> 0, accepted |-> 0, unsupported |-> 0, failed |-> 0]

Parsed(ir)      == [ir EXCEPT !.parsed = @ + 1]
Unsupported(ir) == [ir EXCEPT !.unsupported = @ + 1]
Failed(ir)      == [ir EXCEPT !.failed = @ + 1]
Accepted(ir, rules, rule) == [ir EXCEPT ![rules] = Append(@, rule), !.accepted = @ + 1]

AnyScope == [kind |-> "any"]

-----------------------------------------------------------------------------
(* parse_clearurls.                                                        *)

Param(exception, all, matcher, scope) ==
  [exception |-> exception, all |-> all, matcher |-> matcher, scope |-> scope]

ProviderScope(p) == [kind |-> "regex", pattern |-> p.url]

\* Variant of AddParams that counts a pattern once however it expands.
AddParamsOnce(ir, p, pattern) ==
  LET ms == NormalizeClearurlsPattern(pattern) IN
  IF ms = <<>> THEN Failed(Parsed(ir))
  ELSE [Parsed(ir) EXCEPT
         !.params = @ \o [k \in DOMAIN ms |-> Param(FALSE, FALSE, ms[k], ProviderScope(p))],
         !.accepted = @ + 1]

\* A pattern of rules or referralMarketing: a rule for each matcher.
AddParams(ir, p, pattern) ==
  LET ms == NormalizeClearurlsPattern(pattern) IN
  IF ms = <<>> THEN Failed(Parsed(ir))
  ELSE FoldLeft(LAMBDA acc, m :
                  Accepted(acc, "params", Param(FALSE, FALSE, m, ProviderScope(p))),
                Parsed(ir), ms)

\* A pattern of redirections or rawRules.
AddWhole(ir, p, pattern, rules) ==
  IF ~Valid(pattern) THEN Failed(Parsed(ir))
  ELSE Accepted(Parsed(ir), rules, [pattern |-> pattern, scope |-> ProviderScope(p)])

AddProvider(ir, p) ==
  LET provided == [ir EXCEPT !.providers = Append(@, p)]
      params == FoldLeft(LAMBDA acc, x : AddParams(acc, p, x), provided, p.rules \o p.referral)
      redirected == FoldLeft(LAMBDA acc, x : AddWhole(acc, p, x, "redirects"), params, p.redirections)
      raw == FoldLeft(LAMBDA acc, x : AddWhole(acc, p, x, "raw_rules"), redirected, p.raw)
  IN IF p.complete THEN [raw EXCEPT !.accepted = @ + 1] ELSE raw

-----------------------------------------------------------------------------
(* parse_brave_clean_urls and parse_brave_debounce.                        *)

Oversized == "oversized"

Globs(e) == Range(e.include) \cup Range(e.exclude)

GlobScope(e) == [kind |-> "globs", include |-> e.include, exclude |-> e.exclude]

AddCleanEntry(ir, e) ==
  IF Oversized \in Globs(e) THEN Failed(ir)
  ELSE FoldLeft(LAMBDA acc, name :
                  IF name = <<>> THEN Unsupported(Parsed(acc))
                  ELSE Accepted(Parsed(acc), "params",
                                Param(FALSE, FALSE, Exact(RawName, name), GlobScope(e))),
                ir, e.params)

Digits == {"0", "1", "2"}

Place(d) == CASE d = "1" -> 1 [] d = "2" -> 2 [] OTHER -> 0

\* template_placeholders_match: "$1" to "$9", each capture once, and no other
\* use of "$".
TemplatePlaceholdersMatch(t, captures) ==
  LET scan[n \in 1..Len(t) + 2, used \in SUBSET (1..2)] ==
        IF n > Len(t) THEN used = 1..captures
        ELSE IF t[n] # "$" THEN scan[n + 1, used]
        ELSE /\ n < Len(t) /\ Place(t[n + 1]) \in 1..captures
             /\ n + 2 <= Len(t) => t[n + 2] \notin Digits
             /\ Place(t[n + 1]) \notin used
             /\ scan[n + 2, used \cup {Place(t[n + 1])}]
  IN captures \in 1..9 /\ scan[1, {}]

PathAction(e) == e.action \in {"regex-path", "regex-path-template"}

\* parse_debounce_action: whether the entry has what its action needs.
HasAction(e) ==
  /\ e.param # <<>>
  /\ \/ e.action \in {"redirect", "base64,redirect"}
     \/ PathAction(e) /\ Valid(e.param[1]) /\ e.param[1].captures >= 1
  /\ e.action = "regex-path-template" => e.template # <<>>

DebounceUnsupported(e) ==
  \/ e.pref
  \/ e.scheme \notin {"none", "http", "https"}
  \/ ~HasAction(e)
  \/ /\ e.action = "regex-path-template"
     /\ ~TemplatePlaceholdersMatch(e.template[1], e.param[1].captures)

DebounceOversized(e) ==
  \/ Oversized \in Globs(e)
  \/ PathAction(e) /\ e.param # <<>> /\ ~RegexPatternAllowed(e.param[1])

AddDebounceEntry(ir, e) ==
  IF ~e.pref /\ DebounceOversized(e) THEN Failed(Parsed(ir))
  ELSE IF DebounceUnsupported(e) THEN Unsupported(Parsed(ir))
  ELSE Accepted(Parsed(ir), "redirects",
                [action |-> e.action, pattern |-> e.param[1], template |-> e.template,
                 scheme |-> e.scheme, scope |-> GlobScope(e)])

-----------------------------------------------------------------------------
(* extract_redirect_target, for the rules of a debounce list.              *)

\* prepend_scheme_value: only what is no URL yet, and something.
PrependScheme(value, scheme) ==
  IF value = <<>> \/ Head(value) = "https:" THEN <<>> ELSE << <<scheme, "://">> \o value >>

\* The one value given for the name; two different ones are ambiguous.
QueryValue(query, name) ==
  LET values == {query[n].value : n \in {k \in DOMAIN query :
                                          query[k].has_equals /\ query[k].name = name}}
  IN IF Cardinality(values) = 1 THEN SetToSeq(values) ELSE <<>>

DecodeBase64(value) == IF value # <<>> /\ Head(value) = "base64" THEN <<Tail(value)>> ELSE <<>>

\* str::replace, on placeholders, which do not overlap.
Substitute(t, k, text) ==
  LET At(n) == n \in 1..Len(t) - 1 /\ t[n] = "$" /\ Place(t[n + 1]) = k
      piece == [n \in DOMAIN t |-> IF At(n) THEN text ELSE IF At(n - 1) THEN <<>> ELSE <<t[n]>>]
  IN FlattenSeq(piece)

\* Each capture in turn replaces its placeholders.
Assemble(t, captures) ==
  FoldLeft(LAMBDA out, k : Substitute(out, k, captures[k][1]), t, [k \in DOMAIN captures |-> k])

ExtractRedirectTarget(rule, url) ==
  LET value ==
        CASE rule.action = "redirect" -> QueryValue(url.query, rule.pattern.name)
          [] rule.action = "base64,redirect" ->
               LET v == QueryValue(url.query, rule.pattern.name)
               IN IF v = <<>> THEN v ELSE DecodeBase64(v[1])
          [] OTHER ->
               LET captures == SubSeq(url.captures, 1, rule.pattern.captures)
               IN IF Contains(captures, <<>>) THEN <<>>
                  ELSE IF rule.action = "regex-path"
                  THEN <<FlattenSeq([k \in DOMAIN captures |-> captures[k][1]])>>
                  ELSE <<Assemble(rule.template[1], captures)>>
  IN IF value = <<>> \/ rule.scheme = "none" THEN value
     ELSE PrependScheme(value[1], rule.scheme)

-----------------------------------------------------------------------------
(* parse_adguard.  A modifier is [name, value]: the domains of "domain",   *)
(* and for "removeparam" the form it is written in ("naked", "empty",      *)
(* "tilde" for ~name, "regex" for /pattern/, "slash" for a lone "/", or    *)
(* "name") with the pattern or name.                                       *)

Modifiers(line, name) == SelectSeq(line.modifiers, LAMBDA m : m.name = name)

Has(line, name) == Modifiers(line, name) # <<>>

Domains(line) == UNION {m.value.domains : m \in Range(Modifiers(line, "domain"))}

\* Domains that are empty, negated or hold a star.
OddDomains == {"", "~d", "*d"}

\* The last removeparam decides.
RemoveParam(line) ==
  IF Has(line, "removeparam") THEN Last(Modifiers(line, "removeparam")).value ELSE [form |-> "none"]

Beacon(line, usage) == Has(line, "image") \/ usage = "mail-beacon"

\* Unknown modifiers, domains that cannot be kept, and a parameter rule for
\* images only, which no rule of the store can express.
ModifiersUnsupported(line) ==
  \/ Has(line, "other") \/ Domains(line) \cap OddDomains # {}
  \/ Has(line, "image") /\ Has(line, "removeparam")

ActionUnsupported(line, usage) ==
  LET form == RemoveParam(line).form IN
  \/ form \in {"tilde", "empty"}
  \/ form = "naked" /\ ~line.inverted
  \/ form = "none" /\ (line.inverted \/ ~Beacon(line, usage))

LineScope(line) ==
  IF line.target = "" /\ Domains(line) = {} THEN AnyScope
  ELSE [kind |-> "adguard", target |-> line.target, domains |-> Domains(line),
        match_case |-> Has(line, "match-case")]

\* The slice between the slashes of "/" alone is out of range.
LinePanics(line) ==
  ~ModifiersUnsupported(line) /\ line.target # Oversized /\ RemoveParam(line).form = "slash"

\* A name is compared without case unless the line says match-case.
NamedParam(line, name) ==
  IF Has(line, "match-case") THEN Exact([DecodedName EXCEPT !.case_sensitive = TRUE], name)
  ELSE Exact(DecodedName, Lower(name))

AddLine(ir, line, usage) ==
  LET value == RemoveParam(line)
      Rule(matcher) == Param(line.inverted, value.form = "naked", matcher, LineScope(line))
  IN CASE line.comment -> ir
       [] ~line.comment /\ ModifiersUnsupported(line) -> Unsupported(Parsed(ir))
       [] ~line.comment /\ ~ModifiersUnsupported(line) /\ line.target = Oversized -> Failed(Parsed(ir))
       [] OTHER ->
            IF ActionUnsupported(line, usage) THEN Unsupported(Parsed(ir))
            ELSE CASE value.form = "none" ->
                        Accepted(Parsed(ir), "beacons",
                                 [pattern |-> line.target, scope |-> LineScope(line)])
                   [] value.form = "regex" ->
                        IF ~Valid(value.pattern) THEN Failed(Parsed(ir))
                        ELSE Accepted(Parsed(ir), "params",
                                      Rule(Regex(DecodedPair, Wrapped(value.pattern.hir))))
                   [] value.form = "name" ->
                        Accepted(Parsed(ir), "params", Rule(NamedParam(line, value.pattern.hir.text)))
                   [] value.form = "naked" ->
                        Accepted(Parsed(ir), "params",
                          Rule(Exact([RawName EXCEPT !.requires_equals = FALSE], <<>>)))

-----------------------------------------------------------------------------
(* count_regex_rules: expressions and scopes, each counted once.           *)

Rules(ir) == Range(ir.params) \cup Range(ir.redirects) \cup Range(ir.beacons) \cup Range(ir.raw_rules)

RedirectPatterns(ir) ==
  {r.pattern : r \in {x \in Range(ir.redirects) : "action" \notin DOMAIN x \/ PathAction(x)}}

CountRegexRules(ir) ==
  Cardinality({<<"url", p.url>> : p \in Range(ir.providers)}
    \cup UNION {{<<"exception", e>> : e \in Range(p.exceptions)} : p \in Range(ir.providers)}
    \cup {<<"param", r.matcher>> : r \in {x \in Range(ir.params) : x.matcher.kind = "regex"}}
    \cup {<<"scope", r.scope>> : r \in {x \in Rules(ir) : x.scope # AnyScope}}
    \cup {<<"redirect", q>> : q \in RedirectPatterns(ir)}
    \cup {<<"beacon", b.pattern>> : b \in Range(ir.beacons)}
    \cup {<<"raw", r.pattern>> : r \in Range(ir.raw_rules)})

-----------------------------------------------------------------------------

VARIABLES
  pack,    \* the source
  format,  \* its format
  rest,    \* entries still to be parsed
  ir,      \* what has been parsed
  pc       \* "detect", "parse", or how it ended

vars == <<pack, format, rest, ir, pc>>

Init == pack \in Packs /\ format = "none" /\ rest = <<>> /\ ir = EmptyIr /\ pc = "detect"

\* detect_format: what the text is, by its first character and, in a list,
\* by the members of its entries.
DetectFormat ==
  CASE pack.holds = "providers" -> "clear-urls"
    [] pack.holds = "lines" -> "ad-guard"
    [] pack.holds = "list" /\ (\E e \in Range(pack.entries) : "action" \in DOMAIN e) -> "brave-debounce"
    [] pack.holds = "list" /\ (\A e \in Range(pack.entries) : "action" \notin DOMAIN e)
         /\ (\E e \in Range(pack.entries) : "params" \in DOMAIN e) -> "brave-clean-urls"
    [] OTHER -> "none"

\* The format configured, or else the one detected.
Detect ==
  LET f == IF pack.hint = "auto" THEN DetectFormat ELSE pack.hint IN
  /\ pc = "detect"
  /\ format' = f
  /\ pc' = IF f = "none" THEN "UnknownFormat" ELSE IF pack.holds = "broken" THEN "Parse" ELSE "parse"
  /\ rest' = IF pc' = "parse" THEN pack.entries ELSE <<>>
  /\ UNCHANGED <<pack, ir>>

Entry(f) ==
  /\ pc = "parse" /\ format = f /\ rest # <<>>
  /\ rest' = Tail(rest)
  /\ UNCHANGED <<pack, format>>

\* A provider without a usable urlPattern costs only itself.
SkipProvider ==
  /\ Entry("clear-urls") /\ ~Valid(Head(rest).url)
  /\ ir' = Failed(ir) /\ UNCHANGED pc

\* One whose exception cannot be kept costs the pack.
FailProvider ==
  /\ Entry("clear-urls") /\ Valid(Head(rest).url)
  /\ \E e \in Range(Head(rest).exceptions) : ~Valid(e)
  /\ ir' = EmptyIr /\ pc' = "Parse"

TakeProvider ==
  /\ Entry("clear-urls") /\ Valid(Head(rest).url)
  /\ \A e \in Range(Head(rest).exceptions) : Valid(e)
  /\ ir' = AddProvider(ir, Head(rest)) /\ UNCHANGED pc

TakeCleanEntry ==
  Entry("brave-clean-urls") /\ ir' = AddCleanEntry(ir, Head(rest)) /\ UNCHANGED pc

TakeDebounceEntry ==
  Entry("brave-debounce") /\ ir' = AddDebounceEntry(ir, Head(rest)) /\ UNCHANGED pc

TakeLine ==
  /\ Entry("ad-guard") /\ ~LinePanics(Head(rest))
  /\ ir' = AddLine(ir, Head(rest), pack.usage) /\ UNCHANGED pc

TakeLinePanics ==
  /\ Entry("ad-guard") /\ LinePanics(Head(rest))
  /\ ir' = EmptyIr /\ pc' = "panic"

\* The end of add_source_str: a pack over a limit is not kept at all.
EndParse ==
  /\ pc = "parse" /\ rest = <<>>
  /\ pc' = IF ir.accepted > MaxRules /\ ~pack.builtin THEN "RuleLimit"
           ELSE IF CountRegexRules(ir) > MaxRegexes /\ ~pack.builtin THEN "RegexLimit"
           ELSE "kept"
  /\ UNCHANGED <<pack, format, rest, ir>>

Next ==
  \/ Detect \/ SkipProvider \/ FailProvider \/ TakeProvider
  \/ TakeCleanEntry \/ TakeDebounceEntry \/ TakeLine \/ TakeLinePanics \/ EndParse

Spec == Init /\ [][Next]_vars

=============================================================================
