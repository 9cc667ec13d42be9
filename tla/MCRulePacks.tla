----------------------------- MODULE MCRulePacks ----------------------------
(***************************************************************************)
(* Packs of every format, and what they say to a reader of their syntax.   *)
(***************************************************************************)
EXTENDS RulePacks

\* The characters of ClearURLs patterns and their parameters.
Chars == {"u", "t", "_"}

MCProbes == {"u", "_"}

Ok(h)      == [fault |-> "none", root |-> "none", hir |-> h]
Bad(why)   == [fault |-> why, root |-> "none", hir |-> Nothing]
At(root, h) == [fault |-> "none", root |-> root, hir |-> h]

-----------------------------------------------------------------------------
(* ClearURLs: a provider with one rule, for many expressions, and packs of *)
(* two providers with something wrong in one of them.                      *)

U == Literal(<<"u">>)
T == Literal(<<"t">>)
Atoms == {U, T, Literal(<<"u", "t">>), Class({"u", "t"}), Class({"_"}), Class(Chars)}
Tails == {Repetition(Class(c), 0, Unbounded) : c \in {Chars, MCProbes, {"u", "t"}}}
Reps  == {Repetition(a, n[1], n[2]) :
            a \in Atoms, n \in {<<0, Unbounded>>, <<1, Unbounded>>, <<0, 1>>, <<2, 2>>, <<1, 2>>}}
Alts  == {Alternation(<<a, b>>) : a \in Atoms, b \in {U, Nothing, Class({"u", "t"})}}
           \cup {Alternation(<<U, T, a>>) : a \in Atoms}
           \cup {Alternation(<<U, T, Class({"_"}), a>>) : a \in {Nothing, U}}
Small == Atoms \cup Reps \cup {Capture(a) : a \in Alts}
Concats == {Concat(<<a, b>>) : a \in Small, b \in Small}
             \cup {Concat(<<a, b, c>>) : a \in Atoms, b \in Atoms, c \in Atoms \cup Reps}
\* Anchors in every place of an expression.
Looks == {Look("start"), Look("end")}
Anchored == Looks
             \cup {Concat(<<l, a>>) : l \in Looks, a \in Small}
             \cup {Concat(<<a, l>>) : l \in Looks, a \in Small}
             \cup {Concat(<<l, U, a>>) : l \in Looks, a \in Small \cup Tails}
             \cup {Concat(<<U, l, a>>) : l \in Looks, a \in Small \cup Tails}
             \cup {Concat(<<U, a, l>>) : l \in Looks, a \in Small}
             \cup {Alternation(<<T, Concat(<<U, l>>)>>) : l \in Looks}
             \cup {Concat(<<U, Capture(Alternation(<<T, l>>)), a>>) : l \in Looks, a \in {U, Class({"u", "t"})}}

Provider(url, exceptions, rules, redirections, complete) ==
  [url |-> url, exceptions |-> exceptions, rules |-> rules, referral |-> <<>>,
   redirections |-> redirections, raw |-> redirections, complete |-> complete]

Faulty == {Ok(U), Bad("invalid"), Bad("too_long")}

Two(p, q) == <<p, q>>

ProviderLists ==
  {<<Provider(Ok(T), <<>>, <<Ok(h)>>, <<>>, FALSE)>> :
     h \in Small \cup Alts \cup Concats \cup Anchored \cup {Concat(<<U, a>>) : a \in Tails}}
  \cup
  {<<Provider(At(root, h), <<>>, <<Ok(U)>>, <<>>, FALSE)>> :
     root \in {"site", "subdomains"},
     h \in Small \cup Alts \cup {Concat(<<a, b>>) : a \in Atoms, b \in Small} \cup Anchored}
  \cup
  {Two(Provider(Ok(T), <<>>, <<r, Ok(Concat(<<U, Capture(Alternation(<<T, U>>))>>))>>, <<x>>, TRUE),
       Provider(url, <<e>>, <<Ok(T)>>, <<>>, FALSE)) :
     r \in Faulty, x \in Faulty, url \in Faulty, e \in Faulty}

-----------------------------------------------------------------------------
(* Brave lists.                                                            *)

Name(n) == <<n>>

CleanLists ==
  {<<[include |-> <<g>>, exclude |-> <<h>>, params |-> ps]>> :
     g \in {"g", Oversized}, h \in {"h", Oversized},
     ps \in {<<>>, <<Name("u"), <<>>, Name("t")>>,
             <<Name("u"), Name("t"), Name("_"), Name("x"), Name("y"), Name("z"), Name("v")>>}}

PathPattern(captures, fault) == [name |-> "", captures |-> captures, fault |-> fault]

Debounce(pref, include, action, param, template, scheme) ==
  [pref |-> pref, include |-> <<include>>, exclude |-> <<>>, action |-> action,
   param |-> param, template |-> template, scheme |-> scheme]

Templates == BoundedSeq({"$", "1", "2", "0", "/"}, 4) \cup {<<"$", "2", "/", "$", "1">>}

DebounceLists ==
  {<<Debounce(FALSE, "g", "regex-path-template", <<PathPattern(n, "none")>>, <<t>>, "none")>> :
     n \in 0..2, t \in Templates}
  \cup
  {<<Debounce(pref, g, a, p, t, s)>> :
     pref \in BOOLEAN, g \in {"g", Oversized},
     a \in {"redirect", "base64,redirect", "regex-path", "regex-path-template", "other"},
     p \in {<<>>, <<[name |-> "u", captures |-> 0, fault |-> "none"]>>, <<PathPattern(1, "none")>>,
            <<PathPattern(1, "invalid")>>, <<PathPattern(1, "too_long")>>},
     t \in {<<>>, << <<"$", "1">> >>}, s \in {"none", "https", "other"}}

-----------------------------------------------------------------------------
(* AdGuard lines: one with any two modifiers, or two simple ones.          *)

Plain(name) == [name |-> name, value |-> [form |-> "none"]]
RemoveMod(form, pattern) == [name |-> "removeparam", value |-> [form |-> form, pattern |-> pattern]]
Domain(ds) == [name |-> "domain", value |-> [form |-> "none", domains |-> ds]]

\* A pattern for the whole of "name=value", one for any value, one that names
\* no value.
PairPatterns ==
  {Ok(Literal(<<"u", "=", "t">>)), Ok(Alternation(<<U, T>>)), Bad("invalid"),
   Ok(Concat(<<Look("start"), Literal(<<"u", "=">>), Repetition(Class(Chars \cup {"="}), 0, Unbounded)>>))}

Mods ==
  {RemoveMod("regex", p) : p \in PairPatterns} \cup
  {Plain("image"), Plain("match-case"), Plain("other"),
   RemoveMod("naked", Ok(Nothing)), RemoveMod("empty", Ok(Nothing)), RemoveMod("tilde", Ok(U)),
   RemoveMod("slash", Ok(Nothing)), RemoveMod("name", Ok(U)), RemoveMod("name", Ok(Literal(<<"T">>))),
   Domain({"d"}), Domain({"d", "e"}), Domain({"~d"}), Domain({""})}

Line(inverted, target, ms) == [comment |-> FALSE, inverted |-> inverted, target |-> target, modifiers |-> ms]

Comment == [comment |-> TRUE, inverted |-> FALSE, target |-> "", modifiers |-> <<>>]

Simple == {Line(i, "t", <<RemoveMod("name", p)>>) : i \in BOOLEAN, p \in {Ok(U), Ok(T)}}
            \cup {Line(i, "", <<RemoveMod("naked", Ok(Nothing)), Domain({"d"})>>) : i \in BOOLEAN}
            \cup {Line(FALSE, "t", <<Plain("image")>>), Comment}

LineLists ==
  {<<Line(i, t, ms)>> : i \in BOOLEAN, t \in {"", "t", Oversized}, ms \in BoundedSeq(Mods, 2)}
  \cup {<<a, b>> : a \in Simple, b \in Simple}

-----------------------------------------------------------------------------

Pack(hint, holds, entries, usage, builtin) ==
  [hint |-> hint, holds |-> holds, entries |-> entries, usage |-> usage, builtin |-> builtin]

MCPacks ==
  {Pack("auto", "providers", es, "none", b) : es \in ProviderLists, b \in {FALSE}}
  \cup {Pack("auto", "list", es, "none", FALSE) : es \in CleanLists \cup DebounceLists \cup {<<>>}}
  \cup {Pack("auto", "lines", es, "none", FALSE) : es \in LineLists}
  \cup {Pack("ad-guard", "lines", es, "mail-beacon", FALSE) : es \in LineLists}
  \cup {Pack(hint, "broken", <<>>, "none", FALSE) : hint \in {"auto", "clear-urls"}}
  \cup {Pack("clear-urls", "providers", es, "none", TRUE) : es \in {x \in ProviderLists : Len(x) = 2}}
-----------------------------------------------------------------------------
(* What a regular expression means.                                        *)

\* Where a match of h in w that starts at n can end.
RECURSIVE Ends(_, _, _)
Ends(h, w, n) ==
  CASE h.kind = "empty" -> {n}
    [] h.kind = "look" -> {k \in {n} : k = IF h.at = "start" THEN 1 ELSE Len(w) + 1}
    [] h.kind = "literal" -> {k \in {n + Len(h.text)} : k <= Len(w) + 1 /\ SubSeq(w, n, k - 1) = h.text}
    [] h.kind = "class" -> {k \in {n + 1} : n <= Len(w) /\ w[n] \in h.chars}
    [] h.kind = "capture" -> Ends(h.sub, w, n)
    [] h.kind = "concat" -> FoldLeft(LAMBDA ks, p : UNION {Ends(p, w, k) : k \in ks}, {n}, h.parts)
    [] h.kind = "alternation" -> UNION {Ends(p, w, n) : p \in Range(h.parts)}
    [] h.kind = "repetition" ->
         LET reached[t \in 0..Len(w) + 2] ==
               IF t = 0 THEN {n} ELSE UNION {Ends(h.sub, w, k) : k \in reached[t - 1]}
         IN UNION {reached[t] : t \in {x \in h.min..Len(w) + 2 : x <= h.max}}

MatchesWhole(h, w) == Len(w) + 1 \in Ends(h, w, 1)

Finds(h, w) == \E n \in 1..Len(w) + 1 : Ends(h, w, n) # {}

\* CompiledParamMatcher::matches, on a segment of a query.
Matches(m, segment) ==
  LET w == IF m.on.subject = "pair" THEN segment.name \o <<"=">> \o segment.value ELSE segment.name
      Same(a, b) == IF m.on.case_sensitive THEN a = b ELSE Lower(a) = Lower(b)
  IN /\ m.on.requires_equals => segment.has_equals
     /\ CASE m.kind = "exact" -> Same(w, m.text)
          [] m.kind = "prefix" -> Len(m.text) <= Len(w) /\ Same(SubSeq(w, 1, Len(m.text)), m.text)
          [] m.kind = "regex" -> Finds(m.hir, w)

Named(w) == [name |-> w, has_equals |-> TRUE, value |-> <<>>]

Words == BoundedSeq(Chars, 3)

Parts(h) == IF h.kind \in {"concat", "alternation"} THEN h.parts
            ELSE IF h.kind \in {"capture", "repetition"} THEN <<h.sub>> ELSE <<>>

\* What the code takes for something else: an anchor for nothing, and a class
\* that has the characters tried for any character.
RECURSIVE Loose(_)
Loose(h) ==
  \/ h.kind = "look"
  \/ h.kind = "class" /\ Probes \subseteq h.chars /\ h.chars # Chars
  \/ \E p \in Range(Parts(h)) : Loose(p)

\* Without the anchors that a pattern for whole names may as well have.
Inner(h) ==
  LET parts == FlattenConcat(h)
      from == IF parts[1] = Look("start") THEN 2 ELSE 1
      to == IF Last(parts) = Look("end") THEN Len(parts) - 1 ELSE Len(parts)
  IN Concat(SubSeq(parts, from, to))

\* Where the rest of a provider's pattern may begin in what follows the scheme:
\* at once, or after labels.  Here "_" is the dot.
Starts(root, w) ==
  {n \in 1..Len(w) + 1 :
     \/ n = 1
     \/ /\ root = "subdomains" /\ w[n - 1] = "_" /\ w[1] # "_"
        /\ \A k \in 2..n - 1 : w[k] # "_" \/ w[k - 1] # "_"}

\* A provider whose pattern is kept as literals is on for the URLs the pattern
\* matches, and unless it has an anchor after the scheme for no others.
ProvidersAsWritten ==
  \A p \in Range(ir.providers) :
    LET literals == CompileProviderDirectPattern(p.url) IN
    literals # <<>> =>
      \A w \in Words :
        LET written == \E n \in Starts(p.url.root, w) : Ends(p.url.hir, w, n) # {}
            on == \E n \in Starts(p.url.root, w), l \in Range(literals) :
                    IsPrefix(l, SubSeq(w, n, Len(w)))
        IN (written => on) /\ (on => written \/ Loose(p.url.hir))

\* A ClearURLs pattern, however it was simplified, prefixed or expanded, picks
\* every parameter name the expression matches, and one of a provider every
\* URL; it picks others only if the expression has an anchor inside or a class
\* that is_any_character takes for any character
\* (ruleset.rs:1938-1990, 3812-3860, 3881-4004).
PatternsAsWritten ==
  pc = "kept" /\ format = "clear-urls" =>
   /\ ProvidersAsWritten
   /\ LET patterns == {x \in UNION {Range(p.rules) : p \in Range(ir.providers)} : Valid(x)} IN
      \A w \in Words :
        LET picked == \E r \in Range(ir.params) : Matches(r.matcher, Named(w))
            written == \E x \in patterns : MatchesWhole(x.hir, w)
        IN /\ written => picked
           /\ picked => written \/ \E x \in patterns : Loose(Inner(x.hir))

-----------------------------------------------------------------------------
(* What a filter line asks for, on a resource of a page.                   *)

Segments ==
  {[name |-> n, has_equals |-> FALSE, value |-> <<>>] : n \in {<<"u">>, <<"U">>}}
    \cup {[name |-> n, has_equals |-> TRUE, value |-> v] :
            n \in {<<"u">>, <<"t">>, <<"_">>}, v \in {<<>>, <<"t">>}}

Situation ==
  [image : BOOLEAN, other : BOOLEAN, url : {"t", "T", "q"}, domain : {"d", "e", "x"},
   segment : Segments]

\* Targets and names are written in any case, unless match-case says it matters.
Alike(line, a, b) == IF Has(line, "match-case") THEN a = b ELSE LowerCase(a) = LowerCase(b)

\* Every modifier narrows the line, the domains of one by their union.
Applies(line, s) ==
  /\ ~line.comment
  /\ line.target # "" => Alike(line, line.target, s.url)
  /\ \A m \in Range(line.modifiers) :
       CASE m.name = "image" -> s.image
         [] m.name = "other" -> s.other
         [] m.name \notin {"image", "other"} -> TRUE
  /\ Has(line, "domain") =>
       s.domain \in Domains(line) \/ ("~d" \in Domains(line) /\ s.domain # "d")

\* A regex speaks of the whole "name=value" (tests/rule_formats.rs:38-52).
Asks(line, s, usage, effect) ==
  LET value == RemoveParam(line) IN
  /\ Applies(line, s)
  /\ line.inverted <=> effect \in {"keep", "allow"}
  /\ IF effect \in {"remove", "keep"}
     THEN CASE value.form \in {"naked"} -> TRUE
            [] value.form = "name" -> Alike(line, value.pattern.hir.text[1], s.segment.name[1])
            [] value.form = "regex" ->
                 /\ Valid(value.pattern) /\ s.segment.has_equals
                 /\ MatchesWhole(value.pattern.hir, s.segment.name \o <<"=">> \o s.segment.value)
            [] value.form = "tilde" -> ~Alike(line, value.pattern.hir.text[1], s.segment.name[1])
            [] OTHER -> FALSE
     ELSE value.form = "none" /\ s.image /\ Beacon(line, usage)

ScopeCovers(scope, s) ==
  \/ scope = AnyScope
  \/ /\ scope # AnyScope
     /\ \/ scope.target = ""
        \/ scope.match_case /\ scope.target = s.url
        \/ ~scope.match_case /\ LowerCase(scope.target) = LowerCase(s.url)
     /\ scope.domains = {} \/ s.domain \in scope.domains

Does(s, effect) ==
  IF effect \in {"remove", "keep"}
  THEN \E r \in Range(ir.params) :
         /\ r.exception <=> effect = "keep"
         /\ ScopeCovers(r.scope, s)
         /\ r.all \/ Matches(r.matcher, s.segment)
  ELSE effect = "block" /\ s.image /\ \E b \in Range(ir.beacons) : ScopeCovers(b.scope, s)

\* The rules of a list do nothing that no line asks for, and when the report
\* has nothing to say of skipped lines they do all that the lines ask.
LinesAsWritten ==
  pc = "kept" /\ format = "ad-guard" =>
    \A s \in Situation, effect \in {"remove", "keep", "block", "allow"} :
      LET asked == \E line \in Range(pack.entries) : Asks(line, s, pack.usage, effect) IN
      /\ Does(s, effect) => asked
      /\ ir.unsupported + ir.failed = 0 => (asked => Does(s, effect))

\* An entry removes the parameters it names, spelt as they are and given a value.
CleanEntriesAsWritten ==
  pc = "kept" /\ format = "brave-clean-urls" =>
    \A e \in Range(pack.entries), segment \in Segments :
      (\E r \in Range(ir.params) : Matches(r.matcher, segment))
        <=> /\ Oversized \notin Globs(e) /\ segment.has_equals
            /\ segment.name \in Range(e.params)

-----------------------------------------------------------------------------
(* What a debounce entry means, on a URL.                                  *)

TemplateIsExact(t, n) ==
  LET used == {k \in DOMAIN t : t[k] = "$"} IN
  /\ n \in 1..9
  /\ \A k \in used : k < Len(t) /\ Place(t[k + 1]) \in 1..n /\ (k + 2 <= Len(t) => t[k + 2] \notin Digits)
  /\ \A c \in 1..n : Cardinality({k \in used : Place(t[k + 1]) = c}) = 1

Meant(e) ==
  /\ ~e.pref /\ Oversized \notin Globs(e) /\ e.scheme # "other" /\ e.action # "other"
  /\ e.param # <<>>
  /\ PathAction(e) => e.param[1].fault = "none" /\ e.param[1].captures > 0
  /\ e.action = "regex-path-template" =>
       e.template # <<>> /\ TemplateIsExact(e.template[1], e.param[1].captures)

Segment(name, eq, value) == [name |-> name, has_equals |-> eq, value |-> value]

Urls ==
  [query : {<<>>, <<Segment("u", FALSE, <<>>)>>} \cup
           {<<Segment("u", TRUE, v), Segment(n, TRUE, w)>> :
              v \in {<<"a">>, <<"https:", "a">>, <<"base64", "a">>}, w \in {<<"a">>}, n \in {"u", "x"}},
   captures : {<<c, d>> : c \in {<<>>, << <<"a">> >>}, d \in {<<>>, << <<"b", "a">> >>}}]

\* All placeholders are filled at once.
Filled(t, captures) ==
  FlattenSeq([k \in DOMAIN t |->
    IF t[k] = "$" THEN captures[Place(t[k + 1])][1]
    ELSE IF k > 1 /\ t[k - 1] = "$" THEN <<>> ELSE <<t[k]>>])

Destination(e, url) ==
  LET all == {x.value : x \in {y \in Range(url.query) : y.has_equals /\ y.name = e.param[1].name}}
      given == IF \A v, w \in all : v = w THEN all ELSE {}
      n == e.param[1].captures
      value ==
        CASE e.action = "redirect" -> given
          [] e.action = "base64,redirect" -> {Tail(v) : v \in {x \in given : Head(x) = "base64"}}
          [] PathAction(e) ->
               IF \E k \in 1..n : url.captures[k] = <<>> THEN {}
               ELSE IF e.action = "regex-path"
               THEN {FlattenSeq([k \in 1..n |-> url.captures[k][1]])}
               ELSE {Filled(e.template[1], SubSeq(url.captures, 1, n))}
  IN IF e.scheme = "none" THEN value
     ELSE {<<e.scheme, "://">> \o v : v \in {x \in value : Head(x) # "https:"}}

\* A debounce entry gives a rule exactly when it can be followed to the
\* letter, and its rule leads to the destination it describes, or nowhere
\* when a URL names none or two.
RedirectsAsWritten ==
  pc = "kept" /\ format = "brave-debounce" =>
    \A e \in Range(pack.entries) :
      /\ (ir.redirects # <<>>) <=> Meant(e)
      /\ ir.redirects # <<>> =>
           \A url \in Urls :
             ExtractRedirectTarget(ir.redirects[1], url)
               = IF Cardinality(Destination(e, url)) = 1 THEN SetToSeq(Destination(e, url)) ELSE <<>>

\* Rules of a filter list, parameter lists and redirects do what their text
\* says, no more and, unless the report counts them as skipped, no less; a
\* line's regex looks at "name=value", with or without case as it is written
\* (ruleset.rs:3379-3810, 2658-2736, 611-641).
RulesAsWritten == LinesAsWritten /\ CleanEntriesAsWritten /\ RedirectsAsWritten

-----------------------------------------------------------------------------

Written == Cardinality({n \in DOMAIN pack.entries : format # "ad-guard" \/ ~pack.entries[n].comment})

Retained ==
  Len(ir.params) + Len(ir.redirects) + Len(ir.beacons) + Len(ir.raw_rules)
    + Len(SelectSeq(ir.providers, LAMBDA p : p.complete))

\* Distinct expressions the store will have compiled.
Compiled ==
  {<<"url", p.url>> : p \in Range(ir.providers)}
    \cup UNION {{<<"exception", e>> : e \in Range(p.exceptions)} : p \in Range(ir.providers)}
    \cup {<<"param", r.matcher.hir>> : r \in {x \in Range(ir.params) : x.matcher.kind = "regex"}}
    \cup {<<"redirect", q>> : q \in RedirectPatterns(ir)}
    \cup {<<"raw", r.pattern>> : r \in Range(ir.raw_rules)}

\* The report's counters are true: what is accepted is what is retained, each
\* line or entry of the formats with one rule each is accepted, unsupported or
\* failed, and a pack that is kept is within the limits by what it holds.
AccountsBalance ==
  /\ ir.accepted = Retained
  /\ format \in {"ad-guard", "brave-debounce"} /\ pc = "kept" =>
       /\ ir.parsed = Written
       /\ ir.parsed = ir.accepted + ir.unsupported + ir.failed
  /\ pc = "kept" /\ ~pack.builtin => Retained <= MaxRules /\ Cardinality(Compiled) <= MaxRegexes

=============================================================================
