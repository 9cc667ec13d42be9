---------------------------- MODULE MCRuleStore ----------------------------
(***************************************************************************)
(* Instances of RuleStore for TLC: small packs of every format with rules  *)
(* that overlap, and URLs that reach them in the ways an index may miss.   *)
(***************************************************************************)
EXTENDS RuleStore, RegexIndex

CONSTANTS a, b, c, m, keep, stay,         \* labels and words of URLs
          utm, vid, ref,                  \* parameters
          globalRules, shop, forum        \* providers

A == <<a, ".", c>>
B == <<b, ".", c>>

Raw(name) == [name |-> name, subject |-> "RawName", requires_equals |-> TRUE]
Decoded(name) == [name |-> name, subject |-> "DecodedName", requires_equals |-> FALSE]

Rule(source, provider, matcher, include) ==
  [source |-> source, provider |-> provider, global |-> source = "AdGuard",
   referral |-> FALSE, exception |-> FALSE, all |-> FALSE,
   matcher |-> matcher, include |-> include, exclude |-> {}]

ClearUrls(provider, matcher, scope) ==
  [Rule("ClearUrls", provider, matcher, {scope}) EXCEPT !.global = provider = globalRules]

ProviderOf(name, scope, exceptions) ==
  [name |-> name, scope |-> scope, exceptions |-> exceptions, compiles |-> TRUE, source |-> ""]

Source(name, providers, params, redirects) ==
  [name |-> name, providers |-> providers, params |-> params, redirects |-> redirects]

Redirect(provider, from, include, exclude) ==
  [provider |-> provider, from |-> from, include |-> include, exclude |-> exclude,
   compiles |-> TRUE]

Web == Pattern(<<"https">>)
OnA == Direct(A, TRUE)
OnB == Direct(B, FALSE)

Site(h) == Glob(<<"*", "://">> \o h \o <<"/", "*">>)
SubSite(h) == Glob(<<"*", "://", "*", ".">> \o h \o <<"/", "*">>)
Anywhere == Glob(<<"*", "/", m, "/", "*">>)

Builtin ==
  Source("builtin",
         <<ProviderOf(globalRules, Web, {}), ProviderOf(shop, OnA, {<<keep>>})>>,
         <<ClearUrls(globalRules, Decoded(utm), Web),
           ClearUrls(shop, Decoded(vid), OnA),
           [ClearUrls(shop, Decoded(ref), OnA) EXCEPT !.referral = TRUE]>>,
         <<Redirect(shop, ref, {OnA}, {})>>)

\* Shares a rule with the built-in provider, under exceptions of its own.
ForumPack ==
  Source("forum.json",
         <<ProviderOf(forum, OnA, {<<stay>>}),
           [ProviderOf(globalRules, Web, {}) EXCEPT !.compiles = FALSE]>>,
         <<ClearUrls(forum, Decoded(vid), OnA), ClearUrls(globalRules, Decoded(ref), Web)>>,
         <<[Redirect(globalRules, vid, {Web}, {}) EXCEPT !.compiles = FALSE]>>)

\* The two lists of Brave, which are loaded as two sources; here they are one,
\* since parameter and redirect rules are compiled in loops of their own.
BravePack ==
  Source("brave.json", <<>>,
         <<[Rule("BraveCleanUrls", "", Raw(ref), {Site(B), SubSite(A)}) EXCEPT
              !.exclude = {Glob(<<"*", "/", keep>>)}],
           Rule("BraveCleanUrls", "", Raw(ref), {Site(B), SubSite(A)}),
           Rule("BraveCleanUrls", "", Raw(vid), {Anywhere})>>,
         <<Redirect("", utm, {Site(A)}, {Glob(<<"*", "/", keep>>)}),
           Redirect("", vid, {Site(B), Anywhere}, {}),
           Redirect("", ref, {SubSite(A), Site(A \o <<".">>)}, {})>>)

AdGuardPack ==
  Source("adguard.txt", <<>>,
         <<Rule("AdGuard", "", Decoded(vid), {AdGuardTarget(<<"||">> \o B \o <<"^">>, {})}),
           [Rule("AdGuard", "", Decoded(vid), {AdGuardTarget(<<"/", keep, "|">>, {<<b, c>>})})
              EXCEPT !.exception = TRUE],
           Rule("AdGuard", "", Decoded(ref), {AdGuardTarget(<<"*">>, {<<a, c>>, <<m, b, c>>})}),
           [Rule("AdGuard", "", Raw(""), {AdGuardTarget(<<"|", "https">>, {<<m, a, c>>})})
              EXCEPT !.exception = TRUE, !.all = TRUE]>>, <<>>)

\* A Clean URLs entry for one host and for a path on any host.
MixedPack ==
  Source("brave.json", <<>>,
         <<Rule("BraveCleanUrls", "", Raw(vid), {Site(A), Anywhere})>>, <<>>)

\* Another pack with a provider called forum, which makes no exceptions.
OtherForumPack ==
  Source("forum.json", <<ProviderOf(forum, OnB, {})>>, <<ClearUrls(forum, Decoded(vid), OnB)>>, <<>>)

External == {ForumPack, BravePack, AdGuardPack}

MCPacks ==
  {<<>>, <<Builtin>>} \cup {<<Builtin, s>> : s \in External \cup {MixedPack}}
    \cup {<<Builtin, s, t>> : s, t \in External}

\* A ruleset read from one text.
Read(src) == <<[src EXCEPT !.name = "source"]>>

MCExtra ==
  {Read(s) : s \in External \cup {OtherForumPack}}
    \cup {<<OtherForumPack>>, <<Builtin, OtherForumPack>>}

MCNamesakePacks == {<<Builtin>>}

At(host, rest) == [host |-> host, rest |-> rest, carries |-> {utm, vid, ref}]

MCUrl ==
  {At(h, r) : h \in {<<a, c>>, <<b, c>>, <<m, a, c>>, <<m, b, c>>, <<a, c, "">>},
              r \in {<<keep>>, <<stay>>, <<m, "/">>,
                     <<keep, "https", "://">> \o A \o <<"/", stay>>}}
    \cup {[At(<<m, a, c>>, <<>>) EXCEPT !.carries = {ref}], At(<<b, c, a>>, <<>>)}

MCSegment ==
  {[name |-> n, plain |-> p, eq |-> e] : n \in {utm, vid, ref}, p, e \in BOOLEAN}

MCProvider == {shop, forum}

\* Patterns and texts the matchers are compared on.
PatternTokens == {"*", "?", "^", "x", "/"}
TextTokens == {"x", "/"}
MaxPattern == 4
MaxText == 4

\* The matchers remember only the last star (ruleset.rs:2968-3066), and still
\* accept a text exactly when there is some way to lay the pattern over it,
\* with "^" at the end of the text and with and without an end anchor.
GlobsAgree ==
  \A p \in BoundedSeq(PatternTokens, MaxPattern), v \in BoundedSeq(TextTokens, MaxText) :
    /\ GlobMatches(p, v) <=> Denotes(p, v, LAMBDA t, x : t = "?" \/ t = x, {}, TRUE)
    /\ \A end \in BOOLEAN :
         AdGuardGlobMatchesAt(p, v, end) <=>
           Denotes(p, v, LAMBDA t, x : IF t = "^" THEN x \in Separator ELSE t = x, {"^"}, end)

\* Characters, literals and providers of the tries: literals that begin alike,
\* the empty one, and one over several labels.
MCLetters == {"x", "y"}
Literals == {<<>>, <<"x">>, <<"x", "y">>, <<"y">>, <<"x", ".", "x">>, <<"x", "/">>}
Providers1 == [literals : {<<l>> : l \in Literals}, subdomains : BOOLEAN]
Providers2 == [literals : {<<l, <<"x", "y">> >> : l \in Literals}, subdomains : BOOLEAN]
Tails == BoundedSeq({"x", ".", "/"}, 4) \cup {<<"y", ".">> \o t : t \in BoundedSeq({"x", ".", "y"}, 3)}

\* Regular expressions: small, long or not valid, the long ones as text or as
\* a program, of two kinds, and a rule that is none.
Expression(text, bytes, size, valid, kind) ==
  [text |-> text, bytes |-> bytes, size |-> size, valid |-> valid, kind |-> kind]
Expressions ==
  {Expression("small", 1, 1, TRUE, "name"), Expression("wide", 1, 3, TRUE, "name"),
   Expression("huge", 1, 9, TRUE, "name"), Expression("wrong", 1, 1, FALSE, "name"),
   Expression("long", 4, 1, TRUE, "name"), Expression("other", 2, 1, TRUE, "pair"),
   Expression("plain", 1, 1, TRUE, "exact")}
MaxExpressions == 4

\* What stands in for matching one by one agrees with it: the glob matchers,
\* the tries of provider literals (ruleset.rs:1992-2026, 2147-2291) and the
\* batches of regular expressions with their bisection (ruleset.rs:2088-2123,
\* 2293-2430).  Looked at once, in the state without rules, since no rule
\* matters to it.
MatchersAgree ==
  canonical = <<>> =>
    /\ GlobsAgree
    /\ \A p \in Providers1, q \in Providers2 : TrieAgrees(<<p, q>>, Tails)
    /\ \A patterns \in BoundedSeq(Expressions, MaxExpressions) : BatchesAgree(patterns)

=============================================================================
