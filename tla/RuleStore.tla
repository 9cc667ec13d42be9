----------------------------- MODULE RuleStore -----------------------------
(***************************************************************************)
(* The compiled ruleset of src/ruleset.rs: compile_store builds groups of  *)
(* parameter rules, the redirect rules and an index for each; context_for, *)
(* should_remove_parameter and redirect_target_with_origin answer from the *)
(* indexes; merge and disable compile the canonical sources again.         *)
(*                                                                         *)
(* A source is a parsed pack: its providers, parameter rules and redirect  *)
(* rules.  A rule matches a parameter by name: Brave's rules want the      *)
(* spelling of the rule and a "=", the others decode the name first.       *)
(***************************************************************************)
EXTENDS UrlScopes, Selection

CONSTANTS
  Packs,      \* packs the builder is given, as sequences of sources
  Extra,      \* rulesets merged later, as sequences of sources
  Url,        \* URLs asked about: [host, rest, carries]
  Segment,    \* query segments: [name, plain, eq]
  Provider,   \* names of providers
  MaxSources  \* bound on the canonical sources

VARIABLES canonical, disabled, store

vars == <<canonical, disabled, store>>

ASSUME SourcesAreBounded == MaxSources \in Nat

\* What a parser makes of a pack: providers of different names, the keys of a
\* map; the rules of a ClearURLs provider have its pattern for a scope, those of
\* AdGuard a target or none, those of Brave globs.
IsSource(src) ==
  /\ DOMAIN src = {"name", "providers", "params", "redirects"}
  /\ src.providers \in Seq(ToSet(src.providers))
  /\ src.params \in Seq(ToSet(src.params))
  /\ \A p \in ToSet(src.providers) :
       DOMAIN p = {"name", "scope", "exceptions", "compiles", "source"}
  /\ \A p, q \in ToSet(src.providers) : p.name = q.name => p = q
  /\ \A r \in ToSet(src.params) :
       \/ r.source = "ClearUrls" /\ \E s \in r.include : r.include = {s} /\ s.kind \in {"direct", "regex"}
       \/ r.source = "AdGuard" /\ \E s \in r.include : r.include = {s} /\ s.kind \in {"any", "adguard"}
       \/ r.source = "BraveCleanUrls" /\ \A s \in r.include : s.kind = "glob"

ASSUME PacksAreParsed ==
  \A pack \in Packs \cup Extra : pack \in Seq(ToSet(pack)) /\ \A src \in ToSet(pack) : IsSource(src)

ASSUME HostsAreLabels == \A u \in Url : u.host \in Seq(ToSet(u.host))

-----------------------------------------------------------------------------
(* compile_store.                                                          *)

\* provider_disabled: a rule without a provider has the name "".
Enabled(name, off) == name \notin off

\* One after the other.
Joined(rows) == FoldLeft(LAMBDA all, row : all \o row, <<>>, rows)

\* The providers of one source whose pattern compiles, each with that source.
ProvidersOf(src, off) ==
  LET kept == Select(src.providers,
                     {p \in ToSet(src.providers) : Enabled(p.name, off) /\ p.compiles})
  IN [i \in DOMAIN kept |-> [kept[i] EXCEPT !.source = src.name]]

\* Those of all sources in order; their ids are their places.
CompileProviders(sources, off) ==
  Joined([i \in DOMAIN sources |-> ProvidersOf(sources[i], off)])

\* provider_ids: the last provider of that name in sources of that name.
ProviderIds(providers, source, name) ==
  LET i == SelectLastInSeq(providers, LAMBDA p : p.source = source /\ p.name = name)
  IN {i} \ {0}

\* Variant of DedupKey that leaves the exclusions out.
DedupKeyNoExclude(g) ==
  <<g.global, g.referral, g.exception, g.all, g.legacy, g.matcher, g.include>>

\* ParamDedupKey; interned scopes are equal when their definitions are.  The
\* code keeps the scopes in their order and so apart where only that differs.
DedupKey(g) ==
  <<g.global, g.referral, g.exception, g.all, g.legacy, g.matcher, g.include, g.exclude>>

\* One iteration of the loop over parameter rules: a repeated rule only adds
\* its provider to the group that is there.
AddRule(groups, g) ==
  LET i == SelectInSeq(groups, LAMBDA h : DedupKey(h) = DedupKey(g))
  IN IF i = 0 THEN Append(groups, g)
     ELSE [groups EXCEPT ![i].providers = @ \cup g.providers]

\* PendingParamAction of a rule of a source.
Pending(src, r, providers) ==
  [source |-> r.source, global |-> r.global, referral |-> r.referral,
   exception |-> r.exception, all |-> r.all, matcher |-> r.matcher,
   include |-> r.include, exclude |-> r.exclude,
   legacy |-> r.source = "ClearUrls" /\ r.global /\ src.name = "builtin",
   providers |-> IF r.source = "ClearUrls"
                 THEN ProviderIds(providers, src.name, r.provider) ELSE {}]

\* The source has a provider of that name whose pattern compiles.
Has(src, name) == \E p \in ToSet(src.providers) : p.name = name /\ p.compiles

\* The parameter rules of one source that take part: not those of a disabled
\* provider, nor those without an id or a scope because their provider did not
\* compile.
RulesOf(src, providers, off) ==
  LET kept == Select(src.params,
                     {r \in ToSet(src.params) :
                        /\ Enabled(r.provider, off)
                        /\ r.source = "ClearUrls" =>
                             /\ ProviderIds(providers, src.name, r.provider) # {}
                             /\ Has(src, r.provider)})
  IN [i \in DOMAIN kept |-> Pending(src, kept[i], providers)]

CompileGroups(sources, providers, off) ==
  FoldLeft(AddRule, <<>>,
           Joined([i \in DOMAIN sources |-> RulesOf(sources[i], providers, off)]))

CompileRedirects(sources, off) ==
  FlattenSeq([i \in DOMAIN sources |->
                SelectSeq(sources[i].redirects, LAMBDA r : Enabled(r.provider, off) /\ r.compiles)])

-----------------------------------------------------------------------------
(* build_scope_index and build_redirect_index: which rules are candidates  *)
(* always, and which under a host or a provider.                           *)

Hints(rule) == UNION {HostHints(s) : s \in rule.include}

\* Variant of ScopeIndex that offers every group for every URL.
ScopeIndexNone(groups) == [always |-> DOMAIN groups, suffix |-> {}]

\* A group with any hint is found under its hints only.
ScopeIndex(groups) ==
  [always |-> {i \in DOMAIN groups : Hints(groups[i]) = {}},
   suffix |-> UNION {Hints(groups[i]) \X {i} : i \in DOMAIN groups}]

OfProvider(scope) == scope.kind \in {"direct", "regex"}

\* Variant of RedirectIndex that forgets the rules only part of whose include
\* scopes are indexed.
RedirectIndexHinted(redirects) ==
  [always   |-> {i \in DOMAIN redirects :
                   \A s \in redirects[i].include : ~OfProvider(s) /\ HostHints(s) = {}},
   suffix   |-> UNION {{TrimDot(d) : d \in Hints(redirects[i])} \X {i} : i \in DOMAIN redirects},
   provider |-> UNION {{s \in redirects[i].include : OfProvider(s)} \X {i} :
                         i \in DOMAIN redirects}]

\* A redirect rule is always a candidate when one of its include scopes is
\* found under neither a host nor a provider.
RedirectIndex(redirects) ==
  [always   |-> {i \in DOMAIN redirects :
                   \/ redirects[i].include = {}
                   \/ \E s \in redirects[i].include : ~OfProvider(s) /\ HostHints(s) = {}},
   suffix   |-> UNION {{TrimDot(d) : d \in Hints(redirects[i])} \X {i} : i \in DOMAIN redirects},
   provider |-> UNION {{s \in redirects[i].include : OfProvider(s)} \X {i} :
                         i \in DOMAIN redirects}]

CompileStore(sources, off) ==
  LET providers == CompileProviders(sources, off)
      groups    == CompileGroups(sources, providers, off)
      redirects == CompileRedirects(sources, off)
  IN [providers |-> providers, groups |-> groups, redirects |-> redirects,
      scope_index |-> ScopeIndex(groups), redirect_index |-> RedirectIndex(redirects)]

-----------------------------------------------------------------------------
(* context_for and should_remove_parameter.                                *)

\* The rules the index holds under the host or a parent domain of it.
UnderHost(suffix, host) == {e[2] : e \in {f \in suffix : f[1] \in Suffixes(host)}}

Candidates(st, u) == st.scope_index.always \cup UnderHost(st.scope_index.suffix, u.host)

ActiveGroups(st, u) ==
  {st.groups[i] : i \in {j \in Candidates(st, u) :
                           ScopesMatch(st.groups[j].include, st.groups[j].exclude, u)}}

\* The provider's pattern and one of its exceptions match the URL.
Excepts(p, u) == Accepts(p.scope, u) /\ \E e \in p.exceptions : RegexMatches(e, Text(u))

ClearurlsExceptions(st, u) == {id \in DOMAIN st.providers : Excepts(st.providers[id], u)}

\* CompiledParamMatcher::matches.
Matches(m, seg) ==
  /\ m.name = seg.name
  /\ m.subject = "RawName" => seg.plain
  /\ m.requires_equals => seg.eq

\* The switches that apply to rules of ClearURLs packs.
Switch == [vendor : BOOLEAN, referral : BOOLEAN]

ActionEnabled(g, sw) ==
  g.source = "ClearUrls" => (g.referral => sw.referral) /\ (g.global \/ sw.vendor)

\* has_matching_adguard_exception.
AdGuardExcepts(active, m, seg) ==
  \E g \in active :
    /\ g.source = "AdGuard" /\ g.exception
    /\ \/ g.all
       \/ g.matcher = m /\ Matches(g.matcher, seg)

\* Variant of ShouldRemove that knows only the exceptions of built-in rules.
ShouldRemoveLegacy(active, exceptions, seg, sw) ==
  \E g \in active :
    /\ ~g.exception /\ ActionEnabled(g, sw) /\ Matches(g.matcher, seg)
    /\ ~(g.legacy /\ exceptions # {})
    /\ ~(g.source = "AdGuard" /\ AdGuardExcepts(active, g.matcher, seg))

\* An exception suppresses what only excepted providers contribute; every
\* built-in global rule when there is any.
ShouldRemove(active, exceptions, seg, sw) ==
  \E g \in active :
    /\ ~g.exception /\ ActionEnabled(g, sw) /\ Matches(g.matcher, seg)
    /\ ~(g.legacy /\ exceptions # {})
    /\ ~(g.providers # {} /\ g.providers \subseteq exceptions)
    /\ ~(g.source = "AdGuard" /\ AdGuardExcepts(active, g.matcher, seg))

-----------------------------------------------------------------------------
(* redirect_target_with_origin.                                            *)

RedirectCandidates(st, u) ==
  LET index == st.redirect_index
  IN index.always \cup UnderHost(index.suffix, TrimDot(u.host))
       \cup {e[2] : e \in {f \in index.provider : Accepts(f[1], u)}}

\* The URL carries a destination where the rule looks for it.
Extracts(rule, u) == rule.from \in u.carries

\* The place of the rule whose destination is taken, 0 for none: candidates
\* are tried in the order of the sources.
RedirectRule(st, u) ==
  LET taken == {i \in RedirectCandidates(st, u) :
                  /\ ScopesMatch(st.redirects[i].include, st.redirects[i].exclude, u)
                  /\ Extracts(st.redirects[i], u)}
  IN IF taken = {} THEN 0 ELSE Min(taken)

-----------------------------------------------------------------------------
(* RulesetBuilder::finish, Ruleset::merge and Ruleset::disable.            *)

Init ==
  /\ canonical \in Packs
  /\ disabled \in SUBSET Provider
  /\ store = CompileStore(canonical, disabled)

\* The sources of the other ruleset follow, which may have had providers
\* disabled.  One read from a single text has one source, called "source".
Merge(other, off) ==
  /\ Len(canonical) + Len(other) <= MaxSources
  /\ canonical' = canonical \o other
  /\ disabled' = disabled \cup off
  /\ store' = CompileStore(canonical', disabled')

Disable(names) ==
  /\ disabled' = disabled \cup names
  /\ store' = CompileStore(canonical, disabled')
  /\ UNCHANGED canonical

Next ==
  \/ \E other \in Extra, off \in SUBSET Provider : Merge(other, off)
  \/ \E names \in SUBSET Provider : Disable(names)

Spec == Init /\ [][Next]_vars

-----------------------------------------------------------------------------
(* What the rules mean, read from the canonical sources one by one.        *)

\* A scope that names a host covers only URLs of that host or under it,
\* whatever else their text contains.
Covers(scope, u) ==
  /\ Accepts(scope, u)
  /\ \/ HostHints(scope) = {}
     \/ \E d \in HostHints(scope) : HostSuffixMatches(u.host, d)

InScope(r, u) ==
  /\ r.include = {} \/ \E s \in r.include : Covers(s, u)
  /\ ~\E s \in r.exclude : Accepts(s, u)

\* Rules in force: <<source, rule>> whose provider, if it has one, is enabled
\* and compiles.
InForce ==
  {e \in UNION {{src} \X ToSet(src.params) : src \in ToSet(canonical)} :
     /\ Enabled(e[2].provider, disabled)
     /\ e[2].source = "ClearUrls" => Has(e[1], e[2].provider)}

\* The rule's provider has an exception for the URL.
Excepted(src, r, u) ==
  \E p \in ToSet(src.providers) :
    p.name = r.provider /\ p.compiles /\ Excepts(p, u)

\* The sources of the name of src that have the rule's provider, by their places.
Claimants(src, r) ==
  {i \in DOMAIN canonical : canonical[i].name = src.name /\ Has(canonical[i], r.provider)}

\* The exceptions a rule is given are those of the last of them.
GivenExcepted(src, r, u) ==
  \E i \in Claimants(src, r) :
    /\ \A j \in Claimants(src, r) : j <= i
    /\ Excepted(canonical[i], r, u)

\* An exception of any provider holds for the built-in global rules.
ExceptedGlobally(u) ==
  \E src \in ToSet(canonical) : \E p \in ToSet(src.providers) :
    Enabled(p.name, disabled) /\ p.compiles /\ Excepts(p, u)

Removes(e, u, seg, sw) ==
  LET src == e[1]  r == e[2]
  IN /\ ~r.exception /\ ActionEnabled(r, sw) /\ Matches(r.matcher, seg) /\ InScope(r, u)
     /\ r.source = "ClearUrls" =>
          /\ ~GivenExcepted(src, r, u)
          /\ ~(src.name = "builtin" /\ r.global /\ ExceptedGlobally(u))
     /\ r.source = "AdGuard" =>
          ~\E f \in InForce :
             /\ f[2].source = "AdGuard" /\ f[2].exception /\ InScope(f[2], u)
             /\ \/ f[2].all
                \/ f[2].matcher = r.matcher /\ Matches(f[2].matcher, seg)

Answer(u, seg, sw) ==
  ShouldRemove(ActiveGroups(store, u), ClearurlsExceptions(store, u), seg, sw)

-----------------------------------------------------------------------------
(* Properties.                                                             *)

\* Dotted: the host is written with a trailing dot.
Dotted(u) == Last(u.host) = ""

\* All include scopes of the rule name hosts, or none does.
Uniform(g) == Hints(g) = {} \/ \A s \in g.include : HostHints(s) # {}

\* Deduplication, interning and the host index (ruleset.rs:1728-1764 and
\* 2432-2457) do not change what the packs say: a parameter is removed only when
\* some rule in force, read on its own, removes it, and whenever one does that
\* names hosts in all its scopes or in none.  Hosts with a trailing dot are left
\* out: context_for looks them up as they are written.
RulesDecide ==
  \A u \in {v \in Url : ~Dotted(v)} :
    LET active     == ActiveGroups(store, u)
        exceptions == ClearurlsExceptions(store, u)
    IN \A seg \in Segment, sw \in Switch :
         LET removed == ShouldRemove(active, exceptions, seg, sw) IN
         /\ removed => \E e \in InForce : Removes(e, u, seg, sw)
         /\ \A e \in InForce : Uniform(e[2]) /\ Removes(e, u, seg, sw) => removed

\* A parameter rule that names hosts acts on URLs of those hosts only
\* (ruleset.rs:1127-1149), although its pattern alone would also accept one
\* that has such a host somewhere in its path.
NoForeignRules ==
  \A u \in Url : \A g \in ActiveGroups(store, u) :
    Hints(g) # {} => \E d \in Hints(g) : d \in Suffixes(u.host)

\* Every redirect rule whose scopes cover a URL at its host is a candidate.
RedirectsConsidered ==
  \A u \in Url, i \in DOMAIN store.redirects :
    InScope(store.redirects[i], u) => i \in RedirectCandidates(store, u)

\* No host the rule names is written with a trailing dot.
Undotted(g) == \A d \in Hints(g) : d = TrimDot(d)

\* Where no trailing dot is in play, every uniform group whose scopes cover a
\* URL at its host takes effect.
UniformGroupsConsidered ==
  \A u \in {v \in Url : v.host = TrimDot(v.host)} :
    \A i \in {j \in DOMAIN store.groups :
                Uniform(store.groups[j]) /\ Undotted(store.groups[j])} :
      InScope(store.groups[i], u) => store.groups[i] \in ActiveGroups(store, u)

\* Nothing is removed by ClearURLs rules that all have an exception, as Holds
\* says: where they are the only rules in scope that name the parameter, it stays.
Spare(Holds(_, _, _)) ==
  \A u \in Url :
    LET active     == ActiveGroups(store, u)
        exceptions == ClearurlsExceptions(store, u)
    IN \A seg \in Segment, sw \in Switch :
         (\A e \in {f \in InForce : Matches(f[2].matcher, seg) /\ InScope(f[2], u)} :
            e[2].source = "ClearUrls" /\ Holds(e[1], e[2], u))
           => ~ShouldRemove(active, exceptions, seg, sw)

\* Exceptions are not undone by a duplicate of the rule or by another provider
\* that shares it (ruleset.rs:1467-1490), on hosts with a trailing dot either.  A
\* rule answers to the last provider of its name in sources of its source's name.
GivenExceptionsHold == Spare(GivenExcepted)

\* "provider scope and provider exceptions remain attached to their own rules"
\* (README.md:271), through every merge.
ExceptionsHold == Spare(Excepted)

\* redirect_target answers from its index what a scan of all redirect rules in
\* source order answers (ruleset.rs:1274-1327 and 2459-2540), for every URL,
\* hosts with a trailing dot and URLs embedded in the path included.
RedirectsDecide ==
  \A u \in Url :
    LET taken == {i \in DOMAIN store.redirects :
                    InScope(store.redirects[i], u) /\ Extracts(store.redirects[i], u)}
    IN RedirectRule(store, u) = IF taken = {} THEN 0 ELSE Min(taken)

=============================================================================
