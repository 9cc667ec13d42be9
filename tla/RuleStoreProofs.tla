-------------------------- MODULE RuleStoreProofs --------------------------
(***************************************************************************)
(* RuleStore for packs, URLs and bounds of any kind: what a rule that      *)
(* covers a URL needs for the index to offer it; and that deduplication    *)
(* and the index together decide what the rules say one by one.            *)
(***************************************************************************)
EXTENDS RuleStore, SequenceTheorems, TLAPS

-----------------------------------------------------------------------------
(* The store and its sources.                                              *)

\* The inductive invariant: what is answered from was compiled from what is
\* kept, whatever was merged or disabled since.
Compiled == store = CompileStore(canonical, disabled)

\* The store always corresponds to the canonical sources and the disabled
\* names: merge and disable (ruleset.rs:1081-1108) rebuild all of it.
THEOREM StoreIsCompiled == Spec => []Compiled
<1>1. Init => Compiled
  BY DEF Init, Compiled
<1>2. Compiled /\ [Next]_vars => Compiled'
  <2> SUFFICES ASSUME Compiled, [Next]_vars PROVE Compiled'
    OBVIOUS
  <2>1. ASSUME NEW other \in Extra, NEW off \in SUBSET Provider, Merge(other, off)
        PROVE  Compiled'
    BY <2>1 DEF Merge, Compiled
  <2>2. ASSUME NEW names \in SUBSET Provider, Disable(names)
        PROVE  Compiled'
    BY <2>2 DEF Disable, Compiled
  <2>3. CASE UNCHANGED vars
    BY <2>3 DEF vars, Compiled
  <2> QED
    BY <2>1, <2>2, <2>3 DEF Next
<1> QED
  BY <1>1, <1>2, PTL DEF Spec

-----------------------------------------------------------------------------
(* Redirect rules.                                                         *)

\* The three ways into the redirect index.
LEMMA RedirectWaysIn ==
  ASSUME NEW redirects, NEW i \in DOMAIN redirects
  PROVE  LET index == RedirectIndex(redirects)
         IN /\ redirects[i].include = {} => i \in index.always
            /\ \A s \in redirects[i].include :
                 /\ ~OfProvider(s) /\ HostHints(s) = {} => i \in index.always
                 /\ OfProvider(s) => <<s, i>> \in index.provider
                 /\ \A d \in HostHints(s) : <<TrimDot(d), i>> \in index.suffix
<1> DEFINE index == RedirectIndex(redirects)
<1>1. redirects[i].include = {} => i \in index.always
  BY DEF RedirectIndex
<1>2. ASSUME NEW s \in redirects[i].include
      PROVE  /\ ~OfProvider(s) /\ HostHints(s) = {} => i \in index.always
             /\ OfProvider(s) => <<s, i>> \in index.provider
             /\ \A d \in HostHints(s) : <<TrimDot(d), i>> \in index.suffix
  <2>1. ~OfProvider(s) /\ HostHints(s) = {} => i \in index.always
    BY DEF RedirectIndex
  <2>2. OfProvider(s) => <<s, i>> \in index.provider
    BY DEF RedirectIndex
  <2>3. ASSUME NEW d \in HostHints(s)
        PROVE  <<TrimDot(d), i>> \in index.suffix
    <3>1. d \in Hints(redirects[i])
      BY DEF Hints
    <3>2. <<TrimDot(d), i>> \in {TrimDot(e) : e \in Hints(redirects[i])} \X {i}
      BY <3>1
    <3> QED
      BY <3>2 DEF RedirectIndex
  <2> QED
    BY <2>1, <2>2, <2>3
<1> QED
  BY <1>1, <1>2

\* What is in the index under a parent domain of the host is found.
LEMMA FoundUnderHost ==
  ASSUME NEW suffix, NEW host, NEW d \in Suffixes(host), NEW i, <<d, i>> \in suffix
  PROVE  i \in UnderHost(suffix, host)
<1>1. <<d, i>> \in {f \in suffix : f[1] \in Suffixes(host)}
  OBVIOUS
<1>2. i = <<d, i>>[2]
  OBVIOUS
<1> QED
  BY <1>1, <1>2 DEF UnderHost

\* No redirect rule is lost: every rule whose scopes cover a URL at its host
\* is a candidate for it, for hosts with a trailing dot and for rules of which
\* only some include scopes name a host (ruleset.rs:2459-2540).
THEOREM RedirectsAreConsidered == Spec => []RedirectsConsidered
<1>1. Compiled => RedirectsConsidered
  <2> SUFFICES ASSUME Compiled, NEW u \in Url, NEW i \in DOMAIN store.redirects,
                      InScope(store.redirects[i], u)
               PROVE  i \in RedirectCandidates(store, u)
    BY DEF RedirectsConsidered
  <2> DEFINE index == store.redirect_index
             rule == store.redirects[i]
  <2>1. index = RedirectIndex(store.redirects)
    BY DEF Compiled, CompileStore
  <2> HIDE DEF index
  <2>2. CASE rule.include = {}
    BY <2>1, <2>2, RedirectWaysIn DEF RedirectCandidates, index
  <2>3. ASSUME NEW s \in rule.include, Covers(s, u)
        PROVE  i \in RedirectCandidates(store, u)
    <3>1. CASE OfProvider(s)
      <4>1. <<s, i>> \in {f \in index.provider : Accepts(f[1], u)}
        BY <2>1, <2>3, <3>1, RedirectWaysIn DEF Covers
      <4>2. i = <<s, i>>[2]
        OBVIOUS
      <4>3. i \in {e[2] : e \in {f \in index.provider : Accepts(f[1], u)}}
        BY <4>1, <4>2
      <4> QED
        BY <4>3 DEF RedirectCandidates, index
    <3>2. CASE ~OfProvider(s) /\ HostHints(s) = {}
      BY <2>1, <2>3, <3>2, RedirectWaysIn DEF RedirectCandidates, index
    <3>3. CASE HostHints(s) # {}
      <4>1. PICK d \in HostHints(s) : TrimDot(d) \in Suffixes(TrimDot(u.host))
        BY <2>3, <3>3 DEF Covers, HostSuffixMatches
      <4>2. <<TrimDot(d), i>> \in index.suffix
        BY <2>1, <2>3, RedirectWaysIn
      <4>3. i \in UnderHost(index.suffix, TrimDot(u.host))
        BY <4>1, <4>2, FoundUnderHost
      <4> QED
        BY <4>3 DEF RedirectCandidates, index
    <3> QED
      BY <3>1, <3>2, <3>3
  <2> QED
    BY <2>2, <2>3 DEF InScope
<1> QED
  BY <1>1, StoreIsCompiled, PTL

\* A scope that covers a URL accepts it.
LEMMA InScopeMatches ==
  ASSUME NEW r, NEW u, InScope(r, u)
  PROVE  ScopesMatch(r.include, r.exclude, u)
BY DEF InScope, ScopesMatch, Covers

\* A candidate that is not one for every URL is found by a provider scope that
\* accepts the URL or by a scope that names its host.
LEMMA RedirectFoundBy ==
  ASSUME Compiled, NEW u, NEW i \in RedirectCandidates(store, u)
  PROVE  /\ i \in DOMAIN store.redirects
         /\ \/ store.redirects[i].include = {}
            \/ \E s \in store.redirects[i].include :
                 \/ HostHints(s) = {}
                 \/ \E d \in HostHints(s) : HostSuffixMatches(u.host, d)
<1> DEFINE redirects == store.redirects
           index == store.redirect_index
<1>1. index = RedirectIndex(redirects)
  BY DEF Compiled, CompileStore
<1>2. CASE i \in index.always
  BY <1>1, <1>2 DEF RedirectIndex
<1>3. CASE i \in UnderHost(index.suffix, TrimDot(u.host))
  <2>1. PICK e \in index.suffix : e[2] = i /\ e[1] \in Suffixes(TrimDot(u.host))
    BY <1>3 DEF UnderHost
  <2>2. PICK k \in DOMAIN redirects : e \in {TrimDot(d) : d \in Hints(redirects[k])} \X {k}
    BY <1>1, <2>1 DEF RedirectIndex
  <2>3. k = i /\ e[1] \in {TrimDot(d) : d \in Hints(redirects[k])}
    BY <2>1, <2>2
  <2>4. PICK d \in Hints(redirects[i]) : e[1] = TrimDot(d)
    BY <2>3
  <2>5. PICK s \in redirects[i].include : d \in HostHints(s)
    BY <2>4 DEF Hints
  <2> QED
    BY <2>1, <2>2, <2>3, <2>4, <2>5 DEF HostSuffixMatches
<1>4. CASE \E f \in index.provider : f[2] = i /\ Accepts(f[1], u)
  <2>1. PICK f \in index.provider : f[2] = i
    BY <1>4
  <2>2. PICK k \in DOMAIN redirects : f \in {s \in redirects[k].include : OfProvider(s)} \X {k}
    BY <1>1, <2>1 DEF RedirectIndex
  <2>3. k = i /\ f[1] \in redirects[k].include /\ OfProvider(f[1])
    BY <2>1, <2>2
  <2>4. HostHints(f[1]) = {}
    BY <2>3 DEF OfProvider, HostHints
  <2> QED
    BY <2>2, <2>3, <2>4
<1>5. \/ i \in index.always
      \/ i \in UnderHost(index.suffix, TrimDot(u.host))
      \/ \E f \in index.provider : f[2] = i /\ Accepts(f[1], u)
  BY DEF RedirectCandidates
<1> QED
  BY <1>2, <1>3, <1>4, <1>5

\* What the rule's scopes accept is at a host they name: the rule has one
\* include scope at most, or none of them accepts a URL for a host that it
\* only finds elsewhere in the text.
AtItsHost(r, u) ==
  \/ \A s, t \in r.include : s = t
  \/ \A s \in r.include : Accepts(s, u) => Covers(s, u)

RedirectsAtTheirHosts ==
  \A u \in Url, i \in DOMAIN store.redirects : AtItsHost(store.redirects[i], u)

\* The index answers what a scan of all redirect rules answers, for any packs,
\* whatever is merged or disabled, and for any URL.  Of a rule with several
\* scopes one may bring the rule up by its host and another accept the URL for
\* what is in its path (ruleset.rs:1281-1310), where no scan would take it; such
\* rules are set aside.
THEOREM RedirectsAreDecided == Spec => [](RedirectsAtTheirHosts => RedirectsDecide)
<1>1. Compiled /\ RedirectsConsidered /\ RedirectsAtTheirHosts => RedirectsDecide
  <2> SUFFICES ASSUME Compiled, RedirectsConsidered, RedirectsAtTheirHosts, NEW u \in Url
               PROVE  {i \in RedirectCandidates(store, u) :
                         /\ ScopesMatch(store.redirects[i].include, store.redirects[i].exclude, u)
                         /\ Extracts(store.redirects[i], u)}
                        = {i \in DOMAIN store.redirects :
                             InScope(store.redirects[i], u) /\ Extracts(store.redirects[i], u)}
    BY DEF RedirectsDecide, RedirectRule
  <2>1. ASSUME NEW i \in DOMAIN store.redirects, InScope(store.redirects[i], u)
        PROVE  /\ i \in RedirectCandidates(store, u)
               /\ ScopesMatch(store.redirects[i].include, store.redirects[i].exclude, u)
    BY <2>1, InScopeMatches DEF RedirectsConsidered
  <2>2. ASSUME NEW i \in RedirectCandidates(store, u),
               ScopesMatch(store.redirects[i].include, store.redirects[i].exclude, u)
        PROVE  i \in DOMAIN store.redirects /\ InScope(store.redirects[i], u)
    <3> DEFINE r == store.redirects[i]
    <3>1. i \in DOMAIN store.redirects
      BY RedirectFoundBy
    <3>2. CASE r.include = {}
      BY <2>2, <3>1, <3>2 DEF ScopesMatch, InScope
    <3>3. ASSUME NEW s \in r.include, Accepts(s, u)
          PROVE  \E t \in r.include : Covers(t, u)
      <4>1. CASE \A t \in r.include : t = s
        <5>1. PICK t \in r.include : \/ HostHints(t) = {}
                                     \/ \E d \in HostHints(t) : HostSuffixMatches(u.host, d)
          BY <3>3, RedirectFoundBy
        <5>2. t = s
          BY <4>1, <5>1
        <5> QED
          BY <3>3, <5>1, <5>2 DEF Covers
      <4>2. CASE \A t \in r.include : Accepts(t, u) => Covers(t, u)
        BY <3>3, <4>2
      <4>3. AtItsHost(r, u)
        BY <3>1 DEF RedirectsAtTheirHosts
      <4> QED
        BY <3>3, <4>1, <4>2, <4>3 DEF AtItsHost
    <3> QED
      BY <2>2, <3>1, <3>2, <3>3 DEF ScopesMatch, InScope
  <2> QED
    BY <2>1, <2>2
<1> QED
  BY <1>1, StoreIsCompiled, RedirectsAreConsidered, PTL

-----------------------------------------------------------------------------
(* Parameter rules.                                                        *)

\* Under a host the scope index holds a group for each of its hints, and no
\* group for anything else.
LEMMA ScopeIndexEntries ==
  ASSUME NEW groups
  PROVE  /\ \A i \in DOMAIN groups : \A d \in Hints(groups[i]) :
              <<d, i>> \in ScopeIndex(groups).suffix
         /\ \A e \in ScopeIndex(groups).suffix :
              e[2] \in DOMAIN groups /\ e[1] \in Hints(groups[e[2]])
<1>1. ASSUME NEW i \in DOMAIN groups, NEW d \in Hints(groups[i])
      PROVE  <<d, i>> \in ScopeIndex(groups).suffix
  <2>1. <<d, i>> \in Hints(groups[i]) \X {i}
    OBVIOUS
  <2> QED
    BY <2>1 DEF ScopeIndex
<1>2. ASSUME NEW e \in ScopeIndex(groups).suffix
      PROVE  e[2] \in DOMAIN groups /\ e[1] \in Hints(groups[e[2]])
  <2>1. PICK i \in DOMAIN groups : e \in Hints(groups[i]) \X {i}
    BY DEF ScopeIndex
  <2>2. e[1] \in Hints(groups[i]) /\ e[2] = i
    BY <2>1
  <2> QED
    BY <2>2
<1> QED
  BY <1>1, <1>2

\* A rule that names hosts acts only under one of them, whatever else the
\* text of the URL contains.
THEOREM ForeignRulesNeverAct == Spec => []NoForeignRules
<1>1. Compiled => NoForeignRules
  <2> SUFFICES ASSUME Compiled, NEW u \in Url, NEW g \in ActiveGroups(store, u), Hints(g) # {}
               PROVE  \E d \in Hints(g) : d \in Suffixes(u.host)
    BY DEF NoForeignRules
  <2> DEFINE index == store.scope_index
  <2>1. index = ScopeIndex(store.groups)
    BY DEF Compiled, CompileStore
  <2>2. PICK j \in Candidates(store, u) : g = store.groups[j]
    BY DEF ActiveGroups
  <2>3. j \notin index.always
    BY <2>1, <2>2 DEF ScopeIndex
  <2>4. PICK e \in index.suffix : e[2] = j /\ e[1] \in Suffixes(u.host)
    BY <2>2, <2>3 DEF Candidates, UnderHost
  <2>5. e[1] \in Hints(g)
    BY <2>1, <2>2, <2>4, ScopeIndexEntries
  <2> QED
    BY <2>4, <2>5
<1> QED
  BY <1>1, StoreIsCompiled, PTL

\* No parameter rule is lost whose include scopes all name hosts or none does,
\* as long as neither the URL nor the rule writes a trailing dot.  Without
\* the first condition the index would have to keep such rules as generic
\* ones, as the index of redirects does.
THEOREM UniformGroupsAct == Spec => []UniformGroupsConsidered
<1>1. Compiled => UniformGroupsConsidered
  <2> SUFFICES ASSUME Compiled, NEW u \in Url, NEW i \in DOMAIN store.groups,
                      InScope(store.groups[i], u), Uniform(store.groups[i]),
                      u.host = TrimDot(u.host), Undotted(store.groups[i])
               PROVE  store.groups[i] \in ActiveGroups(store, u)
    BY DEF UniformGroupsConsidered
  <2> DEFINE index == store.scope_index
             group == store.groups[i]
  <2>1. index = ScopeIndex(store.groups)
    BY DEF Compiled, CompileStore
  <2>2. i \in Candidates(store, u)
    <3>1. CASE Hints(group) = {}
      BY <2>1, <3>1 DEF ScopeIndex, Candidates
    <3>2. CASE Hints(group) # {}
      <4>1. PICK s \in group.include : Covers(s, u)
        BY <3>2 DEF InScope, Hints
      <4>2. HostHints(s) # {}
        BY <3>2, <4>1 DEF Uniform
      <4>3. PICK d \in HostHints(s) : TrimDot(d) \in Suffixes(TrimDot(u.host))
        BY <4>1, <4>2 DEF Covers, HostSuffixMatches
      <4>4. d \in Hints(group)
        BY <4>1, <4>3 DEF Hints
      <4>5. d \in Suffixes(u.host) /\ <<d, i>> \in index.suffix
        BY <2>1, <4>3, <4>4, ScopeIndexEntries DEF Undotted
      <4>6. i \in UnderHost(index.suffix, u.host)
        BY <4>5, FoundUnderHost
      <4> QED
        BY <4>6 DEF Candidates, index
    <3> QED
      BY <3>1, <3>2
  <2> QED
    BY <2>2, InScopeMatches DEF ActiveGroups
<1> QED
  BY <1>1, StoreIsCompiled, PTL

-----------------------------------------------------------------------------
(* The groups and the rules they are made of.                              *)

Merging == INSTANCE SequenceFacts WITH Op <- AddRule
Joining == INSTANCE SequenceFacts WITH Op <- LAMBDA all, row : all \o row

\* The groups are the fold that SequenceFacts has the facts about.
LEMMA GroupsAreFolded == \A rows : FoldLeft(AddRule, <<>>, rows) = Merging!Folded(<<>>, rows)
  BY DEF FoldLeft, MapThenFoldSet, Max, Merging!Folded, Merging!Largest

\* And so is what is joined.
LEMMA JoinedIsFolded == \A rows : Joined(rows) = Joining!Folded(<<>>, rows)
  BY DEF Joined, FoldLeft, MapThenFoldSet, Max, Joining!Folded, Joining!Largest

\* SequenceFacts selects what the model selects.
LEMMA SelectBridge == \A s, T : Select(s, T) = Joining!Select(s, T)
  BY DEF Select, Joining!Select

\* What is in a sequence made longer.
LEMMA ToSetLonger ==
  ASSUME NEW S, NEW s \in Seq(S), NEW t \in Seq(S), NEW x \in S
  PROVE  /\ ToSet(<<>>) = {}
         /\ ToSet(Append(s, x)) = ToSet(s) \cup {x}
         /\ ToSet(s \o t) = ToSet(s) \cup ToSet(t)
<1>1. ToSet(<<>>) = {}
  BY DEF ToSet
<1>2. /\ DOMAIN Append(s, x) = DOMAIN s \cup {Len(s) + 1}
      /\ \A i \in DOMAIN s : Append(s, x)[i] = s[i]
      /\ Append(s, x)[Len(s) + 1] = x
  OBVIOUS
<1>3. ToSet(Append(s, x)) = ToSet(s) \cup {x}
  BY <1>2 DEF ToSet
<1>4. /\ DOMAIN s = 1..Len(s) /\ DOMAIN t = 1..Len(t) /\ Len(s) \in Nat /\ Len(t) \in Nat
      /\ DOMAIN (s \o t) = 1..Len(s) + Len(t)
      /\ \A i \in 1..Len(s) : (s \o t)[i] = s[i]
      /\ \A i \in 1..Len(t) : (s \o t)[Len(s) + i] = t[i]
  OBVIOUS
<1>5. ToSet(s \o t) = ToSet(s) \cup ToSet(t)
  <2> DEFINE j == s \o t
  <2>1. j = s \o t
    OBVIOUS
  <2> HIDE DEF j
  <2>2. ASSUME NEW i \in DOMAIN j PROVE j[i] \in ToSet(s) \cup ToSet(t)
    <3>1. CASE i \in 1..Len(s)
      BY <1>4, <2>1, <3>1 DEF ToSet
    <3>2. CASE i \notin 1..Len(s)
      <4>1. i - Len(s) \in 1..Len(t) /\ Len(s) + (i - Len(s)) = i
        BY <1>4, <2>1, <2>2, <3>2
      <4>2. j[i] = t[i - Len(s)]
        BY <1>4, <2>1, <4>1
      <4> QED
        BY <1>4, <4>1, <4>2 DEF ToSet
    <3> QED
      BY <3>1, <3>2
  <2>3. ASSUME NEW i \in DOMAIN s PROVE s[i] \in ToSet(j)
    <3>1. i \in DOMAIN j /\ j[i] = s[i]
      BY <1>4, <2>1
    <3> QED
      BY <3>1 DEF ToSet
  <2>4. ASSUME NEW i \in DOMAIN t PROVE t[i] \in ToSet(j)
    <3>1. Len(s) + i \in DOMAIN j /\ j[Len(s) + i] = t[i]
      BY <1>4, <2>1
    <3> QED
      BY <3>1 DEF ToSet
  <2>5. ToSet(j) \subseteq ToSet(s) \cup ToSet(t)
    BY <2>2 DEF ToSet
  <2>6. ToSet(s) \subseteq ToSet(j) /\ ToSet(t) \subseteq ToSet(j)
    BY <2>3, <2>4 DEF ToSet
  <2> QED
    BY <2>1, <2>5, <2>6
<1> QED
  BY <1>1, <1>3, <1>5

\* What is selected is what there is of the set.
LEMMA SelectHas ==
  ASSUME NEW S, NEW s \in Seq(S), NEW T
  PROVE  Select(s, T) \in Seq(S \cap T) /\ ToSet(Select(s, T)) = ToSet(s) \cap T
<1> DEFINE P == {q \in Seq(S) : ToSet(Select(q, T)) = ToSet(q) \cap T}
<1>0. \A q \in Seq(S) : Select(q, T) \in Seq(S \cap T) /\ Select(q, T) \in Seq(S)
  <2>1. \A q \in Seq(S) : Select(q, T) \in Seq(S \cap T)
    BY SelectBridge, Joining!SelectType
  <2> QED
    BY <2>1
<1>1. <<>> \in P
  <2>1. Select(<<>>, T) = <<>>
    BY SelectBridge, Joining!SelectEmpty
  <2>2. ToSet(<<>>) = {} /\ <<>> \in Seq(S)
    BY DEF ToSet
  <2> QED
    BY <2>1, <2>2, Zenon
<1>2. ASSUME NEW q \in Seq(S), NEW x \in S, q \in P PROVE Append(q, x) \in P
  <2>1. Select(Append(q, x), T) = IF x \in T THEN Append(Select(q, T), x) ELSE Select(q, T)
    BY SelectBridge, Joining!SelectAppend
  <2>2. Select(q, T) \in Seq(S)
    BY <1>0
  <2>3. ToSet(Append(q, x)) = ToSet(q) \cup {x}
    BY ToSetLonger
  <2>4. ToSet(Append(Select(q, T), x)) = ToSet(Select(q, T)) \cup {x}
    BY <2>2, ToSetLonger
  <2>5. ToSet(Select(q, T)) = ToSet(q) \cap T
    BY <1>2
  <2>6. ToSet(Select(Append(q, x), T)) = ToSet(Append(q, x)) \cap T
    BY <2>1, <2>3, <2>4, <2>5
  <2>7. Append(q, x) \in Seq(S)
    OBVIOUS
  <2> QED
    BY <2>6, <2>7
<1> HIDE DEF P
<1>3. s \in P
  BY <1>1, <1>2, Joining!SeqInduction
<1> QED
  BY <1>0, <1>3 DEF P

\* What is joined is what there is in the rows.
LEMMA JoinedHas ==
  ASSUME NEW S, NEW rows \in Seq(Seq(S))
  PROVE  /\ Joined(rows) \in Seq(S)
         /\ ToSet(Joined(rows)) = UNION {ToSet(rows[i]) : i \in DOMAIN rows}
<1> DEFINE P == {q \in Seq(Seq(S)) : /\ Joined(q) \in Seq(S)
                                     /\ ToSet(Joined(q)) = UNION {ToSet(q[i]) : i \in DOMAIN q}}
<1>1. <<>> \in P
  <2>1. Joined(<<>>) = <<>>
    BY JoinedIsFolded, Joining!FoldEmpty
  <2>2. ToSet(<<>>) = {} /\ <<>> \in Seq(S) /\ <<>> \in Seq(Seq(S))
    BY DEF ToSet
  <2>3. UNION {ToSet(<<>>[i]) : i \in DOMAIN <<>>} = {}
    OBVIOUS
  <2> QED
    BY <2>1, <2>2, <2>3, Zenon
<1>2. ASSUME NEW q \in Seq(Seq(S)), NEW x \in Seq(S), q \in P PROVE Append(q, x) \in P
  <2> DEFINE r == Append(q, x)
             U(p) == UNION {ToSet(p[i]) : i \in DOMAIN p}
  <2>1. Joined(r) = Joined(q) \o x
    BY JoinedIsFolded, Joining!FoldAppend
  <2>2. Joined(q) \in Seq(S) /\ ToSet(Joined(q)) = U(q)
    BY <1>2
  <2>3. ToSet(Joined(q) \o x) = ToSet(Joined(q)) \cup ToSet(x)
    <3>1. CASE S = {}
      <4>1. Joined(q) = <<>> /\ x = <<>>
        BY <2>2, <3>1
      <4>2. <<>> \o <<>> = <<>>
        OBVIOUS
      <4> QED
        BY <4>1, <4>2, Zenon
    <3>2. CASE S # {}
      <4>1. PICK y \in S : TRUE
        BY <3>2
      <4> QED
        BY <2>2, <4>1, ToSetLonger
    <3> QED
      BY <3>1, <3>2
  <2>4. /\ DOMAIN r = DOMAIN q \cup {Len(q) + 1}
        /\ \A i \in DOMAIN q : r[i] = q[i]
        /\ r[Len(q) + 1] = x
    OBVIOUS
  <2>5. r \in Seq(Seq(S)) /\ Joined(q) \o x \in Seq(S)
    BY <2>2
  <2> HIDE DEF r
  <2>6. U(r) = U(q) \cup ToSet(x)
    BY <2>4
  <2>7. r \in P
    BY <2>1, <2>2, <2>3, <2>5, <2>6
  <2> QED
    BY <2>7 DEF r
<1> HIDE DEF P
<1>3. rows \in P
  BY <1>1, <1>2, Joining!SeqInduction
<1> QED
  BY <1>3 DEF P

\* A sequence given place by place.
LEMMA PlaceByPlace ==
  ASSUME NEW S, NEW n \in Nat, NEW s \in [1..n -> S]
  PROVE  s \in Seq(S)
BY SeqDef, Zenon

\* A sequence is one of its own elements.
LEMMA OfItsOwn ==
  ASSUME NEW S, NEW s \in Seq(S)
  PROVE  s \in Seq(ToSet(s)) /\ ToSet(s) \subseteq S
<1>1. /\ DOMAIN s = 1..Len(s) /\ Len(s) \in Nat /\ \A i \in 1..Len(s) : s[i] \in S
      /\ s = [i \in 1..Len(s) |-> s[i]]
  OBVIOUS
<1>2. \A i \in 1..Len(s) : s[i] \in ToSet(s)
  BY <1>1 DEF ToSet
<1>3. s \in [1..Len(s) -> ToSet(s)]
  BY <1>1, <1>2
<1>4. s \in Seq(ToSet(s))
  BY <1>1, <1>3, PlaceByPlace
<1>5. ToSet(s) \subseteq S
  BY <1>1 DEF ToSet
<1> QED
  BY <1>4, <1>5

\* Two sequences, one after the other.
LEMMA JoinedTwo ==
  ASSUME NEW S, NEW s \in Seq(S), NEW t \in Seq(S)
  PROVE  s \o t \in Seq(ToSet(s \o t)) /\ ToSet(s \o t) \subseteq S
<1>1. s \o t \in Seq(S)
  OBVIOUS
<1> QED
  BY <1>1, OfItsOwn

\* Rows given place by place are rows.
LEMMA RowsOfRows ==
  ASSUME NEW n \in Nat, NEW rows, rows = [i \in 1..n |-> rows[i]],
         \A i \in 1..n : rows[i] \in Seq(ToSet(rows[i]))
  PROVE  rows \in Seq(Seq(UNION {ToSet(rows[i]) : i \in 1..n})) /\ DOMAIN rows = 1..n
<1> DEFINE S == UNION {ToSet(rows[i]) : i \in 1..n}
<1>1. \A i \in 1..n : rows[i] \in Seq(S)
  <2> SUFFICES ASSUME NEW i \in 1..n PROVE rows[i] \in Seq(S)
    OBVIOUS
  <2>1. ToSet(rows[i]) \subseteq S
    OBVIOUS
  <2> HIDE DEF S
  <2> DEFINE A == ToSet(rows[i])
             r == rows[i]
  <2>2. r \in Seq(A) /\ A \subseteq S
    BY <2>1
  <2> HIDE DEF A, r
  <2>3. r \in Seq(S)
    BY <2>2
  <2> QED
    BY <2>3 DEF r
<1> HIDE DEF S
<1>2. rows \in [1..n -> Seq(S)]
  BY <1>1
<1>3. rows \in Seq(Seq(S)) /\ DOMAIN rows = 1..n
  BY <1>2, PlaceByPlace
<1> QED
  BY <1>3 DEF S

\* Rows given place by place, joined.
LEMMA JoinedRows ==
  ASSUME NEW n \in Nat, NEW rows, rows = [i \in 1..n |-> rows[i]],
         \A i \in 1..n : rows[i] \in Seq(ToSet(rows[i]))
  PROVE  /\ Joined(rows) \in Seq(ToSet(Joined(rows)))
         /\ \A x : x \in ToSet(Joined(rows)) <=> \E i \in 1..n : x \in ToSet(rows[i])
<1> DEFINE S == UNION {ToSet(rows[i]) : i \in 1..n}
<1>1. rows \in Seq(Seq(S)) /\ DOMAIN rows = 1..n
  BY RowsOfRows
<1>2. Joined(rows) \in Seq(S) /\ ToSet(Joined(rows)) = UNION {ToSet(rows[i]) : i \in 1..n}
  <2> HIDE DEF S
  <2> QED
    BY <1>1, JoinedHas
<1>3. Joined(rows) \in Seq(ToSet(Joined(rows)))
  <2> HIDE DEF S
  <2> QED
    BY <1>2, OfItsOwn
<1> QED
  BY <1>2, <1>3

\* The last element of s that is in T is x.
LastIn(s, T, x) == \E k \in DOMAIN s : s[k] = x /\ x \in T /\ \A j \in DOMAIN s : s[j] \in T => j <= k

\* It is in row i, and no later row has any.
InLast(rows, T, x, i) == x \in ToSet(rows[i]) /\ \A j \in DOMAIN rows : j > i => ToSet(rows[j]) \cap T = {}

\* The last element of T in rows that are joined is in the last row that has one.
LEMMA LastOfJoined ==
  ASSUME NEW S, NEW rows \in Seq(Seq(S)), NEW T
  PROVE  \A x : LastIn(Joined(rows), T, x) => \E i \in DOMAIN rows : InLast(rows, T, x, i)
<1> DEFINE P == {q \in Seq(Seq(S)) :
                   \A x : LastIn(Joined(q), T, x) => \E i \in DOMAIN q : InLast(q, T, x, i)}
<1>1. <<>> \in P
  <2>1. Joined(<<>>) = <<>>
    BY JoinedIsFolded, Joining!FoldEmpty
  <2>2. DOMAIN <<>> = {} /\ <<>> \in Seq(Seq(S))
    OBVIOUS
  <2>3. \A x : ~LastIn(Joined(<<>>), T, x)
    BY <2>1, <2>2, Zenon DEF LastIn
  <2> QED
    BY <2>2, <2>3
<1>2. ASSUME NEW q \in Seq(Seq(S)), NEW y \in Seq(S), q \in P PROVE Append(q, y) \in P
  <2> DEFINE t == Append(q, y)
             a == Joined(q)
             n == Len(q)
  <2>0. t \in Seq(Seq(S))
    OBVIOUS
  <2>1. Joined(t) = a \o y
    BY JoinedIsFolded, Joining!FoldAppend
  <2>2. a \in Seq(S)
    BY JoinedHas
  <2>3. /\ n \in Nat /\ DOMAIN q = 1..n /\ DOMAIN t = 1..n + 1
        /\ \A i \in 1..n : t[i] = q[i]
        /\ t[n + 1] = y
    OBVIOUS
  <2>4. ASSUME NEW x, LastIn(a \o y, T, x) PROVE \E i \in DOMAIN t : InLast(t, T, x, i)
    <3> DEFINE b == a \o y
    <3>1. /\ DOMAIN a = 1..Len(a) /\ DOMAIN y = 1..Len(y) /\ Len(a) \in Nat /\ Len(y) \in Nat
          /\ DOMAIN b = 1..Len(a) + Len(y)
          /\ \A i \in 1..Len(a) : b[i] = a[i]
          /\ \A i \in 1..Len(y) : b[Len(a) + i] = y[i]
      BY <2>2
    <3>2. LastIn(b, T, x)
      BY <2>4
    <3> HIDE DEF a, b, t, n
    <3>3. PICK k \in 1..Len(a) + Len(y) : b[k] = x /\ x \in T /\ \A j \in 1..Len(a) + Len(y) : b[j] \in T => j <= k
      BY <3>1, <3>2 DEF LastIn
    <3>4. CASE k \in 1..Len(a)
      <4>1. ToSet(y) \cap T = {}
        <5> SUFFICES ASSUME NEW l \in 1..Len(y), y[l] \in T PROVE FALSE
          BY <3>1 DEF ToSet
        <5>1. Len(a) + l \in 1..Len(a) + Len(y) /\ b[Len(a) + l] \in T
          BY <3>1
        <5> QED
          BY <3>1, <3>3, <3>4, <5>1
      <4>2. LastIn(a, T, x)
        <5>1. \A j \in 1..Len(a) : j \in 1..Len(a) + Len(y) /\ b[j] = a[j]
          BY <3>1
        <5>2. a[k] = x /\ \A j \in 1..Len(a) : a[j] \in T => j <= k
          BY <3>3, <3>4, <5>1
        <5> QED
          BY <3>1, <3>3, <3>4, <5>2 DEF LastIn
      <4>3. PICK i \in DOMAIN q : InLast(q, T, x, i)
        BY <1>2, <4>2 DEF a
      <4>4. i \in DOMAIN t /\ x \in ToSet(t[i])
        BY <2>3, <4>3 DEF InLast
      <4>5. ASSUME NEW j \in DOMAIN t, j > i PROVE ToSet(t[j]) \cap T = {}
        <5>1. CASE j = n + 1
          BY <2>3, <4>1, <5>1
        <5>2. CASE j # n + 1
          <6>1. j \in DOMAIN q /\ t[j] = q[j]
            BY <2>3, <5>2
          <6> QED
            BY <4>3, <4>5, <6>1 DEF InLast
        <5> QED
          BY <5>1, <5>2
      <4> QED
        BY <4>4, <4>5 DEF InLast
    <3>5. CASE k \notin 1..Len(a)
      <4>1. k - Len(a) \in 1..Len(y) /\ Len(a) + (k - Len(a)) = k
        BY <3>1, <3>5
      <4>2. x = y[k - Len(a)]
        BY <3>1, <3>3, <4>1
      <4>3. x \in ToSet(y)
        BY <3>1, <4>1, <4>2 DEF ToSet
      <4>4. n + 1 \in DOMAIN t /\ x \in ToSet(t[n + 1])
        BY <2>3, <4>3
      <4>5. \A j \in DOMAIN t : ~(j > n + 1)
        BY <2>3
      <4>6. InLast(t, T, x, n + 1)
        BY <4>4, <4>5 DEF InLast
      <4> QED
        BY <4>4, <4>6
    <3> QED
      BY <3>4, <3>5
  <2>5. \A x : LastIn(Joined(t), T, x) => \E i \in DOMAIN t : InLast(t, T, x, i)
    BY <2>1, <2>4
  <2> HIDE DEF t, a
  <2> QED
    BY <2>0, <2>5 DEF t
<1> HIDE DEF P
<1>3. rows \in P
  BY <1>1, <1>2, Joining!SeqInduction
<1> QED
  BY <1>3 DEF P

\* The sources that are kept came from parsers.
Parsed ==
  /\ canonical \in Seq(ToSet(canonical))
  /\ \A src \in ToSet(canonical) : IsSource(src)

\* Every source that is kept is one a parser made, those of merged rulesets
\* included (ruleset.rs:1081-1094).
LEMMA SourcesAreParsed == Spec => []Parsed
<1>1. Init => Parsed
  BY PacksAreParsed DEF Init, Parsed
<1>2. Parsed /\ [Next]_vars => Parsed'
  <2> SUFFICES ASSUME Parsed, [Next]_vars PROVE Parsed'
    OBVIOUS
  <2>1. ASSUME NEW other \in Extra, NEW off \in SUBSET Provider, Merge(other, off)
        PROVE  Parsed'
    <3> DEFINE S == ToSet(canonical) \cup ToSet(other)
    <3>1. /\ canonical \in Seq(ToSet(canonical)) /\ other \in Seq(ToSet(other))
          /\ \A src \in S : IsSource(src)
      BY PacksAreParsed DEF Parsed
    <3>2. canonical \in Seq(S) /\ other \in Seq(S)
      BY <3>1
    <3>3. canonical' = canonical \o other
      BY <2>1 DEF Merge
    <3>4. ToSet(canonical') \subseteq S
      BY <3>2, <3>3, JoinedTwo
    <3>5. canonical' \in Seq(ToSet(canonical'))
      BY <3>2, <3>3, JoinedTwo
    <3> QED
      BY <3>1, <3>4, <3>5 DEF Parsed
  <2>2. ASSUME NEW names \in SUBSET Provider, Disable(names)
        PROVE  Parsed'
    BY <2>2 DEF Disable, Parsed
  <2>3. CASE UNCHANGED vars
    BY <2>3 DEF vars, Parsed
  <2> QED
    BY <2>1, <2>2, <2>3 DEF Next
<1> QED
  BY <1>1, <1>2, PTL DEF Spec

\* The providers one source gives.
LEMMA ProvidersOfIs ==
  ASSUME NEW src, IsSource(src), NEW off
  PROVE  LET row == ProvidersOf(src, off) IN
         /\ row \in Seq(ToSet(row))
         /\ \A x : x \in ToSet(row) <=>
              \E p \in ToSet(src.providers) :
                Enabled(p.name, off) /\ p.compiles /\ x = [p EXCEPT !.source = src.name]
<1> DEFINE A == ToSet(src.providers)
           T == {p \in A : Enabled(p.name, off) /\ p.compiles}
           kept == Select(src.providers, T)
           row == [i \in DOMAIN kept |-> [kept[i] EXCEPT !.source = src.name]]
<1>1. src.providers \in Seq(A)
  BY DEF IsSource
<1>2. ProvidersOf(src, off) = row
  BY DEF ProvidersOf
<1>3. kept \in Seq(A \cap T) /\ ToSet(kept) = A \cap T
  <2> HIDE DEF T
  <2>1. ToSet(src.providers) = A
    OBVIOUS
  <2> HIDE DEF A
  <2> QED
    BY <1>1, <2>1, SelectHas
<1> HIDE DEF kept
<1>4. DOMAIN kept = 1..Len(kept) /\ Len(kept) \in Nat
  BY <1>3
<1>5. \A x : x \in ToSet(row) <=> \E i \in DOMAIN kept : x = [kept[i] EXCEPT !.source = src.name]
  BY DEF ToSet
<1>6. ToSet(kept) = {kept[i] : i \in DOMAIN kept}
  BY DEF ToSet
<1>7. \A x : x \in ToSet(row) <=> \E p \in A \cap T : x = [p EXCEPT !.source = src.name]
  <2> DEFINE Given(p) == [p EXCEPT !.source = src.name]
             B == A \cap T
  <2>1. \A x : x \in ToSet(row) <=> \E i \in DOMAIN kept : x = Given(kept[i])
    BY <1>5
  <2>2. B = {kept[i] : i \in DOMAIN kept}
    BY <1>3, <1>6
  <2> HIDE DEF Given, B, row
  <2>3. \A x : x \in ToSet(row) <=> \E p \in B : x = Given(p)
    BY <2>1, <2>2
  <2> QED
    BY <2>3 DEF Given, B
<1>8. row \in [1..Len(kept) -> ToSet(row)]
  BY <1>4, <1>5
<1> HIDE DEF row
<1>9. row \in Seq(ToSet(row))
  BY <1>4, <1>8, PlaceByPlace
<1> QED
  BY <1>2, <1>7, <1>9

\* The providers that are compiled.
LEMMA ProvidersAre ==
  ASSUME Parsed, NEW off
  PROVE  LET providers == CompileProviders(canonical, off) IN
         /\ providers \in Seq(ToSet(providers))
         /\ \A x : x \in ToSet(providers) <=>
              \E src \in ToSet(canonical) : \E p \in ToSet(src.providers) :
                Enabled(p.name, off) /\ p.compiles /\ x = [p EXCEPT !.source = src.name]
<1> DEFINE rows == [i \in 1..Len(canonical) |-> ProvidersOf(canonical[i], off)]
<1>1. DOMAIN canonical = 1..Len(canonical) /\ Len(canonical) \in Nat
  BY DEF Parsed
<1>2. CompileProviders(canonical, off) = Joined(rows)
  BY <1>1 DEF CompileProviders
<1>3. \A i \in 1..Len(canonical) : IsSource(canonical[i]) /\ rows[i] = ProvidersOf(canonical[i], off)
  BY <1>1 DEF Parsed, ToSet
<1>4. rows = [i \in 1..Len(canonical) |-> rows[i]]
  OBVIOUS
<1> HIDE DEF rows
<1>5. \A i \in 1..Len(canonical) : rows[i] \in Seq(ToSet(rows[i]))
  BY <1>3, ProvidersOfIs
<1>6. /\ Joined(rows) \in Seq(ToSet(Joined(rows)))
      /\ \A x : x \in ToSet(Joined(rows)) <=> \E i \in 1..Len(canonical) : x \in ToSet(rows[i])
  BY <1>1, <1>4, <1>5, JoinedRows
<1>7. ASSUME NEW x
      PROVE  (\E i \in 1..Len(canonical) : x \in ToSet(rows[i])) <=>
               \E src \in ToSet(canonical) : \E p \in ToSet(src.providers) :
                 Enabled(p.name, off) /\ p.compiles /\ x = [p EXCEPT !.source = src.name]
  <2> DEFINE Gives(src) == \E p \in ToSet(src.providers) :
                 Enabled(p.name, off) /\ p.compiles /\ x = [p EXCEPT !.source = src.name]
  <2>1. \A i \in 1..Len(canonical) : x \in ToSet(rows[i]) <=> Gives(canonical[i])
    BY <1>3, ProvidersOfIs
  <2> HIDE DEF Gives
  <2>2. (\E i \in 1..Len(canonical) : Gives(canonical[i])) <=> \E src \in ToSet(canonical) : Gives(src)
    BY <1>1 DEF ToSet
  <2>3. (\E i \in 1..Len(canonical) : x \in ToSet(rows[i])) <=> \E src \in ToSet(canonical) : Gives(src)
    BY <2>1, <2>2
  <2> QED
    BY <2>3 DEF Gives
<1> QED
  BY <1>2, <1>6, <1>7

\* The provider at place k has that name and source.
Known(providers, source, name, k) == providers[k].source = source /\ providers[k].name = name

\* The id is the place of the last provider of that name and source.
LEMMA IdsAre ==
  ASSUME NEW providers, providers \in Seq(ToSet(providers)), NEW source, NEW name
  PROVE  LET ids == ProviderIds(providers, source, name) IN
         /\ \A k \in DOMAIN providers : Known(providers, source, name, k) => ids # {}
         /\ ids # {} => \E k \in DOMAIN providers :
              /\ ids = {k} /\ Known(providers, source, name, k)
              /\ \A j \in DOMAIN providers : Known(providers, source, name, j) => j <= k
<1> DEFINE I == {k \in 1..Len(providers) : providers[k].source = source /\ providers[k].name = name}
           last == IF I # {} THEN Max(I) ELSE 0
<1>1. DOMAIN providers = 1..Len(providers) /\ Len(providers) \in Nat
  OBVIOUS
<1>2. ProviderIds(providers, source, name) = {last} \ {0}
  BY DEF ProviderIds, SelectLastInSeq
<1>3. \A k \in DOMAIN providers : Known(providers, source, name, k) => I # {}
  BY <1>1 DEF Known
<1>4. I # {} => last \in I /\ \A j \in I : j <= last
  <2> SUFFICES ASSUME I # {} PROVE Max(I) \in I /\ \A j \in I : j <= Max(I)
    OBVIOUS
  <2>1. I \in SUBSET (1..Len(providers))
    OBVIOUS
  <2> HIDE DEF I
  <2>2. \E k \in I : \A j \in I : j <= k
    BY <1>1, <2>1, Merging!LargestExists
  <2>3. \E k \in I : \A j \in I : k >= j
    BY <1>1, <2>1, <2>2
  <2>4. Max(I) \in I /\ \A j \in I : Max(I) >= j
    BY <2>3 DEF Max
  <2> QED
    BY <1>1, <2>1, <2>4
<1>5. I = {} => last = 0
  OBVIOUS
<1>6. \A k \in I : k \in DOMAIN providers /\ k # 0 /\ Known(providers, source, name, k)
  BY <1>1 DEF Known
<1>7. \A k \in DOMAIN providers : Known(providers, source, name, k) => k \in I
  BY <1>1 DEF Known
<1> HIDE DEF I, last
<1> QED
  BY <1>2, <1>3, <1>4, <1>5, <1>6, <1>7

\* The rule has an id and a scope, if it needs them.
TakesPart(src, r, providers) ==
  r.source = "ClearUrls" => ProviderIds(providers, src.name, r.provider) # {} /\ Has(src, r.provider)

\* Among the rules of the source is one that takes part as x.
Offers(src, providers, off, x) ==
  \E r \in ToSet(src.params) :
    /\ Enabled(r.provider, off)
    /\ TakesPart(src, r, providers)
    /\ x = Pending(src, r, providers)

\* The rules of one source that take part.
LEMMA RulesOfIs ==
  ASSUME NEW src, IsSource(src), NEW providers, NEW off
  PROVE  LET row == RulesOf(src, providers, off) IN
         /\ row \in Seq(ToSet(row))
         /\ \A x : x \in ToSet(row) <=> Offers(src, providers, off, x)
<1> DEFINE A == ToSet(src.params)
           T == {r \in A : Enabled(r.provider, off) /\ TakesPart(src, r, providers)}
           kept == Select(src.params, T)
           row == [i \in DOMAIN kept |-> Pending(src, kept[i], providers)]
<1>1. src.params \in Seq(A)
  BY DEF IsSource
<1>2. RulesOf(src, providers, off) = row
  BY DEF RulesOf, TakesPart
<1>3. kept \in Seq(A \cap T) /\ ToSet(kept) = A \cap T
  <2> HIDE DEF T
  <2>1. ToSet(src.params) = A
    OBVIOUS
  <2> HIDE DEF A
  <2> QED
    BY <1>1, <2>1, SelectHas
<1> HIDE DEF kept
<1>4. DOMAIN kept = 1..Len(kept) /\ Len(kept) \in Nat
  BY <1>3
<1>5. \A x : x \in ToSet(row) <=> \E i \in DOMAIN kept : x = Pending(src, kept[i], providers)
  BY DEF ToSet
<1>6. ToSet(kept) = {kept[i] : i \in DOMAIN kept}
  BY DEF ToSet
<1>7. \A x : x \in ToSet(row) <=> \E r \in A \cap T : x = Pending(src, r, providers)
  <2> DEFINE B == A \cap T
  <2>1. B = {kept[i] : i \in DOMAIN kept}
    BY <1>3, <1>6
  <2> HIDE DEF B, row
  <2>2. \A x : x \in ToSet(row) <=> \E r \in B : x = Pending(src, r, providers)
    BY <1>5, <2>1
  <2> QED
    BY <2>2 DEF B
<1>8. row \in [1..Len(kept) -> ToSet(row)]
  BY <1>4, <1>5
<1> HIDE DEF row
<1>9. row \in Seq(ToSet(row))
  BY <1>4, <1>8, PlaceByPlace
<1>10. \A x : x \in ToSet(row) <=> Offers(src, providers, off, x)
  BY <1>7 DEF Offers
<1> QED
  BY <1>2, <1>9, <1>10

\* All rules that take part, before any are grouped.
Rows == LET providers == CompileProviders(canonical, disabled)
        IN Joined([i \in DOMAIN canonical |-> RulesOf(canonical[i], providers, disabled)])

\* They are what the sources offer, each with the providers of all of them.
LEMMA RowsAre ==
  ASSUME Parsed
  PROVE  LET providers == CompileProviders(canonical, disabled) IN
         /\ Rows \in Seq(ToSet(Rows))
         /\ \A x : x \in ToSet(Rows) <=>
              \E src \in ToSet(canonical) : Offers(src, providers, disabled, x)
<1> DEFINE providers == CompileProviders(canonical, disabled)
           rows == [i \in 1..Len(canonical) |-> RulesOf(canonical[i], providers, disabled)]
<1>1. DOMAIN canonical = 1..Len(canonical) /\ Len(canonical) \in Nat
  BY DEF Parsed
<1>2. Rows = Joined(rows)
  BY <1>1 DEF Rows
<1> HIDE DEF providers
<1>3. \A i \in 1..Len(canonical) : /\ IsSource(canonical[i])
                                   /\ rows[i] = RulesOf(canonical[i], providers, disabled)
  BY <1>1 DEF Parsed, ToSet
<1>4. rows = [i \in 1..Len(canonical) |-> rows[i]]
  OBVIOUS
<1> HIDE DEF rows
<1>5. \A i \in 1..Len(canonical) : rows[i] \in Seq(ToSet(rows[i]))
  BY <1>3, RulesOfIs
<1>6. /\ Joined(rows) \in Seq(ToSet(Joined(rows)))
      /\ \A x : x \in ToSet(Joined(rows)) <=> \E i \in 1..Len(canonical) : x \in ToSet(rows[i])
  BY <1>1, <1>4, <1>5, JoinedRows
<1>7. ASSUME NEW x
      PROVE  (\E i \in 1..Len(canonical) : x \in ToSet(rows[i])) <=>
               \E src \in ToSet(canonical) : Offers(src, providers, disabled, x)
  <2>1. \A i \in 1..Len(canonical) :
          x \in ToSet(rows[i]) <=> Offers(canonical[i], providers, disabled, x)
    BY <1>3, RulesOfIs
  <2>2. (\E i \in 1..Len(canonical) : Offers(canonical[i], providers, disabled, x))
          <=> \E src \in ToSet(canonical) : Offers(src, providers, disabled, x)
    BY <1>1 DEF ToSet
  <2> QED
    BY <2>1, <2>2
<1> QED
  BY <1>2, <1>6, <1>7 DEF providers

-----------------------------------------------------------------------------
(* Deduplication.                                                          *)

\* The fields of a group.
IsGroup(g) ==
  DOMAIN g = {"source", "global", "referral", "exception", "all", "matcher",
              "include", "exclude", "legacy", "providers"}

\* Groups t are the rules d, grouped by key: each of the source of one of its
\* rules, with the providers of all of them.
Grouped(d, t) ==
  /\ t \in Seq(ToSet(t))
  /\ \A i \in DOMAIN t : IsGroup(t[i])
  /\ \A i, j \in DOMAIN t : DedupKey(t[i]) = DedupKey(t[j]) => i = j
  /\ \A i \in DOMAIN t : \E g \in ToSet(d) : DedupKey(g) = DedupKey(t[i]) /\ g.source = t[i].source
  /\ \A i \in DOMAIN t : \A x :
       x \in t[i].providers <=> \E g \in ToSet(d) : DedupKey(g) = DedupKey(t[i]) /\ x \in g.providers
  /\ \A g \in ToSet(d) : \E i \in DOMAIN t : DedupKey(t[i]) = DedupKey(g)

\* The groups with the providers of a rule added to group k.
WithProviders(t, k, g) == [t EXCEPT ![k].providers = @ \cup g.providers]

\* A rule is appended, or its providers are added to the group of its key.
LEMMA AddRuleIs ==
  ASSUME NEW t, t \in Seq(ToSet(t)), NEW g
  PROVE  \/ /\ \A i \in DOMAIN t : DedupKey(t[i]) # DedupKey(g)
            /\ AddRule(t, g) = Append(t, g)
         \/ \E i \in DOMAIN t :
              /\ DedupKey(t[i]) = DedupKey(g)
              /\ AddRule(t, g) = WithProviders(t, i, g)
<1> DEFINE I == {k \in 1..Len(t) : DedupKey(t[k]) = DedupKey(g)}
           first == IF I # {} THEN Min(I) ELSE 0
<1>1. DOMAIN t = 1..Len(t) /\ Len(t) \in Nat
  OBVIOUS
<1>2. AddRule(t, g) = IF first = 0 THEN Append(t, g)
                      ELSE WithProviders(t, first, g)
  BY DEF AddRule, SelectInSeq, WithProviders
<1>3. I # {} => first \in I
  <2> SUFFICES ASSUME I # {} PROVE Min(I) \in I
    OBVIOUS
  <2> DEFINE n == Len(t)
             K == {n + 1 - k : k \in I}
  <2>1. I \in SUBSET (1..n) /\ n \in Nat
    BY <1>1
  <2> HIDE DEF I, n
  <2>2. K \in SUBSET (1..n) /\ K # {}
    <3>1. \A k \in I : n + 1 - k \in 1..n
      <4> SUFFICES ASSUME NEW k \in I PROVE n + 1 - k \in 1..n
        OBVIOUS
      <4>1. k \in 1..n
        BY <2>1
      <4> QED
        BY <2>1, <4>1
    <3> QED
      BY <3>1
  <2>3. \E k \in K : \A j \in K : j <= k
    <3> HIDE DEF K
    <3> QED
      BY <2>1, <2>2, Merging!LargestExists
  <2>4. PICK k \in I : \A j \in I : n + 1 - j <= n + 1 - k
    BY <2>3
  <2>5. \A j \in I : k =< j
    <3> SUFFICES ASSUME NEW j \in I PROVE k =< j
      OBVIOUS
    <3>1. j \in 1..n /\ k \in 1..n /\ n + 1 - j <= n + 1 - k
      BY <2>1, <2>4
    <3> QED
      BY <2>1, <3>1
  <2> QED
    BY <2>5 DEF Min
<1>4. I = {} => first = 0
  OBVIOUS
<1>5. \A k \in I : k \in DOMAIN t /\ k # 0 /\ DedupKey(t[k]) = DedupKey(g)
  BY <1>1
<1>6. I = {} => \A i \in DOMAIN t : DedupKey(t[i]) # DedupKey(g)
  BY <1>1
<1> HIDE DEF I, first
<1> QED
  BY <1>2, <1>3, <1>4, <1>5, <1>6

\* A rule with a key of its own leaves the other groups alone.
LEMMA GroupedNew ==
  ASSUME NEW S, NEW d \in Seq(S), NEW g \in S, IsGroup(g), NEW t, Grouped(d, t),
         \A i \in DOMAIN t : DedupKey(t[i]) # DedupKey(g)
  PROVE  Grouped(Append(d, g), Append(t, g))
<1> DEFINE e == Append(d, g)
           u == Append(t, g)
           n == Len(t) + 1
<1>1. ToSet(e) = ToSet(d) \cup {g}
  BY ToSetLonger
<1>2. /\ t \in Seq(ToSet(t))
      /\ \A i \in DOMAIN t : IsGroup(t[i])
      /\ \A i, j \in DOMAIN t : DedupKey(t[i]) = DedupKey(t[j]) => i = j
      /\ \A i \in DOMAIN t : \E h \in ToSet(d) : DedupKey(h) = DedupKey(t[i]) /\ h.source = t[i].source
      /\ \A i \in DOMAIN t : \A x :
           x \in t[i].providers <=> \E h \in ToSet(d) : DedupKey(h) = DedupKey(t[i]) /\ x \in h.providers
      /\ \A h \in ToSet(d) : \E i \in DOMAIN t : DedupKey(t[i]) = DedupKey(h)
  BY DEF Grouped
<1>3. /\ u \in Seq(ToSet(u)) /\ n \notin DOMAIN t
      /\ DOMAIN u = DOMAIN t \cup {n} /\ u[n] = g /\ \A i \in DOMAIN t : u[i] = t[i]
  <2> DEFINE A == ToSet(t) \cup {g}
  <2>1. t \in Seq(A) /\ g \in A
    <3> DEFINE B == ToSet(t)
    <3>1. t \in Seq(B) /\ B \subseteq A
      BY <1>2
    <3> HIDE DEF B, A
    <3>2. t \in Seq(A)
      BY <3>1
    <3> QED
      BY <3>2 DEF A
  <2> HIDE DEF A
  <2>2. u \in Seq(A)
    BY <2>1
  <2>3. u \in Seq(ToSet(u))
    BY <2>2, OfItsOwn
  <2> QED
    BY <2>1, <2>3
<1> HIDE DEF e, u, n
<1>4. \A i \in DOMAIN u : IsGroup(u[i])
  BY <1>2, <1>3
<1>5. \A i, j \in DOMAIN u : DedupKey(u[i]) = DedupKey(u[j]) => i = j
  BY <1>2, <1>3
<1>6. \A i \in DOMAIN u : \E h \in ToSet(e) : DedupKey(h) = DedupKey(u[i]) /\ h.source = u[i].source
  BY <1>1, <1>2, <1>3
<1>7. ASSUME NEW i \in DOMAIN u, NEW x
      PROVE  x \in u[i].providers <=> \E h \in ToSet(e) : DedupKey(h) = DedupKey(u[i]) /\ x \in h.providers
  <2>1. CASE i \in DOMAIN t
    <3>1. DedupKey(u[i]) # DedupKey(g) /\ u[i] = t[i]
      BY <1>3, <2>1
    <3> QED
      BY <1>1, <1>2, <2>1, <3>1
  <2>2. CASE i = n
    <3>1. \A h \in ToSet(d) : DedupKey(h) # DedupKey(g)
      BY <1>2
    <3> QED
      BY <1>1, <1>3, <2>2, <3>1
  <2> QED
    BY <1>3, <2>1, <2>2
<1>8. \A h \in ToSet(e) : \E i \in DOMAIN u : DedupKey(u[i]) = DedupKey(h)
  BY <1>1, <1>2, <1>3
<1>9. Grouped(e, u)
  BY <1>3, <1>4, <1>5, <1>6, <1>7, <1>8 DEF Grouped
<1> QED
  BY <1>9 DEF e, u

\* A rule with a known key adds its providers to that group and to no other.
LEMMA GroupedKnown ==
  ASSUME NEW S, NEW d \in Seq(S), NEW g \in S, IsGroup(g), NEW t, Grouped(d, t),
         NEW k \in DOMAIN t, DedupKey(t[k]) = DedupKey(g)
  PROVE  Grouped(Append(d, g), WithProviders(t, k, g))
<1> DEFINE e == Append(d, g)
           y == [t[k] EXCEPT !.providers = @ \cup g.providers]
           u == WithProviders(t, k, g)
<1>1. ToSet(e) = ToSet(d) \cup {g}
  BY ToSetLonger
<1>2. /\ t \in Seq(ToSet(t))
      /\ \A i \in DOMAIN t : IsGroup(t[i])
      /\ \A i, j \in DOMAIN t : DedupKey(t[i]) = DedupKey(t[j]) => i = j
      /\ \A i \in DOMAIN t : \E h \in ToSet(d) : DedupKey(h) = DedupKey(t[i]) /\ h.source = t[i].source
      /\ \A i \in DOMAIN t : \A x :
           x \in t[i].providers <=> \E h \in ToSet(d) : DedupKey(h) = DedupKey(t[i]) /\ x \in h.providers
      /\ \A h \in ToSet(d) : \E i \in DOMAIN t : DedupKey(t[i]) = DedupKey(h)
  BY DEF Grouped
<1>3. /\ IsGroup(y) /\ DedupKey(y) = DedupKey(t[k]) /\ y.source = t[k].source
      /\ y.providers = t[k].providers \cup g.providers
  <2>1. IsGroup(t[k])
    BY <1>2
  <2>2. /\ DOMAIN y = DOMAIN t[k]
        /\ \A f \in DOMAIN t[k] : y[f] = IF f = "providers" THEN t[k].providers \cup g.providers ELSE t[k][f]
    OBVIOUS
  <2> HIDE DEF y
  <2> QED
    BY <2>1, <2>2 DEF IsGroup, DedupKey
<1>4. /\ DOMAIN t = 1..Len(t) /\ Len(t) \in Nat
  BY <1>2
<1>5. /\ u \in Seq(ToSet(u))
      /\ DOMAIN u = DOMAIN t /\ u[k] = y /\ \A i \in DOMAIN t : i # k => u[i] = t[i]
  <2>1. u = [i \in 1..Len(t) |-> IF i = k THEN y ELSE t[i]]
    BY <1>4 DEF WithProviders
  <2> HIDE DEF y, u
  <2>2. DOMAIN u = DOMAIN t /\ u[k] = y /\ \A i \in DOMAIN t : i # k => u[i] = t[i]
    BY <1>4, <2>1
  <2>3. \A i \in 1..Len(t) : u[i] \in ToSet(u)
    BY <1>4, <2>2 DEF ToSet
  <2>4. u \in [1..Len(t) -> ToSet(u)]
    BY <2>1, <2>3
  <2>5. u \in Seq(ToSet(u))
    BY <1>4, <2>4, PlaceByPlace
  <2> QED
    BY <2>2, <2>5
<1> HIDE DEF e, u, y
<1>6. \A i \in DOMAIN u : DedupKey(u[i]) = DedupKey(t[i]) /\ u[i].source = t[i].source /\ IsGroup(u[i])
  BY <1>2, <1>3, <1>5
<1>7. \A i, j \in DOMAIN u : DedupKey(u[i]) = DedupKey(u[j]) => i = j
  BY <1>2, <1>5, <1>6
<1>8. \A i \in DOMAIN u : \E h \in ToSet(e) : DedupKey(h) = DedupKey(u[i]) /\ h.source = u[i].source
  BY <1>1, <1>2, <1>5, <1>6
<1>9. ASSUME NEW i \in DOMAIN u, NEW x
      PROVE  x \in u[i].providers <=> \E h \in ToSet(e) : DedupKey(h) = DedupKey(u[i]) /\ x \in h.providers
  <2>1. i \in DOMAIN t /\ DedupKey(u[i]) = DedupKey(t[i])
    BY <1>5, <1>6
  <2>2. x \in t[i].providers <=> \E h \in ToSet(d) : DedupKey(h) = DedupKey(t[i]) /\ x \in h.providers
    BY <1>2, <2>1
  <2>3. CASE i = k
    <3>1. x \in u[i].providers <=> x \in t[i].providers \/ x \in g.providers
      BY <1>3, <1>5, <2>3
    <3>2. DedupKey(u[i]) = DedupKey(g)
      BY <2>1, <2>3
    <3> QED
      BY <1>1, <2>1, <2>2, <3>1, <3>2
  <2>4. CASE i # k
    <3>1. u[i] = t[i]
      BY <1>5, <2>1, <2>4
    <3>2. DedupKey(t[i]) # DedupKey(g)
      BY <1>2, <2>1, <2>4
    <3> QED
      BY <1>1, <2>2, <3>1, <3>2
  <2> QED
    BY <2>3, <2>4
<1>10. \A h \in ToSet(e) : \E i \in DOMAIN u : DedupKey(u[i]) = DedupKey(h)
  BY <1>1, <1>2, <1>5, <1>6
<1>11. Grouped(e, u)
  BY <1>5, <1>6, <1>7, <1>8, <1>9, <1>10 DEF Grouped
<1> QED
  BY <1>11 DEF e, u

\* Deduplication (ruleset.rs:1728-1764) only groups: no rule and no provider is
\* lost, none is added, and no two groups have one key.
LEMMA GroupedIs ==
  ASSUME NEW S, \A g \in S : IsGroup(g), NEW rows \in Seq(S)
  PROVE  Grouped(rows, FoldLeft(AddRule, <<>>, rows))
<1> DEFINE P == {d \in Seq(S) : Grouped(d, Merging!Folded(<<>>, d))}
<1>1. <<>> \in P
  <2>1. Merging!Folded(<<>>, <<>>) = <<>>
    BY Merging!FoldEmpty
  <2>2. ToSet(<<>>) = {} /\ DOMAIN <<>> = {} /\ <<>> \in Seq({}) /\ <<>> \in Seq(S)
    BY DEF ToSet
  <2>3. Grouped(<<>>, <<>>)
    BY <2>2, Zenon DEF Grouped
  <2> QED
    BY <2>1, <2>2, <2>3
<1>2. ASSUME NEW d \in Seq(S), NEW g \in S, d \in P PROVE Append(d, g) \in P
  <2> DEFINE t == Merging!Folded(<<>>, d)
  <2>1. Grouped(d, t) /\ IsGroup(g)
    BY <1>2
  <2>2. Merging!Folded(<<>>, Append(d, g)) = AddRule(t, g)
    BY Merging!FoldAppend
  <2> HIDE DEF t
  <2>3. t \in Seq(ToSet(t))
    BY <2>1 DEF Grouped
  <2>4. Grouped(Append(d, g), AddRule(t, g))
    <3>1. CASE \A i \in DOMAIN t : DedupKey(t[i]) # DedupKey(g)
      <4>1. AddRule(t, g) = Append(t, g)
        BY <2>3, <3>1, AddRuleIs
      <4> QED
        BY <2>1, <3>1, <4>1, GroupedNew
    <3>2. CASE \E i \in DOMAIN t : DedupKey(t[i]) = DedupKey(g)
      <4>1. PICK k \in DOMAIN t :
              /\ DedupKey(t[k]) = DedupKey(g)
              /\ AddRule(t, g) = WithProviders(t, k, g)
        BY <2>3, <3>2, AddRuleIs
      <4> QED
        BY <2>1, <4>1, GroupedKnown
    <3> QED
      BY <3>1, <3>2
  <2>5. Append(d, g) \in Seq(S)
    OBVIOUS
  <2> QED
    BY <2>2, <2>4, <2>5
<1> HIDE DEF P
<1>3. rows \in P
  BY <1>1, <1>2, Merging!SeqInduction
<1> QED
  BY <1>3, GroupsAreFolded DEF P

-----------------------------------------------------------------------------
(* Rules in force and the groups they are in.                              *)

\* A provider as it is compiled, of a source of that name.
Given(p, name) == [p EXCEPT !.source = name]

\* But for the source it is the provider.
LEMMA GivenIs ==
  ASSUME Parsed, NEW s \in ToSet(canonical), NEW p \in ToSet(s.providers), NEW name
  PROVE  /\ Given(p, name).source = name /\ Given(p, name).name = p.name
         /\ \A u : Excepts(Given(p, name), u) <=> Excepts(p, u)
<1> DEFINE x == Given(p, name)
<1>1. DOMAIN p = {"name", "scope", "exceptions", "compiles", "source"}
  BY DEF Parsed, IsSource
<1>2. x.source = name /\ x.name = p.name /\ x.scope = p.scope /\ x.exceptions = p.exceptions
  BY <1>1 DEF Given
<1> HIDE DEF x
<1>3. \A u : Excepts(x, u) <=> Excepts(p, u)
  BY <1>2 DEF Excepts
<1> QED
  BY <1>2, <1>3 DEF x

\* The source at place i gives x.
GivesAt(i, x) ==
  \E p \in ToSet(canonical[i].providers) :
    Enabled(p.name, disabled) /\ p.compiles /\ x = Given(p, canonical[i].name)

\* A provider of that name, of a source of that name.
Called(x, source, name) == x.source = source /\ x.name = name

\* The provider with the rule's id comes from a source that no later one of
\* that name has such a provider after (ruleset.rs:1588-1671).
LEMMA IdFromLast ==
  ASSUME Parsed, Compiled, NEW source, NEW name,
         NEW k \in DOMAIN store.providers, Known(store.providers, source, name, k),
         \A j \in DOMAIN store.providers : Known(store.providers, source, name, j) => j <= k
  PROVE  \E i \in DOMAIN canonical :
           /\ GivesAt(i, store.providers[k])
           /\ \A j \in DOMAIN canonical : j > i => ~\E x : GivesAt(j, x) /\ Called(x, source, name)
<1> DEFINE providers == store.providers
           n == Len(canonical)
           rows == [i \in 1..n |-> ProvidersOf(canonical[i], disabled)]
           S == UNION {ToSet(rows[i]) : i \in 1..n}
           T == {x \in ToSet(providers) : Called(x, source, name)}
           last == providers[k]
<1>1. n \in Nat /\ DOMAIN canonical = 1..n
  BY DEF Parsed
<1>2. providers = Joined(rows)
  BY <1>1 DEF Compiled, CompileStore, CompileProviders
<1>3. \A i \in 1..n : IsSource(canonical[i]) /\ rows[i] = ProvidersOf(canonical[i], disabled)
  BY <1>1 DEF Parsed, ToSet
<1>4. rows = [i \in 1..n |-> rows[i]]
  OBVIOUS
<1> HIDE DEF rows
<1>5. \A i \in 1..n : rows[i] \in Seq(ToSet(rows[i]))
  BY <1>3, ProvidersOfIs
<1>6. \A i \in 1..n : \A x : x \in ToSet(rows[i]) <=> GivesAt(i, x)
  BY <1>3, ProvidersOfIs DEF GivesAt, Given
<1>7. rows \in Seq(Seq(S)) /\ DOMAIN rows = 1..n
  BY <1>1, <1>4, <1>5, RowsOfRows
<1>8. \A x : x \in ToSet(providers) <=> \E i \in 1..n : x \in ToSet(rows[i])
  BY <1>1, <1>2, <1>4, <1>5, JoinedRows
<1>9. LastIn(providers, T, last)
  <2>1. last \in T
    BY DEF Known, Called, ToSet
  <2>2. \A j \in DOMAIN providers : providers[j] \in T => j <= k
    BY DEF Known, Called
  <2> HIDE DEF T
  <2> QED
    BY <2>1, <2>2 DEF LastIn
<1> HIDE DEF T, S, last, providers, n
<1>10. PICK i \in DOMAIN rows : InLast(rows, T, last, i)
  BY <1>2, <1>7, <1>9, LastOfJoined
<1>11. i \in DOMAIN canonical /\ GivesAt(i, last)
  BY <1>1, <1>6, <1>7, <1>10 DEF InLast
<1>12. ASSUME NEW j \in DOMAIN canonical, j > i, NEW x, GivesAt(j, x), Called(x, source, name)
       PROVE  FALSE
  <2>1. j \in 1..n /\ x \in ToSet(rows[j])
    BY <1>1, <1>6, <1>12
  <2>2. x \in T
    BY <1>8, <1>12, <2>1 DEF T
  <2> QED
    BY <1>7, <1>10, <1>12, <2>1, <2>2 DEF InLast
<1> QED
  BY <1>11, <1>12 DEF last, providers

\* The exceptions of a source for a rule are those of the provider it has.
LEMMA ExceptedIs ==
  ASSUME Parsed, NEW s \in ToSet(canonical), NEW q \in ToSet(s.providers), q.compiles,
         NEW r, q.name = r.provider, NEW u
  PROVE  Excepted(s, r, u) <=> Excepts(q, u)
<1>1. \A p \in ToSet(s.providers) : p.name = r.provider => p = q
  BY DEF Parsed, IsSource
<1> QED
  BY <1>1 DEF Excepted

\* A rule that takes part is given one id, and that id is excepted where the
\* last provider of its name is (ruleset.rs:1588-1671, 1698-1719).
LEMMA IdIsProvider ==
  ASSUME Parsed, Compiled,
         NEW src \in ToSet(canonical), NEW r \in ToSet(src.params),
         Enabled(r.provider, disabled), Has(src, r.provider)
  PROVE  LET ids == ProviderIds(store.providers, src.name, r.provider) IN
         \E k \in DOMAIN store.providers :
           /\ ids = {k}
           /\ \A u \in Url : Excepts(store.providers[k], u) <=> GivenExcepted(src, r, u)
<1> DEFINE providers == store.providers
           ids == ProviderIds(providers, src.name, r.provider)
<1>1. providers = CompileProviders(canonical, disabled)
  BY DEF Compiled, CompileStore
<1> HIDE DEF providers
<1>2. /\ providers \in Seq(ToSet(providers))
      /\ \A x : x \in ToSet(providers) <=>
           \E s \in ToSet(canonical) : \E p \in ToSet(s.providers) :
             Enabled(p.name, disabled) /\ p.compiles /\ x = [p EXCEPT !.source = s.name]
  BY <1>1, ProvidersAre
<1>3. providers \in Seq(ToSet(providers))
  BY <1>2
<1>4. \A k \in DOMAIN providers : Known(providers, src.name, r.provider, k) => ids # {}
  BY <1>3, IdsAre
<1>5. ids # {} => \E k \in DOMAIN providers :
        /\ ids = {k} /\ Known(providers, src.name, r.provider, k)
        /\ \A j \in DOMAIN providers : Known(providers, src.name, r.provider, j) => j <= k
  BY <1>3, IdsAre
<1> HIDE DEF ids
<1>6. ids # {}
  <2>1. PICK p \in ToSet(src.providers) : p.name = r.provider /\ p.compiles
    BY DEF Has
  <2>2. Given(p, src.name) \in ToSet(providers)
    BY <1>2, <2>1 DEF Given
  <2>3. Given(p, src.name).source = src.name /\ Given(p, src.name).name = p.name
    BY GivenIs
  <2> QED
    BY <1>4, <2>1, <2>2, <2>3 DEF Known, ToSet
<1>7. PICK k \in DOMAIN providers :
        /\ ids = {k} /\ Known(providers, src.name, r.provider, k)
        /\ \A j \in DOMAIN providers : Known(providers, src.name, r.provider, j) => j <= k
  BY <1>5, <1>6
<1>8. PICK i \in DOMAIN canonical :
        /\ GivesAt(i, providers[k])
        /\ \A j \in DOMAIN canonical : j > i => ~\E x : GivesAt(j, x) /\ Called(x, src.name, r.provider)
  BY <1>7, IdFromLast DEF providers
<1>9. PICK q \in ToSet(canonical[i].providers) :
        q.compiles /\ providers[k] = Given(q, canonical[i].name)
  BY <1>8 DEF GivesAt
<1>10. \A j \in DOMAIN canonical : canonical[j] \in ToSet(canonical)
  BY DEF ToSet
<1>11. /\ canonical[i].name = src.name /\ q.name = r.provider
       /\ \A u : Excepts(providers[k], u) <=> Excepts(q, u)
  BY <1>7, <1>9, <1>10, GivenIs DEF Known
<1>12. i \in Claimants(src, r)
  BY <1>9, <1>11 DEF Claimants, Has
<1>13. ASSUME NEW j \in Claimants(src, r) PROVE j <= i
  <2>1. j \in DOMAIN canonical /\ canonical[j].name = src.name /\ Has(canonical[j], r.provider)
    BY DEF Claimants
  <2>2. PICK p \in ToSet(canonical[j].providers) : p.name = r.provider /\ p.compiles
    BY <2>1 DEF Has
  <2>3. GivesAt(j, Given(p, src.name))
    BY <2>1, <2>2 DEF GivesAt
  <2>4. Called(Given(p, src.name), src.name, r.provider)
    BY <1>10, <2>1, <2>2, GivenIs DEF Called
  <2>5. ~(j > i)
    BY <1>8, <2>1, <2>3, <2>4
  <2>6. i \in Nat /\ j \in Nat
    BY <2>1 DEF Parsed
  <2> QED
    BY <2>5, <2>6
<1>14. ASSUME NEW u \in Url PROVE Excepts(providers[k], u) <=> GivenExcepted(src, r, u)
  <2>1. Excepted(canonical[i], r, u) <=> Excepts(q, u)
    BY <1>9, <1>10, <1>11, ExceptedIs
  <2>2. \A j \in Claimants(src, r) : (\A l \in Claimants(src, r) : l <= j) => j = i
    <3>1. \A j \in Claimants(src, r) : j \in Nat
      BY DEF Claimants, Parsed
    <3> QED
      BY <1>12, <1>13, <3>1
  <2>3. GivenExcepted(src, r, u) <=> Excepted(canonical[i], r, u)
    BY <1>12, <1>13, <2>2 DEF GivenExcepted
  <2> QED
    BY <1>11, <2>1, <2>3
<1> QED
  BY <1>7, <1>14 DEF ids, providers

\* An exception matches exactly when one of an enabled provider does.
LEMMA ExceptionsMean ==
  ASSUME Parsed, Compiled, NEW u
  PROVE  ClearurlsExceptions(store, u) # {} <=> ExceptedGlobally(u)
<1> DEFINE providers == store.providers
<1>1. providers = CompileProviders(canonical, disabled)
  BY DEF Compiled, CompileStore
<1>2. ClearurlsExceptions(store, u) # {} <=> \E x \in ToSet(providers) : Excepts(x, u)
  BY DEF ClearurlsExceptions, ToSet
<1> HIDE DEF providers
<1>3. \A x : x \in ToSet(providers) <=>
        \E s \in ToSet(canonical) : \E p \in ToSet(s.providers) :
          Enabled(p.name, disabled) /\ p.compiles /\ x = [p EXCEPT !.source = s.name]
  BY <1>1, ProvidersAre
<1>4. ASSUME NEW s \in ToSet(canonical), NEW p \in ToSet(s.providers)
      PROVE  Excepts([p EXCEPT !.source = s.name], u) <=> Excepts(p, u)
  <2> DEFINE x == [p EXCEPT !.source = s.name]
  <2>1. DOMAIN p = {"name", "scope", "exceptions", "compiles", "source"}
    BY DEF Parsed, IsSource
  <2>2. x.scope = p.scope /\ x.exceptions = p.exceptions
    BY <2>1
  <2> HIDE DEF x
  <2>3. Excepts(x, u) <=> Excepts(p, u)
    BY <2>2 DEF Excepts
  <2> QED
    BY <2>3 DEF x
<1>5. (\E x \in ToSet(providers) : Excepts(x, u)) <=>
        \E s \in ToSet(canonical) : \E p \in ToSet(s.providers) :
          Enabled(p.name, disabled) /\ p.compiles /\ Excepts(p, u)
  <2> DEFINE Marked(p, s) == [p EXCEPT !.source = s.name]
             Takes(p) == Enabled(p.name, disabled) /\ p.compiles
  <2>1. \A x : x \in ToSet(providers) <=>
          \E s \in ToSet(canonical) : \E p \in ToSet(s.providers) : Takes(p) /\ x = Marked(p, s)
    BY <1>3
  <2>2. \A s \in ToSet(canonical) : \A p \in ToSet(s.providers) : Excepts(Marked(p, s), u) <=> Excepts(p, u)
    BY <1>4
  <2> HIDE DEF Marked, Takes
  <2>3. (\E x \in ToSet(providers) : Excepts(x, u)) <=>
          \E s \in ToSet(canonical) : \E p \in ToSet(s.providers) : Takes(p) /\ Excepts(p, u)
    BY <2>1, <2>2
  <2> QED
    BY <2>3 DEF Takes
<1> QED
  BY <1>2, <1>5 DEF ExceptedGlobally

\* What is pending for a rule in force.
PendingOf(e) == Pending(e[1], e[2], store.providers)

\* A pending rule, field by field.
LEMMA PendingIs ==
  ASSUME NEW e
  PROVE  LET g == PendingOf(e)  r == e[2] IN
         /\ IsGroup(g)
         /\ g.source = r.source /\ g.global = r.global /\ g.referral = r.referral
         /\ g.exception = r.exception /\ g.all = r.all /\ g.matcher = r.matcher
         /\ g.include = r.include /\ g.exclude = r.exclude
         /\ g.legacy = (r.source = "ClearUrls" /\ r.global /\ e[1].name = "builtin")
         /\ g.providers = IF r.source = "ClearUrls"
                          THEN ProviderIds(store.providers, e[1].name, r.provider) ELSE {}
BY DEF PendingOf, Pending, IsGroup

\* A rule is in force by its place in a source and by its provider alone.
LEMMA InForceIs ==
  ASSUME NEW src, NEW r
  PROVE  <<src, r>> \in InForce <=>
           /\ src \in ToSet(canonical) /\ r \in ToSet(src.params)
           /\ Enabled(r.provider, disabled)
           /\ r.source = "ClearUrls" => Has(src, r.provider)
<1>1. <<src, r>> \in UNION {{s} \X ToSet(s.params) : s \in ToSet(canonical)}
        <=> src \in ToSet(canonical) /\ r \in ToSet(src.params)
  OBVIOUS
<1> QED
  BY <1>1 DEF InForce

\* What is in force are pairs of a source and a rule.
LEMMA InForcePairs == \A e \in InForce : e = <<e[1], e[2]>>
  BY DEF InForce

\* What takes part is what is in force.
LEMMA RowsInForce ==
  ASSUME Parsed, Compiled
  PROVE  \A x : x \in ToSet(Rows) <=> \E e \in InForce : x = PendingOf(e)
<1>1. store.providers = CompileProviders(canonical, disabled)
  BY DEF Compiled, CompileStore
<1>2. \A x : x \in ToSet(Rows) <=>
        \E src \in ToSet(canonical) : Offers(src, store.providers, disabled, x)
  BY <1>1, RowsAre
<1>3. ASSUME NEW src \in ToSet(canonical), NEW r \in ToSet(src.params), Enabled(r.provider, disabled)
      PROVE  TakesPart(src, r, store.providers) <=> <<src, r>> \in InForce
  <2>1. Has(src, r.provider) => ProviderIds(store.providers, src.name, r.provider) # {}
    BY <1>3, IdIsProvider
  <2> QED
    BY <1>3, <2>1, InForceIs DEF TakesPart
<1>4. ASSUME NEW x, x \in ToSet(Rows) PROVE \E e \in InForce : x = PendingOf(e)
  <2>1. PICK src \in ToSet(canonical) : Offers(src, store.providers, disabled, x)
    BY <1>2, <1>4
  <2>2. PICK r \in ToSet(src.params) :
          /\ Enabled(r.provider, disabled)
          /\ TakesPart(src, r, store.providers)
          /\ x = Pending(src, r, store.providers)
    BY <2>1 DEF Offers
  <2>3. <<src, r>> \in InForce
    BY <1>3, <2>2
  <2>4. x = PendingOf(<<src, r>>)
    BY <2>2 DEF PendingOf
  <2> QED
    BY <2>3, <2>4
<1>5. ASSUME NEW e \in InForce PROVE PendingOf(e) \in ToSet(Rows)
  <2> DEFINE src == e[1]
             r == e[2]
  <2>1. e = <<src, r>>
    BY InForcePairs
  <2> HIDE DEF src, r
  <2>2. <<src, r>> \in InForce
    BY <2>1
  <2>3. src \in ToSet(canonical) /\ r \in ToSet(src.params) /\ Enabled(r.provider, disabled)
    BY <2>2, InForceIs
  <2>4. TakesPart(src, r, store.providers)
    BY <1>3, <2>2, <2>3
  <2>5. PendingOf(e) = Pending(src, r, store.providers)
    BY DEF PendingOf, src, r
  <2>6. Offers(src, store.providers, disabled, PendingOf(e))
    BY <2>3, <2>4, <2>5 DEF Offers
  <2> QED
    BY <1>2, <2>3, <2>6
<1> QED
  BY <1>4, <1>5

\* A rule in force is in a group.
In(e, g) == DedupKey(PendingOf(e)) = DedupKey(g) /\ g.source = e[2].source

\* Rules of different formats are never grouped: their scopes are of
\* different kinds.
LEMMA FormatsApart ==
  ASSUME Parsed, NEW e \in InForce, NEW f \in InForce,
         DedupKey(PendingOf(e)) = DedupKey(PendingOf(f))
  PROVE  e[2].source = f[2].source
<1> DEFINE r == e[2]
           s == f[2]
           Shape(x) ==
             \/ x.source = "ClearUrls" /\ \E c \in x.include : x.include = {c} /\ c.kind \in {"direct", "regex"}
             \/ x.source = "AdGuard" /\ \E c \in x.include : x.include = {c} /\ c.kind \in {"any", "adguard"}
             \/ x.source = "BraveCleanUrls" /\ \A c \in x.include : c.kind = "glob"
<1>1. r.include = s.include
  <2>1. PendingOf(e).include = PendingOf(f).include
    BY DEF DedupKey
  <2> QED
    BY <2>1, PendingIs
<1>2. \A x \in InForce : x[1] \in ToSet(canonical) /\ x[2] \in ToSet(x[1].params)
  BY InForcePairs, InForceIs
<1>3. \A src \in ToSet(canonical) : \A x \in ToSet(src.params) : Shape(x)
  BY DEF Parsed, IsSource
<1>4. Shape(r) /\ Shape(s)
  <2> HIDE DEF Shape
  <2> QED
    BY <1>2, <1>3
<1> HIDE DEF r, s
<1>5. r.source = "ClearUrls" => s.source = "ClearUrls"
  BY <1>1, <1>4
<1>6. r.source = "AdGuard" => s.source = "AdGuard"
  BY <1>1, <1>4
<1>7. r.source = "BraveCleanUrls" => s.source = "BraveCleanUrls"
  BY <1>1, <1>4
<1>8. r.source = s.source
  BY <1>4, <1>5, <1>6, <1>7
<1> QED
  BY <1>8 DEF r, s

\* But for its providers, a group says what every rule in it says.
LEMMA InFields ==
  ASSUME NEW e, NEW g, In(e, g)
  PROVE  LET r == e[2] IN
         /\ g.source = r.source /\ g.global = r.global /\ g.referral = r.referral
         /\ g.exception = r.exception /\ g.all = r.all /\ g.matcher = r.matcher
         /\ g.include = r.include /\ g.exclude = r.exclude
         /\ g.legacy = (r.source = "ClearUrls" /\ r.global /\ e[1].name = "builtin")
<1> DEFINE h == PendingOf(e)
<1>1. DedupKey(h) = DedupKey(g) /\ g.source = e[2].source
  BY DEF In
<1> HIDE DEF h
<1>2. /\ h.global = g.global /\ h.referral = g.referral /\ h.exception = g.exception
      /\ h.all = g.all /\ h.matcher = g.matcher /\ h.include = g.include
      /\ h.exclude = g.exclude /\ h.legacy = g.legacy
  BY <1>1 DEF DedupKey
<1> QED
  BY <1>1, <1>2, PendingIs DEF h

\* Every group is one of rules in force, which are all in groups, and has the
\* providers of those in it.
LEMMA GroupsMean ==
  ASSUME Parsed, Compiled
  PROVE  /\ \A g \in ToSet(store.groups) : \E e \in InForce : In(e, g)
         /\ \A e \in InForce : \E g \in ToSet(store.groups) : In(e, g)
         /\ \A g \in ToSet(store.groups) : \A k :
              k \in g.providers <=> \E e \in InForce : In(e, g) /\ k \in PendingOf(e).providers
<1> DEFINE t == store.groups
<1>1. t = FoldLeft(AddRule, <<>>, Rows)
  BY DEF Compiled, CompileStore, CompileGroups, Rows
<1>2. \A x : x \in ToSet(Rows) <=> \E e \in InForce : x = PendingOf(e)
  BY RowsInForce
<1>3. Grouped(Rows, t)
  <2>1. \A x \in ToSet(Rows) : IsGroup(x)
    BY <1>2, PendingIs
  <2>2. Rows \in Seq(ToSet(Rows))
    BY RowsAre
  <2> QED
    BY <1>1, <2>1, <2>2, GroupedIs
<1> HIDE DEF t
<1>4. /\ \A i \in DOMAIN t : \E x \in ToSet(Rows) : DedupKey(x) = DedupKey(t[i]) /\ x.source = t[i].source
      /\ \A i \in DOMAIN t : \A k :
           k \in t[i].providers <=> \E x \in ToSet(Rows) : DedupKey(x) = DedupKey(t[i]) /\ k \in x.providers
      /\ \A x \in ToSet(Rows) : \E i \in DOMAIN t : DedupKey(t[i]) = DedupKey(x)
  BY <1>3 DEF Grouped
<1>5. ASSUME NEW i \in DOMAIN t PROVE \E e \in InForce : In(e, t[i])
  <2>1. PICK x \in ToSet(Rows) : DedupKey(x) = DedupKey(t[i]) /\ x.source = t[i].source
    BY <1>4
  <2>2. PICK e \in InForce : x = PendingOf(e)
    BY <1>2
  <2>3. x.source = e[2].source
    BY <2>2, PendingIs
  <2> QED
    BY <2>1, <2>2, <2>3 DEF In
<1>6. ASSUME NEW e \in InForce, NEW i \in DOMAIN t, DedupKey(PendingOf(e)) = DedupKey(t[i])
      PROVE  In(e, t[i])
  <2>1. PICK f \in InForce : In(f, t[i])
    BY <1>5
  <2>2. DedupKey(PendingOf(e)) = DedupKey(PendingOf(f)) /\ t[i].source = f[2].source
    BY <1>6, <2>1 DEF In
  <2>3. e[2].source = f[2].source
    BY <2>2, FormatsApart
  <2> QED
    BY <1>6, <2>2, <2>3 DEF In
<1>7. ASSUME NEW e \in InForce PROVE \E i \in DOMAIN t : In(e, t[i])
  <2>1. PendingOf(e) \in ToSet(Rows)
    BY <1>2
  <2>2. PICK i \in DOMAIN t : DedupKey(t[i]) = DedupKey(PendingOf(e))
    BY <1>4, <2>1
  <2> QED
    BY <1>6, <2>2
<1>8. ASSUME NEW i \in DOMAIN t, NEW k
      PROVE  k \in t[i].providers <=> \E e \in InForce : In(e, t[i]) /\ k \in PendingOf(e).providers
  <2>1. k \in t[i].providers <=>
          \E e \in InForce : DedupKey(PendingOf(e)) = DedupKey(t[i]) /\ k \in PendingOf(e).providers
    BY <1>2, <1>4
  <2>2. \A e \in InForce : DedupKey(PendingOf(e)) = DedupKey(t[i]) <=> In(e, t[i])
    BY <1>6 DEF In
  <2> QED
    BY <2>1, <2>2
<1>9. ToSet(t) = {t[i] : i \in DOMAIN t}
  BY DEF ToSet
<1> QED
  BY <1>5, <1>7, <1>8, <1>9 DEF t

-----------------------------------------------------------------------------
(* Groups at their hosts.                                                  *)

\* A host that is there and not written with a trailing dot.
Dotless(host) == host # <<>> /\ Last(host) # ""

\* All hosts a group names are.
Named(g) == \A d \in Hints(g) : Dotless(d)

\* The parameter rules name hosts without a trailing dot, and what their scopes
\* accept is at such a host.
RulesAtTheirHosts ==
  \A i \in DOMAIN store.groups :
    /\ Named(store.groups[i])
    /\ \A u \in Url : AtItsHost(store.groups[i], u)

\* A host under a named one is itself without a trailing dot.
LEMMA UnderNamed ==
  ASSUME NEW S, NEW host \in Seq(S), NEW d \in Suffixes(host), Dotless(d)
  PROVE  HostSuffixMatches(host, d)
<1>1. PICK l \in 1..Len(host) : d = SubSeq(host, l, Len(host))
  <2>1. d # <<>>
    BY DEF Dotless
  <2> QED
    BY <2>1 DEF Suffixes
<1>2. Len(host) \in Nat
  OBVIOUS
<1>3. l \in Nat \ {0} /\ l <= Len(host) + 1
  BY <1>2
<1>4. /\ Len(d) = Len(host) + 1 - l
      /\ \A k \in 1..Len(host) + 1 - l : d[k] = host[l + k - 1]
  BY <1>1, <1>2, <1>3, Merging!CutIs
<1>5. d[Len(d)] = host[Len(host)]
  <2>1. Len(host) + 1 - l \in 1..Len(host) + 1 - l /\ l + (Len(host) + 1 - l) - 1 = Len(host)
    BY <1>1, <1>2
  <2> QED
    BY <1>4, <2>1
<1>6. Last(host) # ""
  BY <1>5 DEF Last, Dotless
<1>7. TrimDot(host) = host /\ TrimDot(d) = d
  BY <1>6 DEF TrimDot, Dotless
<1> QED
  BY <1>7 DEF HostSuffixMatches

\* The index offers no group for a URL that its scopes do not cover at its host.
LEMMA ActiveCovers ==
  ASSUME Compiled, NoForeignRules, RulesAtTheirHosts, NEW u \in Url, NEW g \in ActiveGroups(store, u)
  PROVE  g \in ToSet(store.groups) /\ InScope(g, u)
<1>1. PICK i \in Candidates(store, u) : /\ g = store.groups[i]
                                        /\ ScopesMatch(store.groups[i].include, store.groups[i].exclude, u)
  BY DEF ActiveGroups
<1>2. i \in DOMAIN store.groups
  <2> DEFINE index == store.scope_index
  <2>1. index = ScopeIndex(store.groups)
    BY DEF Compiled, CompileStore
  <2> HIDE DEF index
  <2>2. i \in index.always \/ \E e \in index.suffix : e[2] = i
    BY DEF Candidates, UnderHost, index
  <2>3. \A e \in index.suffix : e[2] \in DOMAIN store.groups
    BY <2>1, ScopeIndexEntries
  <2>4. index.always \subseteq DOMAIN store.groups
    BY <2>1 DEF ScopeIndex
  <2> QED
    BY <2>2, <2>3, <2>4
<1>3. g \in ToSet(store.groups)
  BY <1>1, <1>2 DEF ToSet
<1>4. /\ g.include = {} \/ \E s \in g.include : Accepts(s, u)
      /\ ~ \E s \in g.exclude : Accepts(s, u)
  BY <1>1 DEF ScopesMatch
<1>5. Named(g) /\ AtItsHost(g, u)
  BY <1>1, <1>2 DEF RulesAtTheirHosts
<1>6. ASSUME NEW s \in g.include, Accepts(s, u)
      PROVE  \E r \in g.include : Covers(r, u)
  <2>1. CASE Hints(g) = {}
    <3>1. HostHints(s) = {}
      BY <2>1 DEF Hints
    <3> QED
      BY <1>6, <3>1 DEF Covers
  <2>2. CASE Hints(g) # {}
    <3>1. PICK d \in Hints(g) : d \in Suffixes(u.host)
      BY <2>2 DEF NoForeignRules
    <3>2. HostSuffixMatches(u.host, d)
      BY <1>5, <3>1, UnderNamed, HostsAreLabels DEF Named
    <3>3. PICK r \in g.include : d \in HostHints(r)
      BY <3>1 DEF Hints
    <3>4. CASE \A x, y \in g.include : x = y
      <4>1. r = s
        BY <3>4
      <4> QED
        BY <1>6, <3>2, <3>3, <4>1 DEF Covers
    <3>5. CASE \A x \in g.include : Accepts(x, u) => Covers(x, u)
      BY <1>6, <3>5
    <3> QED
      BY <1>5, <3>4, <3>5 DEF AtItsHost
  <2> QED
    BY <2>1, <2>2
<1> QED
  BY <1>3, <1>4, <1>6 DEF InScope

\* Nor does it keep back a uniform one that covers the URL.
LEMMA CoversActive ==
  ASSUME UniformGroupsConsidered, RulesAtTheirHosts, NEW u \in Url, ~Dotted(u),
         NEW g \in ToSet(store.groups), Uniform(g), InScope(g, u)
  PROVE  g \in ActiveGroups(store, u)
<1>1. PICK i \in DOMAIN store.groups : g = store.groups[i]
  BY DEF ToSet
<1>2. u.host = TrimDot(u.host)
  BY DEF Dotted, TrimDot
<1>3. Uniform(g) /\ Undotted(g)
  <2>1. Named(g)
    BY <1>1 DEF RulesAtTheirHosts
  <2>2. \A d \in Hints(g) : d = TrimDot(d)
    BY <2>1 DEF Named, Dotless, TrimDot
  <2> QED
    BY <2>1, <2>2 DEF Undotted
<1> QED
  BY <1>1, <1>2, <1>3 DEF UniformGroupsConsidered

-----------------------------------------------------------------------------
(* Exceptions.                                                             *)

\* The id of a rule of a provider is excepted when the provider is.
LEMMA ProviderMeans ==
  ASSUME Parsed, Compiled, NEW e \in InForce, e[2].source = "ClearUrls"
  PROVE  \E k \in DOMAIN store.providers :
           /\ PendingOf(e).providers = {k}
           /\ \A u \in Url : k \in ClearurlsExceptions(store, u) <=> GivenExcepted(e[1], e[2], u)
<1> DEFINE src == e[1]
           r == e[2]
           ids == ProviderIds(store.providers, src.name, r.provider)
<1>1. <<src, r>> \in InForce
  BY InForcePairs
<1>2. r.source = "ClearUrls"
  OBVIOUS
<1>3. PendingOf(e).providers = ids
  BY PendingIs
<1> HIDE DEF src, r
<1>4. /\ src \in ToSet(canonical) /\ r \in ToSet(src.params) /\ Enabled(r.provider, disabled)
      /\ Has(src, r.provider)
  BY <1>1, <1>2, InForceIs
<1>6. \E k \in DOMAIN store.providers :
        ids = {k} /\ \A u \in Url : Excepts(store.providers[k], u) <=> GivenExcepted(src, r, u)
  BY <1>4, IdIsProvider
<1> HIDE DEF ids
<1>7. PICK k \in DOMAIN store.providers :
        ids = {k} /\ \A u \in Url : Excepts(store.providers[k], u) <=> GivenExcepted(src, r, u)
  BY <1>6
<1>8. \A u \in Url : k \in ClearurlsExceptions(store, u) <=> GivenExcepted(src, r, u)
  BY <1>7 DEF ClearurlsExceptions
<1>9. PendingOf(e).providers = {k}
  BY <1>3, <1>7
<1> QED
  BY <1>8, <1>9 DEF src, r

\* All providers of the group, and there are some, are excepted.
GroupExcepted(g, u) ==
  g.providers # {} /\ g.providers \subseteq ClearurlsExceptions(store, u)

\* A group that many providers contributed to is spared only when all of them
\* are excepted (ruleset.rs:1470-1488), which is when every rule in it is.
LEMMA ExceptedTogether ==
  ASSUME Parsed, Compiled, NEW g \in ToSet(store.groups), NEW u \in Url
  PROVE  GroupExcepted(g, u) <=>
           /\ g.source = "ClearUrls"
           /\ \A e \in InForce : In(e, g) => GivenExcepted(e[1], e[2], u)
<1> DEFINE except == ClearurlsExceptions(store, u)
<1>1. \A k : k \in g.providers <=> \E e \in InForce : In(e, g) /\ k \in PendingOf(e).providers
  BY GroupsMean
<1>2. PICK e0 \in InForce : In(e0, g)
  BY GroupsMean
<1>3. \A e : In(e, g) => g.source = e[2].source
  BY DEF In
<1>4. CASE g.source # "ClearUrls"
  <2>1. \A e \in InForce : In(e, g) => PendingOf(e).providers = {}
    BY <1>3, <1>4, PendingIs
  <2>2. g.providers = {}
    BY <1>1, <2>1
  <2> QED
    BY <1>4, <2>2 DEF GroupExcepted
<1>5. CASE g.source = "ClearUrls"
  <2>1. \A e \in InForce : In(e, g) =>
          \E k : PendingOf(e).providers = {k} /\ (k \in except <=> GivenExcepted(e[1], e[2], u))
    BY <1>3, <1>5, ProviderMeans
  <2> HIDE DEF except
  <2>2. g.providers # {}
    BY <1>1, <1>2, <2>1
  <2>3. g.providers \subseteq except <=> \A e \in InForce : In(e, g) => GivenExcepted(e[1], e[2], u)
    BY <1>1, <2>1
  <2> QED
    BY <1>5, <2>2, <2>3 DEF GroupExcepted, except
<1> QED
  BY <1>4, <1>5

\* A rule or a group would remove the parameter if nothing were excepted.
Applies(r, u, seg, sw) ==
  ~r.exception /\ ActionEnabled(r, sw) /\ Matches(r.matcher, seg) /\ InScope(r, u)

\* What applies of a group applies of each rule in it.
LEMMA ApplyTogether ==
  ASSUME NEW e, NEW g, In(e, g), NEW u, NEW seg, NEW sw
  PROVE  /\ Applies(g, u, seg, sw) <=> Applies(e[2], u, seg, sw)
         /\ InScope(g, u) <=> InScope(e[2], u)
<1> DEFINE r == e[2]
<1>1. /\ g.source = r.source /\ g.global = r.global /\ g.referral = r.referral
      /\ g.exception = r.exception /\ g.matcher = r.matcher
      /\ g.include = r.include /\ g.exclude = r.exclude
  BY InFields
<1> HIDE DEF r
<1>2. InScope(g, u) <=> InScope(r, u)
  BY <1>1 DEF InScope
<1>3. ActionEnabled(g, sw) <=> ActionEnabled(r, sw)
  BY <1>1 DEF ActionEnabled
<1>4. Applies(g, u, seg, sw) <=> Applies(r, u, seg, sw)
  BY <1>1, <1>2, <1>3 DEF Applies
<1> QED
  BY <1>2, <1>4 DEF r

\* An exception of an AdGuard pack is in force against a rule.
Spared(r, u, seg) ==
  \E f \in InForce :
    /\ f[2].source = "AdGuard" /\ f[2].exception /\ InScope(f[2], u)
    /\ \/ f[2].all
       \/ f[2].matcher = r.matcher /\ Matches(f[2].matcher, seg)

\* A rule of an AdGuard pack has one include scope.
LEMMA OneTarget ==
  ASSUME Parsed, NEW e \in InForce, e[2].source = "AdGuard"
  PROVE  \E s \in e[2].include : e[2].include = {s}
<1> DEFINE src == e[1]
           r == e[2]
<1>1. src \in ToSet(canonical) /\ r \in ToSet(src.params) /\ r.source = "AdGuard"
  BY InForcePairs, InForceIs
<1> HIDE DEF src, r
<1>2. \E s \in r.include : r.include = {s}
  BY <1>1 DEF Parsed, IsSource
<1> QED
  BY <1>2 DEF r

\* It is in force when the group it is in is active.
LEMMA SparedTogether ==
  ASSUME Parsed, Compiled, NoForeignRules, UniformGroupsConsidered,
         RulesAtTheirHosts, NEW u \in Url, ~Dotted(u), NEW seg, NEW r
  PROVE  AdGuardExcepts(ActiveGroups(store, u), r.matcher, seg) <=> Spared(r, u, seg)
<1> DEFINE active == ActiveGroups(store, u)
           m == r.matcher
           Says(x) == /\ x.source = "AdGuard" /\ x.exception
                      /\ x.all \/ (x.matcher = m /\ Matches(x.matcher, seg))
<1>1. \A f : \A g : In(f, g) => (Says(g) <=> Says(f[2])) /\ (InScope(g, u) <=> InScope(f[2], u))
  <2> SUFFICES ASSUME NEW f, NEW g, In(f, g)
               PROVE  (Says(g) <=> Says(f[2])) /\ (InScope(g, u) <=> InScope(f[2], u))
    OBVIOUS
  <2> DEFINE x == f[2]
  <2>1. g.source = x.source /\ g.exception = x.exception /\ g.all = x.all /\ g.matcher = x.matcher
    BY InFields
  <2>2. InScope(g, u) <=> InScope(x, u)
    BY ApplyTogether
  <2> HIDE DEF x
  <2>3. Says(g) <=> Says(x)
    BY <2>1
  <2> QED
    BY <2>2, <2>3 DEF x
<1>2. AdGuardExcepts(active, m, seg) <=> \E g \in active : Says(g)
  BY DEF AdGuardExcepts
<1>3. Spared(r, u, seg) <=> \E f \in InForce : Says(f[2]) /\ InScope(f[2], u)
  BY DEF Spared
<1>4. \A g \in active : g \in ToSet(store.groups) /\ InScope(g, u)
  BY ActiveCovers
<1>5. ASSUME NEW f \in InForce, NEW g \in ToSet(store.groups), In(f, g), Says(f[2]), InScope(g, u)
      PROVE  g \in active
  <2>1. f[2].source = "AdGuard" /\ g.include = f[2].include
    BY <1>5, InFields
  <2>2. \E s \in f[2].include : f[2].include = {s}
    BY <2>1, OneTarget
  <2>3. Uniform(g)
    BY <2>1, <2>2 DEF Uniform, Hints
  <2> QED
    BY <1>5, <2>3, CoversActive
<1>6. /\ \A g \in ToSet(store.groups) : \E f \in InForce : In(f, g)
      /\ \A f \in InForce : \E g \in ToSet(store.groups) : In(f, g)
  BY GroupsMean
<1> HIDE DEF active, Says
<1>7. (\E g \in active : Says(g)) <=> \E f \in InForce : Says(f[2]) /\ InScope(f[2], u)
  BY <1>1, <1>4, <1>5, <1>6
<1> QED
  BY <1>2, <1>3, <1>7 DEF active, m

-----------------------------------------------------------------------------
(* What is decided.                                                        *)

\* A group removes the parameter.
GroupRemoves(g, u, seg, sw) ==
  /\ Applies(g, u, seg, sw)
  /\ ~(g.legacy /\ ClearurlsExceptions(store, u) # {})
  /\ ~GroupExcepted(g, u)
  /\ ~(g.source = "AdGuard" /\ AdGuardExcepts(ActiveGroups(store, u), g.matcher, seg))

\* What one rule removes, in the terms of groups.
LEMMA RemovesIs ==
  ASSUME NEW e, NEW u, NEW seg, NEW sw
  PROVE  Removes(e, u, seg, sw) <=>
           /\ Applies(e[2], u, seg, sw)
           /\ ~(e[2].source = "ClearUrls" /\ GivenExcepted(e[1], e[2], u))
           /\ ~(/\ e[2].source = "ClearUrls" /\ e[2].global /\ e[1].name = "builtin"
                /\ ExceptedGlobally(u))
           /\ ~(e[2].source = "AdGuard" /\ Spared(e[2], u, seg))
BY DEF Removes, Applies, Spared

\* should_remove_parameter asks the active groups, which cover the URL.
LEMMA ShouldRemoveIs ==
  ASSUME Compiled, NoForeignRules, RulesAtTheirHosts, NEW u \in Url, NEW seg, NEW sw
  PROVE  ShouldRemove(ActiveGroups(store, u), ClearurlsExceptions(store, u), seg, sw)
           <=> \E g \in ActiveGroups(store, u) : GroupRemoves(g, u, seg, sw)
<1> DEFINE active == ActiveGroups(store, u)
           except == ClearurlsExceptions(store, u)
<1>1. \A g \in active : InScope(g, u)
  BY ActiveCovers
<1>2. \A g \in active :
        GroupRemoves(g, u, seg, sw) <=>
          /\ ~g.exception /\ ActionEnabled(g, sw) /\ Matches(g.matcher, seg)
          /\ ~(g.legacy /\ except # {})
          /\ ~(g.providers # {} /\ g.providers \subseteq except)
          /\ ~(g.source = "AdGuard" /\ AdGuardExcepts(active, g.matcher, seg))
  <2> HIDE DEF active
  <2>1. \A g \in active : InScope(g, u)
    BY <1>1
  <2> QED
    BY <2>1 DEF GroupRemoves, Applies, GroupExcepted, active
<1> HIDE DEF active, except
<1>3. ShouldRemove(active, except, seg, sw) <=> \E g \in active : GroupRemoves(g, u, seg, sw)
  BY <1>2 DEF ShouldRemove
<1> QED
  BY <1>3 DEF active, except

\* A group removes exactly what some rule in it removes.
LEMMA RemoveTogether ==
  ASSUME Parsed, Compiled, NoForeignRules, UniformGroupsConsidered,
         RulesAtTheirHosts, NEW u \in Url, ~Dotted(u), NEW g \in ToSet(store.groups), NEW seg, NEW sw
  PROVE  GroupRemoves(g, u, seg, sw)
           <=> \E e \in InForce : In(e, g) /\ Removes(e, u, seg, sw)
<1> DEFINE legacy == g.legacy /\ ClearurlsExceptions(store, u) # {}
           spared == g.source = "AdGuard" /\ AdGuardExcepts(ActiveGroups(store, u), g.matcher, seg)
           applies == Applies(g, u, seg, sw)
           direct == g.source = "ClearUrls"
<1>1. ASSUME NEW e \in InForce, In(e, g)
      PROVE  /\ Applies(e[2], u, seg, sw) <=> applies
             /\ e[2].source = g.source
             /\ (/\ e[2].source = "ClearUrls" /\ e[2].global /\ e[1].name = "builtin"
                 /\ ExceptedGlobally(u)) <=> legacy
             /\ (e[2].source = "AdGuard" /\ Spared(e[2], u, seg)) <=> spared
  <2>1. Applies(e[2], u, seg, sw) <=> applies
    BY <1>1, ApplyTogether
  <2>2. /\ e[2].source = g.source /\ e[2].matcher = g.matcher
        /\ g.legacy = (e[2].source = "ClearUrls" /\ e[2].global /\ e[1].name = "builtin")
    BY <1>1, InFields
  <2>3. ClearurlsExceptions(store, u) # {} <=> ExceptedGlobally(u)
    BY ExceptionsMean
  <2>4. AdGuardExcepts(ActiveGroups(store, u), e[2].matcher, seg) <=> Spared(e[2], u, seg)
    BY SparedTogether
  <2>5. (/\ e[2].source = "ClearUrls" /\ e[2].global /\ e[1].name = "builtin"
         /\ ExceptedGlobally(u)) <=> legacy
    BY <2>2, <2>3
  <2>6. (e[2].source = "AdGuard" /\ Spared(e[2], u, seg)) <=> spared
    BY <2>2, <2>4
  <2> QED
    BY <2>1, <2>2, <2>5, <2>6
<1>2. GroupRemoves(g, u, seg, sw) <=> applies /\ ~legacy /\ ~GroupExcepted(g, u) /\ ~spared
  BY DEF GroupRemoves
<1>3. GroupExcepted(g, u) <=>
        direct /\ \A e \in InForce : In(e, g) => GivenExcepted(e[1], e[2], u)
  BY ExceptedTogether
<1>4. \E e \in InForce : In(e, g)
  BY GroupsMean
<1>5. \A e \in InForce : In(e, g) =>
        (Removes(e, u, seg, sw) <=>
           applies /\ ~legacy /\ ~spared /\ ~(direct /\ GivenExcepted(e[1], e[2], u)))
  <2> HIDE DEF applies, legacy, spared
  <2> SUFFICES ASSUME NEW e \in InForce, In(e, g)
               PROVE  Removes(e, u, seg, sw) <=>
                        applies /\ ~legacy /\ ~spared /\ ~(direct /\ GivenExcepted(e[1], e[2], u))
    OBVIOUS
  <2> QED
    BY <1>1, RemovesIs
<1> HIDE DEF applies, legacy, spared, direct
<1> QED
  BY <1>2, <1>3, <1>4, <1>5

\* Whatever packs are loaded, merged and disabled, should_remove_parameter
\* (ruleset.rs:1455-1501) removes a parameter only when some rule in force, read
\* on its own from its pack, removes it, and whenever one does that names hosts in
\* all its scopes or in none: deduplication and the host index change nothing else.
\* It takes rules that the index finds by hosts without a trailing dot and that
\* match there.
THEOREM RulesAreDecided == Spec => [](RulesAtTheirHosts => RulesDecide)
<1>1. Compiled /\ Parsed /\ NoForeignRules /\ UniformGroupsConsidered
        => (RulesAtTheirHosts => RulesDecide)
  <2> SUFFICES ASSUME Compiled, Parsed, NoForeignRules, UniformGroupsConsidered,
                      RulesAtTheirHosts,
                      NEW u \in Url, ~Dotted(u), NEW seg \in Segment, NEW sw \in Switch
               PROVE  LET removed == ShouldRemove(ActiveGroups(store, u), ClearurlsExceptions(store, u), seg, sw)
                      IN /\ removed => \E e \in InForce : Removes(e, u, seg, sw)
                         /\ \A e \in InForce : Uniform(e[2]) /\ Removes(e, u, seg, sw) => removed
    BY DEF RulesDecide
  <2> DEFINE removed == ShouldRemove(ActiveGroups(store, u), ClearurlsExceptions(store, u), seg, sw)
  <2>1. removed <=> \E g \in ActiveGroups(store, u) : GroupRemoves(g, u, seg, sw)
    BY ShouldRemoveIs
  <2>2. \A g \in ActiveGroups(store, u) : g \in ToSet(store.groups)
    BY ActiveCovers
  <2>3. \A g \in ToSet(store.groups) : Uniform(g) /\ InScope(g, u) => g \in ActiveGroups(store, u)
    BY CoversActive
  <2>4. \A g : GroupRemoves(g, u, seg, sw) => InScope(g, u)
    BY DEF GroupRemoves, Applies
  <2>5. \A g \in ToSet(store.groups) :
          GroupRemoves(g, u, seg, sw) <=> \E e \in InForce : In(e, g) /\ Removes(e, u, seg, sw)
    BY RemoveTogether
  <2> HIDE DEF removed
  <2>6. removed => \E e \in InForce : Removes(e, u, seg, sw)
    BY <2>1, <2>2, <2>5
  <2>7. ASSUME NEW e \in InForce, Uniform(e[2]), Removes(e, u, seg, sw) PROVE removed
    <3>1. PICK g \in ToSet(store.groups) : In(e, g)
      BY GroupsMean
    <3>2. g.include = e[2].include
      BY <3>1, InFields
    <3>3. Uniform(g)
      BY <2>7, <3>2 DEF Uniform, Hints
    <3>4. GroupRemoves(g, u, seg, sw)
      BY <2>5, <2>7, <3>1
    <3> QED
      BY <2>1, <2>3, <2>4, <3>3, <3>4
  <2> QED
    BY <2>6, <2>7 DEF removed
<1> QED
  BY <1>1, StoreIsCompiled, SourcesAreParsed, ForeignRulesNeverAct, UniformGroupsAct, PTL

\* The exceptions a rule answers to are never undone by a duplicate or by another
\* provider that shares the rule, whatever is merged or disabled: where all rules
\* that would remove the parameter are of excepted providers, it stays, for hosts
\* with a trailing dot as well.  Which provider a rule answers to, of several of
\* one name in sources of one name, does change with a merge: it is the last
\* (ruleset.rs:1667), so that the exceptions of its own need not hold.
THEOREM ExceptionsAlwaysHold == Spec => [](RulesAtTheirHosts => GivenExceptionsHold)
<1>1. Compiled /\ Parsed /\ NoForeignRules => (RulesAtTheirHosts => GivenExceptionsHold)
  <2> SUFFICES ASSUME Compiled, Parsed, NoForeignRules, RulesAtTheirHosts,
                      NEW u \in Url, NEW seg \in Segment, NEW sw \in Switch,
                      \A e \in {f \in InForce : Matches(f[2].matcher, seg) /\ InScope(f[2], u)} :
                        e[2].source = "ClearUrls" /\ GivenExcepted(e[1], e[2], u)
               PROVE  ~ShouldRemove(ActiveGroups(store, u), ClearurlsExceptions(store, u), seg, sw)
    BY DEF GivenExceptionsHold, Spare
  <2>1. ASSUME NEW g \in ActiveGroups(store, u), GroupRemoves(g, u, seg, sw)
        PROVE  FALSE
    <3>1. g \in ToSet(store.groups)
      BY ActiveCovers
    <3>2. Applies(g, u, seg, sw) /\ ~GroupExcepted(g, u)
      BY <2>1 DEF GroupRemoves
    <3>3. \A e \in InForce : In(e, g) => e[2].source = "ClearUrls" /\ GivenExcepted(e[1], e[2], u)
      <4>1. \A e \in InForce : In(e, g) => Applies(e[2], u, seg, sw)
        BY <3>2, ApplyTogether
      <4>2. \A e \in InForce : Applies(e[2], u, seg, sw) =>
              e[2].source = "ClearUrls" /\ GivenExcepted(e[1], e[2], u)
        BY DEF Applies
      <4> QED
        BY <4>1, <4>2
    <3>4. g.source = "ClearUrls"
      <4>1. PICK e \in InForce : In(e, g)
        BY <3>1, GroupsMean
      <4> QED
        BY <3>3, <4>1 DEF In
    <3> QED
      BY <3>1, <3>2, <3>3, <3>4, ExceptedTogether
  <2> QED
    BY <2>1, ShouldRemoveIs
<1> QED
  BY <1>1, StoreIsCompiled, SourcesAreParsed, ForeignRulesNeverAct, PTL

=============================================================================
