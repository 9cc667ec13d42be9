----------------------------- MODULE UrlScopes -----------------------------
(***************************************************************************)
(* Which URLs a rule is written for: the scopes of src/ruleset.rs, the     *)
(* matchers that evaluate them on the text of a URL, and the host hints    *)
(* the indexes of the store are built from.                                *)
(*                                                                         *)
(* Text is a sequence of tokens: "https", "://", ".", "/" and whole host   *)
(* labels or words, so a pattern never ends inside a label.  A host is the *)
(* sequence of its labels, with an empty last label when it is written     *)
(* with a trailing dot, which the URL parser keeps.  Case is left out.     *)
(***************************************************************************)
EXTENDS Naturals, Sequences, SequencesExt

Punctuation == {"https", "://", ".", "/", "*", "?", "^", "|", "||"}

Separator == {"://", "/"}

\* A host written out.
HostText(host) ==
  FoldLeft(LAMBDA text, i :
             text \o (IF i = 1 THEN <<>> ELSE <<".">>)
                  \o (IF host[i] = "" THEN <<>> ELSE <<host[i]>>),
           <<>>, [i \in 1..Len(host) |-> i])

\* The text of a URL: its host, and the rest after the host.
Text(u) == <<"https", "://">> \o HostText(u.host) \o <<"/">> \o u.rest

\* str::split('.') on a host made of labels and dots.
Labels(tokens) ==
  FoldLeft(LAMBDA ls, t : IF t = "." THEN Append(ls, "")
                                     ELSE [ls EXCEPT ![Len(ls)] = t],
           <<"">>, tokens)

\* Host::trim_end_matches('.').
TrimDot(host) == IF Len(host) > 1 /\ Last(host) = "" THEN Front(host) ELSE host

\* host_suffix_matches: the domain itself or anything under it.
HostSuffixMatches(host, domain) == TrimDot(domain) \in Suffixes(TrimDot(host))

-----------------------------------------------------------------------------
(* glob_matches and adguard_glob_matches_at: one pass with a single place  *)
(* to return to, the last star met.                                        *)

\* Where the two matchers are in pattern and text; star = 0 before any star.
Place(p, v) == (1..Len(p) + 1) \X (1..Len(v) + 1) \X (0..Len(p)) \X (1..Len(v) + 1)

\* The loop of both, for the tokens one pattern token Takes, the pattern
\* tokens that match AtEnd of the text, and a text accepted only ToTheEnd.
GlobLoop(p, v, Takes(_, _), AtEnd, toTheEnd) ==
  LET match[s \in Place(p, v)] ==
        LET i == s[1]  j == s[2]
            more == i <= Len(p)
        IN CASE ~more /\ (~toTheEnd \/ j > Len(v)) -> TRUE
             [] more /\ p[i] = "*" -> match[<<i + 1, j, i, j>>]
             [] more /\ p[i] \in AtEnd /\ j > Len(v) -> match[<<i + 1, j, s[3], s[4]>>]
             [] more /\ p[i] # "*" /\ j <= Len(v) /\ Takes(p[i], v[j]) ->
                  match[<<i + 1, j + 1, s[3], s[4]>>]
             [] OTHER -> IF s[3] = 0 \/ s[4] > Len(v) THEN FALSE
                         ELSE match[<<s[3] + 1, s[4] + 1, s[3], s[4] + 1>>]
  IN match[<<1, 1, 0, 1>>]

\* Brave's "*" and "?".
GlobMatches(p, v) ==
  GlobLoop(p, v, LAMBDA t, c : t = "?" \/ t = c, {}, TRUE)

\* Variant of AdGuardGlobMatchesAt in which "^" wants a separator.
AdGuardGlobMatchesAtNoEnd(p, v, toTheEnd) ==
  GlobLoop(p, v, LAMBDA t, c : IF t = "^" THEN c \in Separator ELSE t = c, {}, toTheEnd)

\* AdGuard's "*", and "^" for a separator or the end of the URL.
AdGuardGlobMatchesAt(p, v, toTheEnd) ==
  GlobLoop(p, v, LAMBDA t, c : IF t = "^" THEN c \in Separator ELSE t = c, {"^"}, toTheEnd)

From(v, i) == SubSeq(v, i, Len(v))

\* What a pattern denotes: the tokens after a star match somewhere, those of
\* every other pattern token in place.
Denotes(p, v, Takes(_, _), AtEnd, toTheEnd) ==
  LET d[i \in 1..Len(p) + 1, j \in 1..Len(v) + 1] ==
        IF i > Len(p) THEN toTheEnd => j > Len(v)
        ELSE \/ p[i] = "*" /\ \E k \in j..Len(v) + 1 : d[i + 1, k]
             \/ p[i] # "*" /\ j <= Len(v) /\ Takes(p[i], v[j]) /\ d[i + 1, j + 1]
             \/ p[i] \in AtEnd /\ j > Len(v) /\ d[i + 1, j]
  IN d[1, 1]

\* Where a name may start in an authority of the text: after the scheme and
\* after each dot up to the path.
NameStarts(v) ==
  {i \in 1..Len(v) :
     \E s \in 1..i - 2 :
       /\ v[s] = "https" /\ v[s + 1] = "://"
       /\ \A k \in s + 2..i - 1 : v[k] # "/"
       /\ i = s + 2 \/ v[i - 1] = "."}

\* adguard_target_matches.
AdGuardTargetMatches(p, v) ==
  LET anchor == IF p # <<>> THEN p[1] ELSE ""
      front  == IF anchor \in {"|", "||"} THEN 2 ELSE 1
      toEnd  == p # <<>> /\ Last(p) \in {"|", "||"}
      body   == SubSeq(p, front, IF toEnd THEN Len(p) - 1 ELSE Len(p))
      starts == CASE anchor = "||" -> NameStarts(v)
                  [] anchor = "|" -> {1}
                  [] OTHER -> 1..Len(v) + 1
  IN \E i \in starts : AdGuardGlobMatchesAt(body, From(v, i), toEnd)

-----------------------------------------------------------------------------
(* Provider patterns of ClearURLs packs.                                   *)

\* DirectProviderIndex::match_ascii on one literal: it is looked for at the
\* start of the authority and, with subdomains, after every label.
DirectMatches(scope, v) ==
  LET tail == From(v, 3)
  IN \E i \in 1..Len(tail) :
       /\ IsPrefix(scope.literal, From(tail, i))
       /\ \/ i = 1
          \/ /\ scope.subdomains /\ tail[i - 1] = "."
             /\ \A k \in 1..i - 1 :
                  IF k % 2 = 1 THEN tail[k] \notin Punctuation ELSE tail[k] = "."

\* Any other pattern is a regex, searched for in the whole URL.
RegexMatches(literal, v) == \E i \in 1..Len(v) : IsPrefix(literal, From(v, i))

-----------------------------------------------------------------------------
(* Scopes.                                                                 *)

AnyScope == [kind |-> "any"]
Glob(pattern) == [kind |-> "glob", pattern |-> pattern]
AdGuardTarget(pattern, domains) ==
  [kind |-> "adguard", pattern |-> pattern, domains |-> domains]
Direct(literal, subdomains) ==
  [kind |-> "direct", literal |-> literal, subdomains |-> subdomains]
Pattern(literal) == [kind |-> "regex", literal |-> literal]

\* CompiledScope::matches.
Accepts(scope, u) ==
  CASE scope.kind = "any" -> TRUE
    [] scope.kind = "glob" -> GlobMatches(scope.pattern, Text(u))
    [] scope.kind = "adguard" ->
         /\ AdGuardTargetMatches(scope.pattern, Text(u))
         /\ \/ scope.domains = {}
            \/ \E d \in scope.domains : HostSuffixMatches(u.host, d)
    [] scope.kind = "direct" -> DirectMatches(scope, Text(u))
    [] scope.kind = "regex" -> RegexMatches(scope.literal, Text(u))

\* scopes_match.
ScopesMatch(include, exclude, u) ==
  /\ include = {} \/ \E s \in include : Accepts(s, u)
  /\ ~\E s \in exclude : Accepts(s, u)

\* The tokens of s up to the first one in stops.
UpTo(s, stops) ==
  SubSeq(s, 1, SelectInSeq(Append(s, CHOOSE t \in stops : TRUE), LAMBDA t : t \in stops) - 1)

\* extract_glob_host_suffix: the host after the scheme, a leading "*." aside,
\* when nothing else in it is a wildcard.
GlobHost(p) ==
  LET scheme == SelectInSeq(p, LAMBDA t : t = "://")
      host   == UpTo(From(p, scheme + 1), {"/", "?"})
      bare   == IF IsPrefix(<<"*", ".">>, host) THEN From(host, 3) ELSE host
  IN IF \/ scheme = 0 \/ bare = <<>>
        \/ \E i \in 1..Len(bare) : bare[i] \in Punctuation \ {"."}
     THEN {} ELSE {Labels(bare)}

\* extract_adguard_host: what follows "||".
AdGuardHost(p) ==
  LET host == UpTo(From(p, 2), {"/", "^", "*", "|"})
  IN IF p = <<>> \/ p[1] # "||" \/ host = <<>> THEN {} ELSE {Labels(host)}

\* CompiledScope::for_each_host_hint.
HostHints(scope) ==
  CASE scope.kind = "glob" -> GlobHost(scope.pattern)
    [] scope.kind = "adguard" ->
         IF scope.domains # {} THEN scope.domains ELSE AdGuardHost(scope.pattern)
    [] OTHER -> {}

=============================================================================
