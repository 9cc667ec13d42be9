----------------------------- MODULE RegexIndex ----------------------------
(***************************************************************************)
(* The two indexes of the compiled store (src/ruleset.rs) that stand for   *)
(* matching patterns one by one: the tries of the provider patterns that   *)
(* are a literal after "https?://", and the batches of regular expressions *)
(* that are compiled and matched as sets.                                  *)
(*                                                                         *)
(* A text is a sequence of characters, lower case and ASCII.               *)
(***************************************************************************)
EXTENDS Naturals, Sequences, SequencesExt, FiniteSetsExt

CONSTANTS
  Letters,          \* the characters a host label is made of
  ChunkPatterns,    \* MAX_REGEX_CHUNK_PATTERNS
  ChunkBytes,       \* MAX_REGEX_CHUNK_BYTES
  PatternBytes,     \* MAX_REGEX_PATTERN_BYTES
  SetSize           \* the size limit of a compiled RegexSet

-----------------------------------------------------------------------------
(* DirectProviderTrie.  A node has its children by character, and the      *)
(* providers whose literal ends there.                                     *)

NewNode == [edges |-> [x \in {} |-> 0], matches |-> {}]

\* The nodes with a literal added, as the loop over its characters leaves them.
Insert(nodes, literal, provider) ==
  LET step(acc, x) ==
        IF x \in DOMAIN acc.nodes[acc.node].edges
        THEN [acc EXCEPT !.node = acc.nodes[acc.node].edges[x]]
        ELSE LET next == Len(acc.nodes) + 1 IN
             [nodes |-> Append([acc.nodes EXCEPT ![acc.node].edges =
                                  [y \in DOMAIN @ \cup {x} |-> IF y = x THEN next ELSE @[y]]],
                               NewNode),
              node |-> next]
      end == FoldLeft(step, [nodes |-> nodes, node |-> 1], literal)
  IN [end.nodes EXCEPT ![end.node].matches = @ \cup {provider}]

\* The flat form: every node's edges and matches, one after the other.
Flatten(nodes) ==
  LET place(acc, n) ==
        [nodes |-> Append(acc.nodes, [edge_start |-> Len(acc.edges),
                                      edge_len |-> Cardinality(DOMAIN n.edges),
                                      match_start |-> Len(acc.matches),
                                      match_len |-> Cardinality(n.matches)]),
         edges |-> acc.edges \o SetToSeq({<<x, n.edges[x]>> : x \in DOMAIN n.edges}),
         matches |-> acc.matches \o SetToSeq(n.matches)]
  IN FoldLeft(place, [nodes |-> <<>>, edges |-> <<>>, matches |-> <<>>], nodes)

\* DirectProviderTrie::new, of pairs of a literal and a provider.
Trie(patterns) == Flatten(FoldLeft(LAMBDA ns, p : Insert(ns, p[1], p[2]), <<NewNode>>, patterns))

\* mark_matches.
MarkMatches(trie, n) ==
  {trie.matches[k] : k \in n.match_start + 1..n.match_start + n.match_len}

\* match_at: the providers met on the way from the root.
MatchAt(trie, value, start) ==
  LET step(acc, x) ==
        LET n == trie.nodes[acc.node]
            taken == {k \in n.edge_start + 1..n.edge_start + n.edge_len : trie.edges[k][1] = x}
        IN IF acc.stuck \/ taken = {} THEN [acc EXCEPT !.stuck = TRUE]
           ELSE LET next == trie.edges[CHOOSE k \in taken : TRUE][2] IN
                [acc EXCEPT !.node = next, !.marked = @ \cup MarkMatches(trie, trie.nodes[next])]
  IN FoldLeft(step, [node |-> 1, stuck |-> FALSE, marked |-> MarkMatches(trie, trie.nodes[1])],
              SubSeq(value, start, Len(value))).marked

-----------------------------------------------------------------------------
(* DirectProviderIndex.  A direct provider is [literals, subdomains].      *)

\* build_direct_provider_index: the literals of the providers of either kind.
LiteralsOf(providers, subdomains) ==
  FlattenSeq([p \in DOMAIN providers |->
    IF providers[p].subdomains # subdomains THEN <<>>
    ELSE [l \in DOMAIN providers[p].literals |-> <<providers[p].literals[l], p>>]])

BuildDirectProviderIndex(providers) ==
  [anchored |-> Trie(LiteralsOf(providers, FALSE)), subdomains |-> Trie(LiteralsOf(providers, TRUE))]

\* match_ascii, on what follows the scheme: the anchored literals at its start,
\* the others there and after every label, as far as the labels go.
MatchAscii(index, tail) ==
  LET step(acc, k) ==
        IF acc.done THEN acc
        ELSE IF tail[k] = "."
        THEN IF k = acc.label THEN [acc EXCEPT !.done = TRUE]
             ELSE [acc EXCEPT !.label = k + 1,
                              !.marked = @ \cup MatchAt(index.subdomains, tail, k + 1)]
        ELSE [acc EXCEPT !.done = tail[k] \notin Letters]
      begun == MatchAt(index.anchored, tail, 1) \cup MatchAt(index.subdomains, tail, 1)
  IN FoldLeft(step, [label |-> 1, done |-> FALSE, marked |-> begun],
              [k \in DOMAIN tail |-> k]).marked

\* provider_direct_matches: one literal on a text with other characters, where
\* the tries are not used.
ProviderDirectMatches(literal, subdomains, tail) ==
  LET step(acc, k) ==
        IF acc.done THEN acc
        ELSE IF tail[k] = "."
        THEN IF k = acc.label THEN [acc EXCEPT !.done = TRUE]
             ELSE IF IsPrefix(literal, SubSeq(tail, k + 1, Len(tail)))
             THEN [acc EXCEPT !.done = TRUE, !.found = TRUE]
             ELSE [acc EXCEPT !.label = k + 1]
        ELSE [acc EXCEPT !.done = tail[k] \notin Letters]
  IN \/ IsPrefix(literal, tail)
     \/ /\ subdomains
        /\ FoldLeft(step, [label |-> 1, done |-> FALSE, found |-> FALSE],
                    [k \in DOMAIN tail |-> k]).found

-----------------------------------------------------------------------------
(* Batches.  A pattern is [text, bytes, size, valid, kind]: the length of  *)
(* its text, the size of its program, whether it compiles at all, and what *)
(* must be equal in a set (its subject, its case, its need of an equals    *)
(* sign).                                                                  *)

\* RegexSet::new.
Compiles(patterns) ==
  /\ \A p \in Range(patterns) : p.valid
  /\ FoldLeft(LAMBDA n, p : n + p.size, 0, patterns) <= SetSize

Nowhere == <<0, 0>>

NoBatches(n) == [chunks |-> <<>>, refs |-> [k \in 1..n |-> Nowhere], failed |-> 0]

\* compile_regex_batch, on pairs of an index and a pattern: a set of all of
\* them, or of the halves of what is no set.
RECURSIVE CompileRegexBatch(_, _)
CompileRegexBatch(acc, entries) ==
  LET patterns == [k \in DOMAIN entries |-> entries[k][2]]
      chunk == Len(acc.chunks) + 1
      half == Len(entries) \div 2
  IN IF Compiles(patterns)
     THEN [acc EXCEPT
            !.chunks = Append(@, patterns),
            !.refs = FoldLeft(LAMBDA r, k : [r EXCEPT ![entries[k][1]] = <<chunk, k>>],
                              @, [k \in DOMAIN entries |-> k])]
     ELSE IF Len(entries) = 1 THEN [acc EXCEPT !.failed = @ + 1]
     ELSE CompileRegexBatch(CompileRegexBatch(acc, SubSeq(entries, 1, half)),
                            SubSeq(entries, half + 1, Len(entries)))

\* Variant of EndBatch that starts the next one after the pattern it is for.
EndBatchLate(acc, entries, k, next) ==
  [built |-> IF acc.start < k
             THEN CompileRegexBatch(acc.built, SubSeq(entries, acc.start, k - 1)) ELSE acc.built,
   start |-> k + 1, bytes |-> 0]

\* The batch before entry k is compiled and one that starts at next begun.
EndBatch(acc, entries, k, next) ==
  [built |-> IF acc.start < k
             THEN CompileRegexBatch(acc.built, SubSeq(entries, acc.start, k - 1)) ELSE acc.built,
   start |-> next, bytes |-> 0]

\* A batch is full: of bytes, unless it is empty, or of patterns.
Full(acc, entries, k) ==
  \/ acc.start < k /\ acc.bytes + entries[k][2].bytes > ChunkBytes
  \/ k - acc.start >= ChunkPatterns

Enter(acc, entries, k) ==
  LET room == IF Full(acc, entries, k) THEN EndBatch(acc, entries, k, k) ELSE acc
  IN [room EXCEPT !.bytes = @ + entries[k][2].bytes]

Indices(s) == [k \in DOMAIN s |-> k]

LastBatch(acc, entries) == EndBatch(acc, entries, Len(entries) + 1, Len(entries) + 1).built

Opened(built) == [built |-> built, start |-> 1, bytes |-> 0]

\* compile_indexed_regexes: the patterns of providers and their exceptions.
CompileIndexedRegexes(patterns) ==
  LET entries == [k \in DOMAIN patterns |-> <<k, patterns[k]>>]
  IN LastBatch(FoldLeft(LAMBDA acc, k : Enter(acc, entries, k),
                        Opened(NoBatches(Len(patterns))), Indices(entries)),
               entries)

\* The patterns of one kind, of which a long one ends a batch and is left out.
CompileGroup(built, entries) ==
  LET step(acc, k) ==
        IF entries[k][2].bytes <= PatternBytes THEN Enter(acc, entries, k)
        ELSE LET ended == EndBatch(acc, entries, k, k + 1)
             IN [ended EXCEPT !.built.failed = @ + 1]
  IN LastBatch(FoldLeft(step, Opened(built), Indices(entries)), entries)

\* compile_regex_chunks: the regular expressions among the parameter rules.
CompileRegexChunks(pending) ==
  LET regexes == SelectSeq([k \in DOMAIN pending |-> <<k, pending[k]>>],
                           LAMBDA e : e[2].kind # "exact")
      kinds == SetToSeq({e[2].kind : e \in Range(regexes)})
  IN FoldLeft(LAMBDA built, kind :
                CompileGroup(built, SelectSeq(regexes, LAMBDA e : e[2].kind = kind)),
              NoBatches(Len(pending)), kinds)

\* compile_matcher: a regular expression without a place in a set is no rule.
CompileMatcher(p, place) ==
  CASE p.kind = "exact" -> <<[kind |-> "exact", text |-> p.text]>>
    [] p.kind # "exact" /\ place # Nowhere -> <<[kind |-> p.kind, chunk |-> place[1], index |-> place[2]]>>
    [] OTHER -> <<>>

-----------------------------------------------------------------------------
(* What the indexes must agree with.                                       *)

\* ^https?://(?:[a-z0-9-]+\.)*?literal: after some labels, none empty.
DirectDenotes(literal, subdomains, tail) ==
  \E k \in 1..Len(tail) + 1 :
    /\ IsPrefix(literal, SubSeq(tail, k, Len(tail)))
    /\ k = 1 \/ /\ subdomains /\ tail[k - 1] = "."
                /\ \A j \in 1..k - 1 :
                     \/ tail[j] \in Letters
                     \/ tail[j] = "." /\ j > 1 /\ tail[j - 1] \in Letters

\* A provider is marked exactly when a literal of it stands where its pattern
\* says, in the tries and in the search that is used on other texts.
TrieAgrees(providers, tails) ==
  LET index == BuildDirectProviderIndex(providers) IN
  \A tail \in tails :
    LET marked == MatchAscii(index, tail) IN
    \A p \in DOMAIN providers :
      LET denoted(l) == DirectDenotes(providers[p].literals[l], providers[p].subdomains, tail) IN
      /\ p \in marked <=> \E l \in DOMAIN providers[p].literals : denoted(l)
      /\ \A l \in DOMAIN providers[p].literals :
           ProviderDirectMatches(providers[p].literals[l], providers[p].subdomains, tail) <=> denoted(l)

\* A reference leads to the pattern it was made for, of its kind and nothing
\* else; the patterns without one are those that are no set on their own, and
\* are counted; and no set has more patterns or text than it may.
BatchesKeep(built, patterns, longest) ==
  LET alone(p) == Compiles(<<p>>) /\ p.bytes <= longest
      regexes == {k \in DOMAIN patterns : patterns[k].kind # "exact"}
  IN /\ \A k \in regexes :
          LET place == built.refs[k] IN
          IF alone(patterns[k])
          THEN /\ place[1] \in DOMAIN built.chunks /\ place[2] \in DOMAIN built.chunks[place[1]]
               /\ built.chunks[place[1]][place[2]] = patterns[k]
               /\ \A p \in Range(built.chunks[place[1]]) : p.kind = patterns[k].kind
               /\ \A j \in regexes \ {k} : built.refs[j] # place
          ELSE place = Nowhere
     /\ built.failed = Cardinality({k \in regexes : ~alone(patterns[k])})
     /\ \A chunk \in Range(built.chunks) :
          /\ Len(chunk) <= ChunkPatterns
          /\ Len(chunk) > 1 => FoldLeft(LAMBDA n, p : n + p.bytes, 0, chunk) <= ChunkBytes

BatchesAgree(patterns) ==
  /\ BatchesKeep(CompileRegexChunks(patterns), patterns, PatternBytes)
  /\ LET provided == [k \in DOMAIN patterns |-> [patterns[k] EXCEPT !.kind = "provider"]]
     IN BatchesKeep(CompileIndexedRegexes(provided), provided, ChunkBytes * ChunkBytes)
  /\ \A k \in DOMAIN patterns :
       LET built == CompileRegexChunks(patterns)
       IN CompileMatcher(patterns[k], built.refs[k]) = <<>>
            <=> built.refs[k] = Nowhere /\ patterns[k].kind # "exact"

=============================================================================
