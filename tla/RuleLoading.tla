---------------------------- MODULE RuleLoading -----------------------------
(***************************************************************************)
(* Finalizing a configuration (src/config.rs) and the RulesetBuilder it    *)
(* feeds (src/ruleset.rs).  The caller may change the list of configured   *)
(* sources and finalize again; finalize() returns at once when nothing     *)
(* that matters has changed.  Otherwise every source is loaded in turn and *)
(* goes through two layers of limits: those of build_ruleset_with_loader,  *)
(* which count external sources only, and those of the builder, which      *)
(* count the built-in pack as well.                                        *)
(*                                                                         *)
(* A pack is its size and what its content turns out to be; a loader may   *)
(* fail, or return a different pack each time it is asked.                 *)
(***************************************************************************)
EXTENDS Naturals, Sequences, SequencesExt, Selection

CONSTANTS
  Source,         \* names of external sources
  Configs,        \* configurations of the lists of sources, see Config
  Sizes,          \* sizes a pack can have, in bytes
  Contents,       \* what the bytes of a pack can be, see SkippedFor
  BuiltinBytes,   \* size of rules/builtin.json
  MaxPackBytes,   \* rule_limits.max_rule_pack_bytes
  MaxTotalBytes,  \* rule_limits.max_total_rule_pack_bytes
  MaxSources,     \* rule_limits.max_rule_pack_sources
  Builtin,        \* the name "builtin"
  MaxEdits        \* bound: changes of the configuration

ASSUME LimitsAreNaturals ==
  /\ Sizes \subseteq Nat
  /\ BuiltinBytes \in Nat /\ MaxPackBytes \in Nat /\ MaxTotalBytes \in Nat
  /\ MaxSources \in Nat /\ MaxEdits \in Nat

\* The fields that name sources.  A name may occur twice, and it may be the one
\* that the built-in pack goes by.
Config == [rule_packs : Seq(Source), rule_pack_urls : Seq(Source), rule_pack_sources : Seq(Source)]

ASSUME SourcesAreListed == Configs \subseteq Config

\* What a pack's bytes are, and the reason for which it is skipped, if any.
SkippedFor ==
  [rules |-> "none", not_utf8 |-> "Parse", unrecognised |-> "UnknownFormat",
   malformed |-> "Parse", many_rules |-> "RuleLimit", many_regexes |-> "RegexLimit"]

ASSUME ContentsAreKnown == Contents \subseteq DOMAIN SkippedFor

VARIABLES
  configured,        \* the configuration
  key,               \* finalization_key: the one the active ruleset was built from
  active,            \* config.ruleset
  pc,                \* "idle", or "loading" inside build_ruleset_with_loader
  rest,              \* the sources still to be visited
  seen,              \* names visited
  external_sources,  \* sources handed to the loader
  external_bytes,    \* bytes handed to the builder
  builder,           \* the RulesetBuilder
  fresh,             \* history: finalize() has returned since the last edit
  edits              \* number of edits so far

vars == <<configured, key, active, pc, rest, seen, external_sources, external_bytes,
          builder, fresh, edits>>

loop == <<rest, seen, external_sources, external_bytes, builder>>

-----------------------------------------------------------------------------
(* RulesetBuilder.                                                         *)

NewBuilder == [attempted |-> 0, total_bytes |-> 0, sources |-> <<>>, report |-> <<>>]

\* limits.max_rule_pack_sources and max_total_rule_pack_bytes of the builder:
\* the built-in pack has a slot and bytes of its own.
BuilderSources == MaxSources + 1

\* Variant of BuilderTotal that does not reserve bytes for the built-in pack.
NoBytesReserved == MaxTotalBytes

BuilderTotal == MaxTotalBytes + BuiltinBytes

Entry(source, bytes, reason) == [source |-> source, bytes |-> bytes, reason |-> reason]

RecordSkipped(b, source, bytes, reason) ==
  [attempted |-> b.attempted + 1, total_bytes |-> b.total_bytes, sources |-> b.sources,
   report |-> Append(b.report, Entry(source, bytes, reason))]

Accept(b, source, bytes) ==
  [attempted |-> b.attempted + 1, total_bytes |-> b.total_bytes + bytes,
   sources |-> Append(b.sources, source), report |-> Append(b.report, Entry(source, bytes, "none"))]

\* The limits in the order add_source_str tests them, on text of a format.
BudgetReason(b, bytes) ==
  IF b.attempted + 1 > BuilderSources THEN "SourceCountLimit"
  ELSE IF bytes > MaxPackBytes THEN "ByteLimit"
  ELSE IF b.total_bytes + bytes > BuilderTotal THEN "TotalByteLimit"
  ELSE "none"

\* The limits on rules do not apply to a source called "builtin", whichever.
SkipReason(source, content) ==
  IF source = Builtin /\ SkippedFor[content] \in {"RuleLimit", "RegexLimit"} THEN "none"
  ELSE SkippedFor[content]

\* add_source_bytes and add_source_str: nothing of a pack is kept unless all
\* of it is.
AddSource(b, source, bytes, content) ==
  LET budget == BudgetReason(b, bytes)
      reason == IF content # "not_utf8" /\ budget # "none" THEN budget
                ELSE SkipReason(source, content)
  IN IF reason = "none" THEN Accept(b, source, bytes)
     ELSE RecordSkipped(b, source, bytes, reason)

-----------------------------------------------------------------------------
(* CleanerConfig::finalize and build_ruleset_with_loader.                  *)

NoRuleset == [built |-> FALSE, sources |-> <<>>, report |-> <<>>]

NoKey == [rule_packs |-> <<>>, rule_pack_urls |-> <<>>, rule_pack_sources |-> <<>>]

\* Variant of FinalizationKey without one of the fields.
KeyWithoutUrls(c) == [c EXCEPT !.rule_pack_urls = <<>>]

\* Every field of the configuration that can change here.
FinalizationKey(c) == c

\* The sources in the order they are visited.
Listed(c) == c.rule_packs \o c.rule_pack_urls \o c.rule_pack_sources

\* Parsed, not finalized.
Init ==
  /\ configured \in Configs
  /\ key = NoKey
  /\ active = NoRuleset
  /\ pc = "idle"
  /\ rest = <<>>
  /\ seen = {}
  /\ external_sources = 0
  /\ external_bytes = 0
  /\ builder = NewBuilder
  /\ fresh = FALSE
  /\ edits = 0

\* The caller changes the public fields.
Edit ==
  /\ pc = "idle"
  /\ edits < MaxEdits
  /\ configured' \in Configs
  /\ fresh' = FALSE
  /\ edits' = edits + 1
  /\ UNCHANGED <<key, active, pc, loop>>

\* The early return of finalize().
UpToDate == active.built /\ key = FinalizationKey(configured)

FinalizeCached ==
  /\ pc = "idle"
  /\ ~fresh
  /\ UpToDate
  /\ fresh' = TRUE
  /\ UNCHANGED <<configured, key, active, pc, loop, edits>>

\* A new builder receives the built-in pack before any other source.
FinalizeBegins ==
  /\ pc = "idle"
  /\ ~UpToDate
  /\ builder' = AddSource(NewBuilder, Builtin, BuiltinBytes, "rules")
  /\ rest' = Listed(configured)
  /\ seen' = {}
  /\ external_sources' = 0
  /\ external_bytes' = 0
  /\ pc' = "loading"
  /\ UNCHANGED <<configured, key, active, fresh, edits>>

\* The next configured source leaves the list.
Visit ==
  /\ pc = "loading"
  /\ rest # <<>>
  /\ rest' = Tail(rest)
  /\ seen' = seen \cup {Head(rest)}
  /\ UNCHANGED <<configured, key, active, pc, fresh, edits>>

SkipDuplicate ==
  /\ Visit
  /\ Head(rest) \in seen
  /\ UNCHANGED <<external_sources, external_bytes, builder>>

SkipOverCount ==
  /\ Visit
  /\ Head(rest) \notin seen
  /\ external_sources >= MaxSources
  /\ builder' = RecordSkipped(builder, Head(rest), 0, "SourceCountLimit")
  /\ UNCHANGED <<external_sources, external_bytes>>

\* Variant of Load with an off-by-one on the count.
LoadOneMore ==
  /\ Visit
  /\ Head(rest) \notin seen
  /\ external_sources <= MaxSources
  /\ external_sources' = external_sources + 1

\* The loader is called.
Load ==
  /\ Visit
  /\ Head(rest) \notin seen
  /\ external_sources < MaxSources
  /\ external_sources' = external_sources + 1

LoadFails ==
  /\ Load
  /\ builder' = RecordSkipped(builder, Head(rest), 0, "Io")
  /\ UNCHANGED external_bytes

\* Variant of OverBytes that forgets what earlier packs have used.
OverBytesAlone(bytes) == bytes > MaxPackBytes \/ bytes > MaxTotalBytes

OverBytes(bytes) == bytes > MaxPackBytes \/ external_bytes + bytes > MaxTotalBytes

LoadTooBig ==
  /\ Load
  /\ \E bytes \in Sizes :
       /\ OverBytes(bytes)
       /\ builder' = RecordSkipped(builder, Head(rest), bytes,
            IF bytes > MaxPackBytes THEN "ByteLimit" ELSE "TotalByteLimit")
  /\ UNCHANGED external_bytes

\* The bytes are charged before the builder looks at them, and its error, if
\* any, is dropped.
LoadAndAdd ==
  /\ Load
  /\ \E bytes \in Sizes, content \in Contents :
       /\ ~OverBytes(bytes)
       /\ external_bytes' = external_bytes + bytes
       /\ builder' = AddSource(builder, Head(rest), bytes, content)

FinalizeEnds ==
  /\ pc = "loading"
  /\ rest = <<>>
  /\ active' = [built |-> TRUE, sources |-> builder.sources, report |-> builder.report]
  /\ key' = FinalizationKey(configured)
  /\ fresh' = TRUE
  /\ pc' = "idle"
  /\ UNCHANGED <<configured, loop, edits>>

Loading ==
  SkipDuplicate \/ SkipOverCount \/ LoadFails \/ LoadTooBig \/ LoadAndAdd \/ FinalizeEnds

Next == Edit \/ FinalizeCached \/ FinalizeBegins \/ Loading

Spec == Init /\ [][Next]_vars

-----------------------------------------------------------------------------
(* Properties.                                                             *)

Reasons == {"none", "Io", "Parse", "UnknownFormat", "RuleLimit", "RegexLimit",
            "ByteLimit", "TotalByteLimit", "SourceCountLimit"}

Name == Source \cup {Builtin}

EntryType == [source : Name, bytes : Nat, reason : Reasons]

Report == Seq(EntryType)

\* The variables hold values of their types.
TypeOK ==
  /\ configured \in Config /\ key \in Config /\ rest \in Seq(Source)
  /\ active \in [built : BOOLEAN, sources : Seq(Name), report : Report]
  /\ pc \in {"idle", "loading"}
  /\ seen \in SUBSET Source
  /\ external_sources \in 0..MaxSources
  /\ external_bytes \in Nat
  /\ builder \in [attempted : Nat, total_bytes : Nat, sources : Seq(Name), report : Report]
  /\ fresh \in BOOLEAN
  /\ edits \in 0..MaxEdits

\* The limits hold for what is retained: what the loop has handed to the
\* builder is within them, and the builder retains no more than that and the
\* built-in pack.
WithinLimits ==
  /\ external_bytes <= MaxTotalBytes
  /\ builder.total_bytes <= external_bytes + BuiltinBytes
  /\ Len(builder.sources) <= external_sources + 1

\* The two layers of limits agree: the builder never refuses for a budget what
\* the loop around it has admitted.  A source reported as over a budget did
\* exceed the configured one, given what the external sources before it had
\* used: the built-in pack has no share in it.
BudgetSkipIsDue ==
  pc = "loading" /\ builder' # builder =>
    LET e == Last(builder'.report) IN
      /\ e.reason = "SourceCountLimit" => external_sources >= MaxSources
      /\ e.reason = "ByteLimit" => e.bytes > MaxPackBytes
      /\ e.reason = "TotalByteLimit" => external_bytes + e.bytes > MaxTotalBytes

LayersAgree == [][BudgetSkipIsDue]_vars

\* The first occurrences of a list, in order.
Distinct(list) ==
  FoldLeft(LAMBDA d, s : IF Contains(d, s) THEN d ELSE Append(d, s), <<>>, list)

\* The sources of entries, and the entries of packs that were kept.
SourcesOf(report) == [i \in DOMAIN report |-> report[i].source]

Kept == {e \in EntryType : e.reason = "none"}

\* When finalize() has returned, the report accounts once for the built-in
\* pack and for each source configured NOW, in the order configured, and the
\* rules retained are those of the entries without a skip reason: no source is
\* silently lost, kept in part, loaded twice, or left over from before an edit.
ReportIsComplete ==
  fresh =>
    /\ SourcesOf(active.report) = <<Builtin>> \o Distinct(Listed(configured))
    /\ active.sources = SourcesOf(Select(active.report, Kept))

=============================================================================
