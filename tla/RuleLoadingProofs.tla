------------------------- MODULE RuleLoadingProofs --------------------------
(***************************************************************************)
(* Proofs about RuleLoading for any limits, any configurations and any     *)
(* packs: the types, that what is retained is within the configured        *)
(* limits, and that the two layers of limits agree.                        *)
(***************************************************************************)
EXTENDS RuleLoading, SequenceTheorems, TLAPS

BuilderType ==
  [attempted : Nat, total_bytes : Nat, sources : Seq(Name), report : Seq(EntryType)]

\* What the two layers of limits count corresponds: every load is one attempt
\* and one line of the report, and so is the built-in pack.
CountsCorrespond ==
  pc = "loading" =>
    /\ Len(builder.report) = builder.attempted
    /\ external_sources + 1 <= builder.attempted
    /\ external_sources < MaxSources => builder.attempted = external_sources + 1

\* The inductive invariant.
IInv == TypeOK /\ WithinLimits /\ CountsCorrespond

-----------------------------------------------------------------------------
(* RulesetBuilder.                                                         *)

\* Appending makes the new entry the last one.
LEMMA LastOfAppend ==
  ASSUME NEW S, NEW s \in Seq(S), NEW e \in S
  PROVE  /\ Append(s, e) \in Seq(S)
         /\ Len(Append(s, e)) = Len(s) + 1
         /\ Last(Append(s, e)) = e
  BY DEF Last

\* record_skipped_source counts an attempt and reports it, and retains nothing.
LEMMA SkipEffect ==
  ASSUME NEW b \in BuilderType, NEW s \in Name, NEW n \in Nat, NEW r \in Reasons
  PROVE  LET k == RecordSkipped(b, s, n, r) IN
           /\ k \in BuilderType
           /\ k.attempted = b.attempted + 1
           /\ Len(k.report) = Len(b.report) + 1
           /\ Last(k.report).reason = r /\ Last(k.report).bytes = n
           /\ k.total_bytes = b.total_bytes
           /\ Len(k.sources) = Len(b.sources)
<1> DEFINE e == Entry(s, n, r)
           k == RecordSkipped(b, s, n, r)
<1>1. e \in EntryType /\ e.reason = r /\ e.bytes = n
  BY DEF Entry, EntryType
<1>2. b.report \in Seq(EntryType) /\ b.attempted \in Nat
  BY DEF BuilderType
<1>3. /\ k.attempted = b.attempted + 1 /\ k.report = Append(b.report, e)
      /\ k.total_bytes = b.total_bytes /\ k.sources = b.sources
  BY DEF RecordSkipped
<1>4. Append(b.report, e) \in Seq(EntryType)
  BY <1>1, <1>2, LastOfAppend
<1>5. k \in BuilderType
  BY <1>2, <1>4 DEF RecordSkipped, BuilderType
<1> QED
  BY <1>1, <1>2, <1>3, <1>5, LastOfAppend

\* Accepting a pack counts an attempt, its bytes and one source.
LEMMA AcceptEffect ==
  ASSUME NEW b \in BuilderType, NEW s \in Name, NEW n \in Nat
  PROVE  LET k == Accept(b, s, n) IN
           /\ k \in BuilderType
           /\ k.attempted = b.attempted + 1
           /\ Len(k.report) = Len(b.report) + 1
           /\ Last(k.report).reason = "none"
           /\ k.total_bytes = b.total_bytes + n
           /\ Len(k.sources) = Len(b.sources) + 1
<1> DEFINE e == Entry(s, n, "none")
           k == Accept(b, s, n)
<1>1. e \in EntryType /\ e.reason = "none"
  BY DEF Entry, EntryType, Reasons
<1>2. b.report \in Seq(EntryType) /\ b.attempted \in Nat /\ b.total_bytes \in Nat /\ b.sources \in Seq(Name)
  BY DEF BuilderType
<1>3. /\ k.attempted = b.attempted + 1 /\ k.report = Append(b.report, e)
      /\ k.total_bytes = b.total_bytes + n /\ k.sources = Append(b.sources, s)
  BY DEF Accept
<1>4. k.report \in Seq(EntryType) /\ Len(k.report) = Len(b.report) + 1 /\ Last(k.report) = e
  BY <1>1, <1>2, <1>3, LastOfAppend
<1>5. k.sources \in Seq(Name) /\ Len(k.sources) = Len(b.sources) + 1
  BY <1>2, <1>3, LastOfAppend
<1>6. k \in BuilderType
  BY <1>2, <1>3, <1>4, <1>5 DEF Accept, BuilderType
<1> QED
  BY <1>1, <1>3, <1>4, <1>5, <1>6

\* Adding a source does one of the two, and never more than the pack weighs;
\* it is refused for a budget only if a limit of the builder is exceeded.
LEMMA AddEffect ==
  ASSUME NEW b \in BuilderType, NEW s \in Name, NEW n \in Nat, NEW x \in DOMAIN SkippedFor
  PROVE  LET k == AddSource(b, s, n, x) IN
           /\ k \in BuilderType
           /\ k.attempted = b.attempted + 1
           /\ Len(k.report) = Len(b.report) + 1
           /\ k.total_bytes <= b.total_bytes + n
           /\ Len(k.sources) <= Len(b.sources) + 1
           /\ Last(k.report).reason = "SourceCountLimit" => b.attempted + 1 > BuilderSources
           /\ Last(k.report).reason = "ByteLimit" => n > MaxPackBytes
           /\ Last(k.report).reason = "TotalByteLimit" => b.total_bytes + n > BuilderTotal
<1> DEFINE budget == BudgetReason(b, n)
           reason == IF x # "not_utf8" /\ budget # "none" THEN budget ELSE SkipReason(s, x)
<1>1. SkipReason(s, x) \in {"none", "Parse", "UnknownFormat", "RuleLimit", "RegexLimit"}
  BY DEF SkipReason, SkippedFor
<1>2. /\ budget \in {"none", "SourceCountLimit", "ByteLimit", "TotalByteLimit"}
      /\ budget = "SourceCountLimit" => b.attempted + 1 > BuilderSources
      /\ budget = "ByteLimit" => n > MaxPackBytes
      /\ budget = "TotalByteLimit" => b.total_bytes + n > BuilderTotal
  BY DEF BudgetReason
<1>3. reason \in Reasons
  BY <1>1, <1>2 DEF Reasons
<1>4. b.total_bytes \in Nat /\ Len(b.sources) \in Nat
  BY DEF BuilderType
<1>5. AddSource(b, s, n, x) = IF reason = "none" THEN Accept(b, s, n) ELSE RecordSkipped(b, s, n, reason)
  BY DEF AddSource
<1>6. /\ reason = "SourceCountLimit" => b.attempted + 1 > BuilderSources
      /\ reason = "ByteLimit" => n > MaxPackBytes
      /\ reason = "TotalByteLimit" => b.total_bytes + n > BuilderTotal
  BY <1>1, <1>2
<1> HIDE DEF reason, budget
<1>7. CASE reason = "none"
  BY <1>4, <1>5, <1>7, AcceptEffect
<1>8. CASE reason # "none"
  <2> DEFINE k == RecordSkipped(b, s, n, reason)
  <2>1. AddSource(b, s, n, x) = k
    BY <1>5, <1>8
  <2>2. /\ k \in BuilderType /\ k.attempted = b.attempted + 1
        /\ Len(k.report) = Len(b.report) + 1 /\ Last(k.report).reason = reason
        /\ k.total_bytes = b.total_bytes /\ Len(k.sources) = Len(b.sources)
    BY <1>3, SkipEffect
  <2> HIDE DEF k
  <2> QED
    BY <1>4, <1>6, <2>1, <2>2
<1> QED
  BY <1>7, <1>8

-----------------------------------------------------------------------------
(* The steps.                                                              *)

\* The fields of a configuration make one list.
LEMMA ListedType ==
  ASSUME NEW c \in Config
  PROVE  Listed(c) \in Seq(Source)
  BY DEF Config, Listed

\* The initial states.
LEMMA InitIInv == Init => IInv
<1> SUFFICES ASSUME Init PROVE IInv
  OBVIOUS
<1>1. configured \in Config /\ key \in Config
  BY SourcesAreListed DEF Init, NoKey, Config
<1>2. TypeOK
  <2>1. <<>> \in Seq(Source) /\ <<>> \in Seq(Name) /\ <<>> \in Report
    BY DEF Report
  <2>2. active \in [built : BOOLEAN, sources : Seq(Name), report : Report]
    BY <2>1 DEF Init, NoRuleset
  <2>3. builder \in [attempted : Nat, total_bytes : Nat, sources : Seq(Name), report : Report]
    BY <2>1 DEF Init, NewBuilder
  <2>4. external_sources \in 0..MaxSources /\ edits \in 0..MaxEdits
    BY LimitsAreNaturals DEF Init
  <2> QED
    BY <1>1, <2>1, <2>2, <2>3, <2>4 DEF Init, TypeOK
<1>3. WithinLimits /\ CountsCorrespond
  BY LimitsAreNaturals DEF Init, WithinLimits, CountsCorrespond, NewBuilder
<1> QED
  BY <1>2, <1>3 DEF IInv

\* The list visited only shrinks, and what is visited is a source.
LEMMA VisitTypes ==
  ASSUME IInv, Visit
  PROVE  Head(rest) \in Source /\ rest' \in Seq(Source) /\ seen' \in SUBSET Source
<1>1. rest \in Seq(Source) /\ rest # <<>> /\ seen \in SUBSET Source
  BY DEF IInv, TypeOK, Visit
<1>2. Head(rest) \in Source /\ Tail(rest) \in Seq(Source)
  BY <1>1
<1> QED
  BY <1>1, <1>2 DEF Visit

\* A visited source that reaches the report keeps the invariant, if the new
\* last entry and the counters are right.
LEMMA VisitKeepsIInv ==
  ASSUME IInv, Visit,
         external_sources' \in 0..MaxSources, external_bytes' \in Nat,
         builder' \in BuilderType,
         WithinLimits', CountsCorrespond'
  PROVE  IInv'
<1>1. TypeOK'
  BY VisitTypes DEF IInv, TypeOK, Visit, BuilderType, EntryType, Report
<1> QED
  BY <1>1 DEF IInv

\* Loading a source, or skipping it, keeps the invariant.
LEMMA LoadingKeepsIInv == IInv /\ Loading => IInv'
<1> SUFFICES ASSUME IInv, Loading PROVE IInv'
  OBVIOUS
<1>0. /\ builder \in BuilderType /\ external_sources \in 0..MaxSources /\ external_bytes \in Nat
      /\ builder.attempted \in Nat /\ builder.total_bytes \in Nat
      /\ Len(builder.sources) \in Nat /\ Len(builder.report) \in Nat
  BY DEF IInv, TypeOK, BuilderType, EntryType, Report
<1> USE LimitsAreNaturals
<1>1. CASE SkipDuplicate
  <2>1. UNCHANGED <<external_sources, external_bytes, builder, pc>>
    BY <1>1 DEF SkipDuplicate, Visit
  <2>2. WithinLimits' /\ CountsCorrespond'
    BY <2>1 DEF IInv, WithinLimits, CountsCorrespond
  <2> QED
    BY <1>0, <1>1, <2>1, <2>2, VisitKeepsIInv DEF SkipDuplicate
<1>2. CASE SkipOverCount
  <2>1. Head(rest) \in Name
    BY <1>2, VisitTypes DEF SkipOverCount, Name
  <2>2. /\ builder' \in BuilderType
        /\ builder'.attempted = builder.attempted + 1
        /\ Len(builder'.report) = Len(builder.report) + 1
        /\ Last(builder'.report).reason = "SourceCountLimit"
        /\ builder'.total_bytes = builder.total_bytes
        /\ Len(builder'.sources) = Len(builder.sources)
    BY <1>0, <1>2, <2>1, SkipEffect DEF SkipOverCount, Reasons
  <2>3. pc = "loading" /\ pc' = pc /\ external_sources >= MaxSources
        /\ UNCHANGED <<external_sources, external_bytes>>
    BY <1>2 DEF SkipOverCount, Visit
  <2>4. WithinLimits' /\ CountsCorrespond'
    BY <1>0, <2>2, <2>3 DEF IInv, WithinLimits, CountsCorrespond
  <2> QED
    BY <1>0, <1>2, <2>2, <2>3, <2>4, VisitKeepsIInv DEF SkipOverCount
<1>3. CASE LoadFails
  <2>1. Head(rest) \in Name
    BY <1>3, VisitTypes DEF LoadFails, Load, Name
  <2>2. /\ builder' \in BuilderType
        /\ builder'.attempted = builder.attempted + 1
        /\ Len(builder'.report) = Len(builder.report) + 1
        /\ Last(builder'.report).reason = "Io"
        /\ builder'.total_bytes = builder.total_bytes
        /\ Len(builder'.sources) = Len(builder.sources)
    BY <1>0, <1>3, <2>1, SkipEffect DEF LoadFails, Reasons
  <2>3. /\ pc = "loading" /\ pc' = pc /\ external_sources < MaxSources
        /\ external_sources' = external_sources + 1 /\ UNCHANGED external_bytes
    BY <1>3 DEF LoadFails, Load, Visit
  <2>4. WithinLimits' /\ CountsCorrespond'
    BY <1>0, <2>2, <2>3 DEF IInv, WithinLimits, CountsCorrespond
  <2> QED
    BY <1>0, <1>3, <2>2, <2>3, <2>4, VisitKeepsIInv DEF LoadFails, Load
<1>4. CASE LoadTooBig
  <2>1. PICK bytes \in Sizes, r \in {"ByteLimit", "TotalByteLimit"} :
          builder' = RecordSkipped(builder, Head(rest), bytes, r)
    BY <1>4 DEF LoadTooBig
  <2>2. Head(rest) \in Name /\ bytes \in Nat /\ r \in Reasons
    BY <1>4, VisitTypes DEF LoadTooBig, Load, Name, Reasons
  <2>4. /\ builder' \in BuilderType
        /\ builder'.attempted = builder.attempted + 1
        /\ Len(builder'.report) = Len(builder.report) + 1
        /\ builder'.total_bytes = builder.total_bytes
        /\ Len(builder'.sources) = Len(builder.sources)
    BY <1>0, <2>1, <2>2, SkipEffect, Z3
  <2>5. /\ pc = "loading" /\ pc' = pc /\ external_sources < MaxSources
        /\ external_sources' = external_sources + 1 /\ UNCHANGED external_bytes
    BY <1>4 DEF LoadTooBig, Load, Visit
  <2>6. WithinLimits' /\ CountsCorrespond'
    BY <1>0, <2>4, <2>5 DEF IInv, WithinLimits, CountsCorrespond
  <2> QED
    BY <1>0, <1>4, <2>4, <2>5, <2>6, VisitKeepsIInv DEF LoadTooBig, Load
<1>5. CASE LoadAndAdd
  <2>1. PICK bytes \in Sizes, content \in Contents :
          /\ ~OverBytes(bytes)
          /\ external_bytes' = external_bytes + bytes
          /\ builder' = AddSource(builder, Head(rest), bytes, content)
    BY <1>5 DEF LoadAndAdd
  <2>2. Head(rest) \in Name /\ bytes \in Nat /\ content \in DOMAIN SkippedFor
    BY <1>5, VisitTypes, ContentsAreKnown DEF LoadAndAdd, Load, Name
  <2>3. /\ builder' \in BuilderType
        /\ builder'.attempted = builder.attempted + 1
        /\ Len(builder'.report) = Len(builder.report) + 1
        /\ builder'.total_bytes <= builder.total_bytes + bytes
        /\ Len(builder'.sources) <= Len(builder.sources) + 1
    BY <1>0, <2>1, <2>2, AddEffect
  <2>4. /\ pc = "loading" /\ pc' = pc /\ external_sources < MaxSources
        /\ external_sources' = external_sources + 1
        /\ external_bytes' = external_bytes + bytes
        /\ external_bytes + bytes <= MaxTotalBytes
    BY <1>0, <1>5, <2>1, <2>2 DEF LoadAndAdd, Load, Visit, OverBytes
  <2>6. builder'.total_bytes \in Nat /\ Len(builder'.sources) \in Nat
    BY <2>3 DEF BuilderType
  <2>7. WithinLimits'
    <3>1. /\ builder.total_bytes <= external_bytes + BuiltinBytes
          /\ Len(builder.sources) <= external_sources + 1
      BY DEF IInv, WithinLimits
    <3>2. builder'.total_bytes <= external_bytes' + BuiltinBytes
      BY <1>0, <2>2, <2>3, <2>4, <2>6, <3>1
    <3>3. Len(builder'.sources) <= external_sources' + 1
      BY <1>0, <2>3, <2>4, <2>6, <3>1
    <3> QED
      BY <2>4, <3>2, <3>3 DEF WithinLimits
  <2>8. CountsCorrespond'
    BY <1>0, <2>3, <2>4 DEF IInv, CountsCorrespond
  <2> QED
    BY <1>0, <1>5, <2>1, <2>2, <2>3, <2>4, <2>7, <2>8, VisitKeepsIInv DEF LoadAndAdd, Load
<1>6. CASE FinalizeEnds
  <2>1. TypeOK'
    BY <1>6 DEF IInv, TypeOK, FinalizeEnds, FinalizationKey, loop
  <2>2. WithinLimits' /\ CountsCorrespond'
    BY <1>6 DEF IInv, FinalizeEnds, loop, WithinLimits, CountsCorrespond
  <2> QED
    BY <2>1, <2>2 DEF IInv
<1> QED
  BY <1>1, <1>2, <1>3, <1>4, <1>5, <1>6 DEF Loading

\* Entering finalize(), with or without work to do, and editing keep it.
LEMMA CallerKeepsIInv == IInv /\ (Edit \/ FinalizeCached \/ FinalizeBegins) => IInv'
<1> SUFFICES ASSUME IInv, Edit \/ FinalizeCached \/ FinalizeBegins PROVE IInv'
  OBVIOUS
<1> USE LimitsAreNaturals, SourcesAreListed
<1>1. CASE Edit \/ FinalizeCached
  <2>1. configured' \in Config /\ edits' \in 0..MaxEdits /\ fresh' \in BOOLEAN
    <3>1. CASE Edit
      <4>1. edits' = edits + 1 /\ edits < MaxEdits /\ edits \in 0..MaxEdits
        BY <3>1 DEF Edit, IInv, TypeOK
      <4>2. edits' \in 0..MaxEdits
        BY <4>1
      <4>3. configured' \in Config /\ fresh' \in BOOLEAN
        BY <3>1 DEF Edit
      <4> QED
        BY <4>2, <4>3
    <3>2. CASE FinalizeCached
      BY <3>2 DEF IInv, TypeOK, FinalizeCached
    <3> QED
      BY <1>1, <3>1, <3>2
  <2>3. UNCHANGED <<key, active, pc, rest, seen, external_sources, external_bytes, builder>>
    BY <1>1 DEF Edit, FinalizeCached, loop
  <2>4. TypeOK'
    BY <2>1, <2>3 DEF IInv, TypeOK
  <2>2. WithinLimits' /\ CountsCorrespond'
    BY <2>3 DEF IInv, WithinLimits, CountsCorrespond
  <2> QED
    BY <2>2, <2>4 DEF IInv
<1>2. CASE FinalizeBegins
  <2> DEFINE k == AddSource(NewBuilder, Builtin, BuiltinBytes, "rules")
  <2>1. NewBuilder \in BuilderType /\ Builtin \in Name /\ "rules" \in DOMAIN SkippedFor
    BY DEF NewBuilder, BuilderType, Name, SkippedFor
  <2>2. /\ k \in BuilderType /\ k.attempted = 1 /\ Len(k.report) = 1
        /\ k.total_bytes <= BuiltinBytes /\ Len(k.sources) <= 1
    <3>1. /\ NewBuilder.attempted = 0 /\ NewBuilder.total_bytes = 0
          /\ Len(NewBuilder.report) = 0 /\ Len(NewBuilder.sources) = 0
      BY DEF NewBuilder
    <3>2. \A b \in BuilderType :
            LET a == AddSource(b, Builtin, BuiltinBytes, "rules") IN
              /\ a \in BuilderType /\ a.attempted = b.attempted + 1
              /\ Len(a.report) = Len(b.report) + 1
              /\ a.total_bytes <= b.total_bytes + BuiltinBytes
              /\ Len(a.sources) <= Len(b.sources) + 1
      BY <2>1, AddEffect
    <3>3. /\ k \in BuilderType /\ k.attempted = NewBuilder.attempted + 1
          /\ Len(k.report) = Len(NewBuilder.report) + 1
          /\ k.total_bytes <= NewBuilder.total_bytes + BuiltinBytes
          /\ Len(k.sources) <= Len(NewBuilder.sources) + 1
      BY <2>1, <3>2, Zenon
    <3> HIDE DEF k
    <3> QED
      BY <3>1, <3>3
  <2> HIDE DEF k
  <2>3. /\ builder' = k /\ rest' = Listed(configured) /\ seen' = {} /\ external_sources' = 0
        /\ external_bytes' = 0 /\ pc' = "loading"
        /\ UNCHANGED <<configured, key, active, fresh, edits>>
    BY <1>2 DEF FinalizeBegins, k
  <2>4. TypeOK'
    BY <2>2, <2>3, ListedType DEF IInv, TypeOK, BuilderType, EntryType, Report
  <2>5. WithinLimits' /\ CountsCorrespond'
    <3>1. k.total_bytes \in Nat /\ Len(k.sources) \in Nat
      BY <2>2 DEF BuilderType
    <3>3. WithinLimits'
      BY <2>2, <2>3, <3>1 DEF WithinLimits
    <3>4. CountsCorrespond'
      <4>1. builder'.attempted = 1 /\ Len(builder'.report) = 1 /\ external_sources' = 0
        BY <2>2, <2>3
      <4> QED
        BY <4>1 DEF CountsCorrespond
    <3> QED
      BY <3>3, <3>4
  <2> QED
    BY <2>4, <2>5 DEF IInv
<1> QED
  BY <1>1, <1>2

\* IInv holds in every reachable state.
LEMMA Invariance == Spec => []IInv
<1>1. IInv /\ UNCHANGED vars => IInv'
  BY DEF IInv, TypeOK, WithinLimits, CountsCorrespond, vars, loop
<1>2. IInv /\ [Next]_vars => IInv'
  BY <1>1, LoadingKeepsIInv, CallerKeepsIInv DEF Next
<1> QED
  BY InitIInv, <1>2, PTL DEF Spec

\* What the loop has admitted is within the limits of the builder: the counts
\* of the two correspond, and the built-in pack has its own slot and bytes.
LEMMA AdmittedIsWithinBudget ==
  ASSUME IInv, LoadAndAdd
  PROVE  Last(builder'.report).reason \notin {"SourceCountLimit", "ByteLimit", "TotalByteLimit"}
<1> USE LimitsAreNaturals
<1>1. PICK bytes \in Sizes, content \in Contents :
        /\ ~OverBytes(bytes)
        /\ builder' = AddSource(builder, Head(rest), bytes, content)
  BY DEF LoadAndAdd
<1>2. Head(rest) \in Name /\ bytes \in Nat /\ content \in DOMAIN SkippedFor
  BY VisitTypes, ContentsAreKnown DEF LoadAndAdd, Load, Name
<1>3. builder \in BuilderType
  BY DEF IInv, TypeOK, BuilderType, EntryType, Report
<1>4. /\ Last(builder'.report).reason = "SourceCountLimit" => builder.attempted + 1 > BuilderSources
      /\ Last(builder'.report).reason = "ByteLimit" => bytes > MaxPackBytes
      /\ Last(builder'.report).reason = "TotalByteLimit" => builder.total_bytes + bytes > BuilderTotal
  BY <1>1, <1>2, <1>3, AddEffect
<1>5. /\ builder.attempted \in Nat /\ builder.total_bytes \in Nat
      /\ external_sources \in 0..MaxSources /\ external_bytes \in Nat
  BY <1>3 DEF IInv, TypeOK, BuilderType
<1>6. /\ builder.attempted + 1 <= BuilderSources
      /\ bytes <= MaxPackBytes
      /\ external_bytes + bytes <= MaxTotalBytes
      /\ builder.total_bytes <= external_bytes + BuiltinBytes
  BY <1>1, <1>2, <1>5
  DEF IInv, WithinLimits, CountsCorrespond, LoadAndAdd, Load, Visit, OverBytes, BuilderSources
<1>7. builder.total_bytes + bytes <= BuilderTotal
  BY <1>2, <1>5, <1>6 DEF BuilderTotal
<1>8. BuilderSources \in Nat /\ BuilderTotal \in Nat
  BY DEF BuilderSources, BuilderTotal
<1> QED
  BY <1>2, <1>4, <1>5, <1>6, <1>7, <1>8

\* So a source is reported over a budget by the loop only.
LEMMA LoadingSkipsDuly == IInv /\ Loading => BudgetSkipIsDue
<1> SUFFICES ASSUME IInv, Loading PROVE BudgetSkipIsDue
  OBVIOUS
<1> USE LimitsAreNaturals
<1> DEFINE e == Last(builder'.report)
<1>0. builder \in BuilderType
  BY DEF IInv, TypeOK, BuilderType, EntryType, Report
<1>1. CASE SkipDuplicate \/ FinalizeEnds
  BY <1>1 DEF SkipDuplicate, FinalizeEnds, loop, BudgetSkipIsDue
<1>2. ASSUME Visit PROVE Head(rest) \in Name
  BY <1>2, VisitTypes DEF Name
<1>3. CASE SkipOverCount
  <2>1. e.reason = "SourceCountLimit"
    BY <1>0, <1>2, <1>3, SkipEffect DEF SkipOverCount, Reasons
  <2> QED
    BY <1>3, <2>1 DEF SkipOverCount, BudgetSkipIsDue
<1>4. CASE LoadFails
  <2>1. e.reason = "Io"
    BY <1>0, <1>2, <1>4, SkipEffect DEF LoadFails, Load, Reasons
  <2> QED
    BY <2>1 DEF BudgetSkipIsDue
<1>5. CASE LoadTooBig
  <2>1. PICK bytes \in Sizes, r \in {"ByteLimit", "TotalByteLimit"} :
          /\ r = "ByteLimit" => bytes > MaxPackBytes
          /\ r = "TotalByteLimit" => external_bytes + bytes > MaxTotalBytes
          /\ builder' = RecordSkipped(builder, Head(rest), bytes, r)
    BY <1>5 DEF LoadTooBig, OverBytes
  <2>2. bytes \in Nat /\ r \in Reasons /\ r # "SourceCountLimit"
    BY DEF Reasons
  <2>3. e.reason = r /\ e.bytes = bytes
    BY <1>0, <1>2, <1>5, <2>1, <2>2, SkipEffect, Z3 DEF LoadTooBig, Load
  <2> QED
    BY <2>1, <2>2, <2>3 DEF BudgetSkipIsDue
<1>6. CASE LoadAndAdd
  BY <1>6, AdmittedIsWithinBudget DEF BudgetSkipIsDue
<1> QED
  BY <1>1, <1>3, <1>4, <1>5, <1>6 DEF Loading

-----------------------------------------------------------------------------
(* The report.                                                             *)

\* The report and the retained sources of a builder, or of a ruleset, account
\* for the built-in pack and a list of sources.
Complete(list, report, sources) ==
  /\ SourcesOf(report) = <<Builtin>> \o Distinct(list)
  /\ sources = SourcesOf(Select(report, Kept))

\* The inductive invariant: while loading, what has been visited is accounted
\* for; afterwards, what the active ruleset was built from.
Reported ==
  /\ active.built => Complete(Listed(key), active.report, active.sources)
  /\ fresh => active.built /\ key = configured
  /\ pc = "loading" =>
       \E done \in Seq(Source) :
         /\ Listed(configured) = done \o rest
         /\ seen = ToSet(done)
         /\ Complete(done, builder.report, builder.sources)

\* Removing duplicates is a fold.
Dedup == INSTANCE SequenceFacts WITH Op <- LAMBDA d, s : IF Contains(d, s) THEN d ELSE Append(d, s)

LEMMA DistinctIsFolded == \A list : Distinct(list) = Dedup!Folded(<<>>, list)
  BY DEF Distinct, FoldLeft, MapThenFoldSet, Max, Dedup!Folded, Dedup!Largest

LEMMA SelectBridge == \A s, T : Select(s, T) = Dedup!Select(s, T)
  BY DEF Select, Dedup!Select

\* What an appended element adds to a set.
LEMMA ToSetAppend ==
  ASSUME NEW S, NEW s \in Seq(S), NEW x \in S
  PROVE  ToSet(<<>>) = {} /\ ToSet(Append(s, x)) = ToSet(s) \cup {x}
<1>1. ToSet(<<>>) = {}
  BY DEF ToSet
<1>2. /\ DOMAIN Append(s, x) = DOMAIN s \cup {Len(s) + 1}
      /\ \A i \in DOMAIN s : Append(s, x)[i] = s[i]
      /\ Append(s, x)[Len(s) + 1] = x
  OBVIOUS
<1> QED
  BY <1>1, <1>2 DEF ToSet

\* Contains looks for an element.
LEMMA ContainsIs ==
  ASSUME NEW S, NEW d \in Seq(S), NEW x
  PROVE  Contains(d, x) <=> x \in ToSet(d)
<1>1. DOMAIN d = 1..Len(d)
  OBVIOUS
<1> QED
  BY <1>1, Zenon DEF Contains, ToSet

\* Duplicates are removed element by element.
LEMMA DistinctAppend ==
  ASSUME NEW list \in Seq(Source), NEW s \in Source
  PROVE  /\ Distinct(<<>>) = <<>>
         /\ Distinct(Append(list, s)) =
              IF Contains(Distinct(list), s) THEN Distinct(list) ELSE Append(Distinct(list), s)
<1>1. Distinct(<<>>) = <<>>
  BY DistinctIsFolded, Dedup!FoldEmpty
<1>2. Dedup!Folded(<<>>, Append(list, s)) =
        IF Contains(Dedup!Folded(<<>>, list), s) THEN Dedup!Folded(<<>>, list)
        ELSE Append(Dedup!Folded(<<>>, list), s)
  BY Dedup!FoldAppend
<1> QED
  BY <1>1, <1>2, DistinctIsFolded

\* Nothing but duplicates is removed.
LEMMA DistinctKeepsAll ==
  \A list \in Seq(Source) : Distinct(list) \in Seq(Source) /\ ToSet(Distinct(list)) = ToSet(list)
<1> DEFINE P == {list \in Seq(Source) : /\ Distinct(list) \in Seq(Source)
                                        /\ ToSet(Distinct(list)) = ToSet(list)}
<1>1. <<>> \in P
  <2>1. Distinct(<<>>) = <<>>
    BY DistinctIsFolded, Dedup!FoldEmpty
  <2>2. <<>> \in Seq(Source)
    OBVIOUS
  <2> QED
    BY <2>1, <2>2, Zenon
<1>2. ASSUME NEW list \in Seq(Source), NEW s \in Source, list \in P PROVE Append(list, s) \in P
  <2>1. Distinct(list) \in Seq(Source) /\ ToSet(Distinct(list)) = ToSet(list)
    BY <1>2
  <2>2. Contains(Distinct(list), s) <=> s \in ToSet(Distinct(list))
    BY <2>1, ContainsIs
  <2>3. ToSet(Append(list, s)) = ToSet(list) \cup {s}
    BY ToSetAppend
  <2>4. ToSet(Append(Distinct(list), s)) = ToSet(Distinct(list)) \cup {s}
    BY <2>1, ToSetAppend
  <2>5. Append(Distinct(list), s) \in Seq(Source) /\ Append(list, s) \in Seq(Source)
    BY <2>1
  <2>6. Distinct(Append(list, s)) =
          IF Contains(Distinct(list), s) THEN Distinct(list) ELSE Append(Distinct(list), s)
    BY DistinctAppend
  <2>7. /\ Distinct(Append(list, s)) \in Seq(Source)
        /\ ToSet(Distinct(Append(list, s))) = ToSet(Append(list, s))
    BY <2>1, <2>2, <2>3, <2>4, <2>5, <2>6
  <2> QED
    BY <2>5, <2>7
<1> HIDE DEF P
<1>3. \A list \in Seq(Source) : list \in P
  BY <1>1, <1>2, Dedup!SeqInduction
<1> QED
  BY <1>3 DEF P

\* The sources of a report are names.
LEMMA SourcesType ==
  ASSUME NEW r \in Seq(EntryType)
  PROVE  SourcesOf(r) \in Seq(Name) /\ Len(SourcesOf(r)) = Len(r)
<1>1. DOMAIN r = 1..Len(r) /\ Len(r) \in Nat
  OBVIOUS
<1>2. \A i \in 1..Len(r) : r[i].source \in Name
  <2>1. \A i \in 1..Len(r) : r[i] \in EntryType
    OBVIOUS
  <2>2. \A e \in EntryType : e.source \in Name
    BY DEF EntryType
  <2> QED
    BY <2>1, <2>2
<1>3. SourcesOf(r) \in [1..Len(r) -> Name]
  BY <1>1, <1>2 DEF SourcesOf
<1>4. SourcesOf(r) \in Seq(Name)
  BY <1>1, <1>3, SeqDef, Zenon
<1> QED
  BY <1>1, <1>3, <1>4

\* One more entry adds its source, to those that are kept if it has no reason.
LEMMA EntryAdds ==
  ASSUME NEW report \in Report, NEW e \in EntryType
  PROVE  /\ SourcesOf(Append(report, e)) = Append(SourcesOf(report), e.source)
         /\ SourcesOf(Select(Append(report, e), Kept)) =
              IF e.reason = "none" THEN Append(SourcesOf(Select(report, Kept)), e.source)
              ELSE SourcesOf(Select(report, Kept))
<1>1. ASSUME NEW r \in Seq(EntryType)
      PROVE  SourcesOf(Append(r, e)) = Append(SourcesOf(r), e.source)
  <2>1. SourcesOf(r) \in Seq(Name) /\ Len(SourcesOf(r)) = Len(r)
    BY SourcesType
  <2>2. Append(r, e) \in Seq(EntryType) /\ Len(Append(r, e)) = Len(r) + 1 /\ e.source \in Name
    BY DEF EntryType
  <2>3. SourcesOf(Append(r, e)) \in Seq(Name) /\ Len(SourcesOf(Append(r, e))) = Len(r) + 1
    BY <2>2, SourcesType
  <2>4. \A i \in 1..Len(r) + 1 : SourcesOf(Append(r, e))[i] = Append(SourcesOf(r), e.source)[i]
    BY <2>1, <2>2 DEF SourcesOf
  <2>5. /\ Append(SourcesOf(r), e.source) \in Seq(Name)
        /\ Len(Append(SourcesOf(r), e.source)) = Len(r) + 1
    BY <2>1, <2>2
  <2> QED
    BY <2>3, <2>4, <2>5, SeqEqual
<1>2. Select(report, Kept) \in Seq(EntryType)
  <2>1. Select(report, Kept) \in Seq(EntryType \cap Kept)
    BY SelectBridge, Dedup!SelectType DEF Report
  <2> QED
    BY <2>1
<1>3. Select(Append(report, e), Kept) =
        IF e \in Kept THEN Append(Select(report, Kept), e) ELSE Select(report, Kept)
  BY SelectBridge, Dedup!SelectAppend DEF Report
<1>4. e \in Kept <=> e.reason = "none"
  BY DEF Kept
<1> QED
  BY <1>1, <1>2, <1>3, <1>4 DEF Report

\* Builder k reports one source more than b, and keeps it if it says so.
Adds(b, k, s) ==
  /\ SourcesOf(k.report) = Append(SourcesOf(b.report), s)
  /\ b.sources = SourcesOf(Select(b.report, Kept)) => k.sources = SourcesOf(Select(k.report, Kept))

\* Each way of the builder with a source reports it.
LEMMA SkipAdds ==
  ASSUME NEW b \in BuilderType, NEW s \in Name, NEW n \in Nat, NEW r \in Reasons, r # "none"
  PROVE  Adds(b, RecordSkipped(b, s, n, r), s)
<1> DEFINE e == Entry(s, n, r)
           k == RecordSkipped(b, s, n, r)
<1>1. e \in EntryType /\ e.source = s /\ e.reason # "none" /\ b.report \in Report
  BY DEF Entry, EntryType, BuilderType, Report
<1>2. k.report = Append(b.report, e) /\ k.sources = b.sources
  BY DEF RecordSkipped
<1> HIDE DEF e, k
<1>3. /\ SourcesOf(k.report) = Append(SourcesOf(b.report), s)
      /\ SourcesOf(Select(k.report, Kept)) = SourcesOf(Select(b.report, Kept))
  BY <1>1, <1>2, EntryAdds
<1>4. Adds(b, k, s)
  BY <1>2, <1>3 DEF Adds
<1> QED
  BY <1>4 DEF k

LEMMA AcceptAdds ==
  ASSUME NEW b \in BuilderType, NEW s \in Name, NEW n \in Nat
  PROVE  Adds(b, Accept(b, s, n), s)
<1> DEFINE e == Entry(s, n, "none")
           k == Accept(b, s, n)
<1>1. e \in EntryType /\ e.source = s /\ e.reason = "none" /\ b.report \in Report
  BY DEF Entry, EntryType, BuilderType, Report, Reasons
<1>2. k.report = Append(b.report, e) /\ k.sources = Append(b.sources, s)
  BY DEF Accept
<1> HIDE DEF e, k
<1>3. /\ SourcesOf(k.report) = Append(SourcesOf(b.report), s)
      /\ SourcesOf(Select(k.report, Kept)) = Append(SourcesOf(Select(b.report, Kept)), s)
  BY <1>1, <1>2, EntryAdds
<1>4. Adds(b, k, s)
  BY <1>2, <1>3 DEF Adds
<1> QED
  BY <1>4 DEF k

LEMMA AddAdds ==
  ASSUME NEW b \in BuilderType, NEW s \in Name, NEW n \in Nat, NEW x \in DOMAIN SkippedFor
  PROVE  Adds(b, AddSource(b, s, n, x), s)
<1> DEFINE budget == BudgetReason(b, n)
           reason == IF x # "not_utf8" /\ budget # "none" THEN budget ELSE SkipReason(s, x)
<1>1. reason \in Reasons
  <2>1. SkipReason(s, x) \in {"none", "Parse", "UnknownFormat", "RuleLimit", "RegexLimit"}
    BY DEF SkipReason, SkippedFor
  <2>2. budget \in {"none", "SourceCountLimit", "ByteLimit", "TotalByteLimit"}
    BY DEF BudgetReason
  <2> QED
    BY <2>1, <2>2 DEF Reasons
<1>2. AddSource(b, s, n, x) = IF reason = "none" THEN Accept(b, s, n) ELSE RecordSkipped(b, s, n, reason)
  BY DEF AddSource
<1> HIDE DEF reason
<1> QED
  BY <1>1, <1>2, SkipAdds, AcceptAdds

\* The report stays complete with another source, a source seen before, and
\* is with the built-in pack.
LEMMA CompleteNext ==
  ASSUME NEW done \in Seq(Source), NEW s \in Source, s \notin ToSet(done),
         NEW b, NEW k, Complete(done, b.report, b.sources), Adds(b, k, s)
  PROVE  Complete(Append(done, s), k.report, k.sources)
<1>1. Distinct(done) \in Seq(Source) /\ ToSet(Distinct(done)) = ToSet(done)
  BY DistinctKeepsAll
<1>2. ~Contains(Distinct(done), s)
  BY <1>1, ContainsIs
<1>3. Distinct(Append(done, s)) = Append(Distinct(done), s)
  BY <1>2, DistinctAppend
<1>4. \A d \in Seq(Name) : Append(<<Builtin>> \o d, s) = <<Builtin>> \o Append(d, s)
  BY DEF Name
<1>5. Distinct(done) \in Seq(Name)
  BY <1>1 DEF Name
<1> QED
  BY <1>3, <1>4, <1>5 DEF Complete, Adds

LEMMA CompleteDuplicate ==
  ASSUME NEW done \in Seq(Source), NEW s \in Source, s \in ToSet(done)
  PROVE  Distinct(Append(done, s)) = Distinct(done)
<1>1. Distinct(done) \in Seq(Source) /\ ToSet(Distinct(done)) = ToSet(done)
  BY DistinctKeepsAll
<1>2. Contains(Distinct(done), s)
  BY <1>1, ContainsIs
<1> QED
  BY <1>2, DistinctAppend

LEMMA CompleteFirst ==
  LET k == AddSource(NewBuilder, Builtin, BuiltinBytes, "rules")
  IN  Complete(<<>>, k.report, k.sources)
<1> DEFINE k == AddSource(NewBuilder, Builtin, BuiltinBytes, "rules")
<1>1. NewBuilder \in BuilderType /\ Builtin \in Name /\ "rules" \in DOMAIN SkippedFor
  BY DEF NewBuilder, BuilderType, Name, SkippedFor
<1>2. Adds(NewBuilder, k, Builtin)
  BY <1>1, AddAdds, LimitsAreNaturals
<1> HIDE DEF k
<1>3. NewBuilder.report = <<>> /\ NewBuilder.sources = <<>>
  BY DEF NewBuilder
<1>4. SourcesOf(<<>>) = <<>> /\ Append(<<>>, Builtin) = <<Builtin>> \o <<>>
  BY DEF SourcesOf
<1>5. Select(<<>>, Kept) = <<>>
  BY SelectBridge, Dedup!SelectEmpty
<1>6. Distinct(<<>>) = <<>>
  BY DistinctIsFolded, Dedup!FoldEmpty
<1>7. Complete(<<>>, k.report, k.sources)
  BY <1>2, <1>3, <1>4, <1>5, <1>6 DEF Adds, Complete
<1> QED
  BY <1>7 DEF k

\* A visit takes the first of the sources that are left.
LEMMA VisitMoves ==
  ASSUME NEW done \in Seq(Source), NEW left \in Seq(Source), left # <<>>
  PROVE  /\ Head(left) \in Source /\ Tail(left) \in Seq(Source)
         /\ Append(done, Head(left)) \in Seq(Source)
         /\ done \o left = Append(done, Head(left)) \o Tail(left)
  OBVIOUS

\* Loading keeps the report complete.
LEMMA LoadingReports == IInv /\ Reported /\ Loading => Reported'
<1> SUFFICES ASSUME IInv, Reported, Loading PROVE Reported'
  OBVIOUS
<1>0. PICK done \in Seq(Source) :
        /\ Listed(configured) = done \o rest
        /\ seen = ToSet(done)
        /\ Complete(done, builder.report, builder.sources)
  BY DEF Reported, Loading, SkipDuplicate, SkipOverCount, LoadFails, LoadTooBig, LoadAndAdd,
     Load, Visit, FinalizeEnds
<1>1. rest \in Seq(Source) /\ builder \in BuilderType
  BY DEF IInv, TypeOK, BuilderType, Report
<1>2. ASSUME Visit,
             \/ Head(rest) \in seen /\ builder' = builder
             \/ Head(rest) \notin seen /\ Adds(builder, builder', Head(rest))
      PROVE  Reported'
  <2> DEFINE more == Append(done, Head(rest))
  <2>1. /\ Head(rest) \in Source /\ more \in Seq(Source)
        /\ Listed(configured)' = more \o rest'
    BY <1>0, <1>1, <1>2, VisitMoves DEF Visit
  <2>2. seen' = ToSet(more)
    BY <1>0, <1>2, <2>1, ToSetAppend DEF Visit
  <2>3. Complete(more, builder'.report, builder'.sources)
    <3>1. CASE Head(rest) \in seen /\ builder' = builder
      <4>1. Distinct(more) = Distinct(done)
        BY <1>0, <2>1, <3>1, CompleteDuplicate
      <4> QED
        BY <1>0, <3>1, <4>1 DEF Complete
    <3>2. CASE Head(rest) \notin seen /\ Adds(builder, builder', Head(rest))
      BY <1>0, <2>1, <3>2, CompleteNext
    <3> QED
      BY <1>2, <3>1, <3>2
  <2>4. UNCHANGED <<configured, key, active, pc, fresh>>
    BY <1>2 DEF Visit
  <2> HIDE DEF more
  <2>5. \E d \in Seq(Source) : /\ Listed(configured)' = d \o rest' /\ seen' = ToSet(d)
                              /\ Complete(d, builder'.report, builder'.sources)
    BY <2>1, <2>2, <2>3
  <2> QED
    BY <2>4, <2>5 DEF Reported
<1>3. CASE SkipDuplicate
  <2>1. Visit /\ Head(rest) \in seen /\ builder' = builder
    BY <1>3 DEF SkipDuplicate
  <2> QED
    BY <1>2, <2>1
<1>4. ASSUME Visit PROVE Head(rest) \in Name
  BY <1>4, VisitTypes DEF Name
<1>5. CASE SkipOverCount
  <2>1. Adds(builder, builder', Head(rest))
    BY <1>1, <1>4, <1>5, SkipAdds DEF SkipOverCount, Reasons
  <2> QED
    BY <1>2, <1>5, <2>1 DEF SkipOverCount
<1>6. CASE LoadFails
  <2>1. Adds(builder, builder', Head(rest))
    BY <1>1, <1>4, <1>6, SkipAdds DEF LoadFails, Load, Reasons
  <2> QED
    BY <1>2, <1>6, <2>1 DEF LoadFails, Load
<1>7. CASE LoadTooBig
  <2>1. PICK bytes \in Sizes, r \in {"ByteLimit", "TotalByteLimit"} :
          builder' = RecordSkipped(builder, Head(rest), bytes, r)
    BY <1>7 DEF LoadTooBig
  <2>2. r \in Reasons /\ r # "none" /\ bytes \in Nat
    BY LimitsAreNaturals DEF Reasons
  <2>3. Adds(builder, builder', Head(rest))
    BY <1>1, <1>4, <1>7, <2>1, <2>2, SkipAdds, Zenon DEF LoadTooBig, Load
  <2> QED
    BY <1>2, <1>7, <2>3 DEF LoadTooBig, Load
<1>8. CASE LoadAndAdd
  <2>1. PICK bytes \in Sizes, content \in Contents :
          builder' = AddSource(builder, Head(rest), bytes, content)
    BY <1>8 DEF LoadAndAdd
  <2>2. content \in DOMAIN SkippedFor /\ bytes \in Nat
    BY LimitsAreNaturals, ContentsAreKnown
  <2>3. Adds(builder, builder', Head(rest))
    BY <1>1, <1>4, <1>8, <2>1, <2>2, AddAdds DEF LoadAndAdd, Load
  <2> QED
    BY <1>2, <1>8, <2>3 DEF LoadAndAdd, Load
<1>9. CASE FinalizeEnds
  <2>1. Listed(configured) = done
    <3>1. rest = <<>>
      BY <1>9 DEF FinalizeEnds
    <3>2. done \o <<>> = done
      OBVIOUS
    <3> QED
      BY <1>0, <3>1, <3>2
  <2>2. /\ active' = [built |-> TRUE, sources |-> builder.sources, report |-> builder.report]
        /\ key' = configured /\ configured' = configured /\ pc' = "idle"
    BY <1>9 DEF FinalizeEnds, FinalizationKey
  <2>3. active'.built /\ Complete(Listed(key'), active'.report, active'.sources)
    BY <1>0, <2>1, <2>2
  <2> QED
    BY <2>2, <2>3 DEF Reported
<1> QED
  BY <1>3, <1>5, <1>6, <1>7, <1>8, <1>9 DEF Loading

\* So do editing and entering finalize().
LEMMA CallerReports == IInv /\ Reported /\ (Edit \/ FinalizeCached \/ FinalizeBegins) => Reported'
<1> SUFFICES ASSUME IInv, Reported, Edit \/ FinalizeCached \/ FinalizeBegins PROVE Reported'
  OBVIOUS
<1>1. CASE Edit \/ FinalizeCached
  BY <1>1 DEF Reported, Edit, FinalizeCached, UpToDate, FinalizationKey
<1>2. CASE FinalizeBegins
  <2>1. /\ builder' = AddSource(NewBuilder, Builtin, BuiltinBytes, "rules")
        /\ rest' = Listed(configured) /\ seen' = {}
        /\ UNCHANGED <<configured, key, active, fresh>>
    BY <1>2 DEF FinalizeBegins
  <2>2. Complete(<<>>, builder'.report, builder'.sources)
    BY <2>1, CompleteFirst
  <2>3. ToSet(<<>>) = {} /\ <<>> \in Seq(Source)
    BY DEF ToSet
  <2>4. Listed(configured) \in Seq(Source) /\ Listed(configured)' = <<>> \o rest'
    BY <2>1, ListedType DEF IInv, TypeOK
  <2> QED
    BY <2>1, <2>2, <2>3, <2>4 DEF Reported
<1> QED
  BY <1>1, <1>2

\* IInv and Reported hold in every reachable state.
LEMMA ReportedInvariance == Spec => [](IInv /\ Reported)
<1>1. Init => Reported
  BY DEF Init, NoRuleset, Reported
<1>2. IInv /\ Reported /\ [Next]_vars => Reported'
  <2>1. IInv /\ Reported /\ UNCHANGED vars => Reported'
    BY DEF Reported, vars, loop
  <2> QED
    BY <2>1, LoadingReports, CallerReports DEF Next
<1> QED
  BY Invariance, <1>1, <1>2, PTL DEF Spec

-----------------------------------------------------------------------------
(* The theorems.                                                           *)

\* The variables always hold values of their types.
THEOREM TypeCorrect == Spec => []TypeOK
  BY Invariance, PTL DEF IInv

\* build_ruleset_with_loader: what is retained is within the limits.
THEOREM RetainedWithinLimits == Spec => []WithinLimits
  BY Invariance, PTL DEF IInv

\* RulesetBuilder never refuses for a budget what the loop has admitted,
\* whatever the size of the built-in pack.
THEOREM LayersAlwaysAgree == Spec => LayersAgree
<1>1. IInv /\ [Next]_vars => [BudgetSkipIsDue]_vars
  BY LoadingSkipsDuly DEF Next, Edit, FinalizeCached, FinalizeBegins, BudgetSkipIsDue
<1> QED
  BY Invariance, <1>1, PTL DEF Spec, LayersAgree

\* However often the list is edited and finalized, whatever a loader returns:
\* after finalize() the report has every source that is configured, once and
\* in order, and the rules are those of the entries without a skip reason.
THEOREM ReportComplete == Spec => []ReportIsComplete
<1>1. Reported => ReportIsComplete
  BY DEF Reported, ReportIsComplete, Complete
<1> QED
  BY ReportedInvariance, <1>1, PTL

=============================================================================
