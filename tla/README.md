# email-privacy-cleaner: a TLA+ model

email-privacy-cleaner takes tracking out of e-mail: a library rewrites the
links and images of a message, a command-line tool applies it to files, and a
milter daemon applies it to the messages an MTA passes through. The modules
here model the parts in which something can go wrong that a unit test would
hardly reach: threads, a conversation with a peer that may disappear, limits
enforced in two places, three passes over one message, carve-outs that must
hold whatever the rules say, requests to hosts that move between two look-ups,
and translations (rule lists to rules, text to bytes) that must mean the same
on both sides.

## The system

| part | state | operations | talks to |
|---|---|---|---|
| rule preparation (`milter.rs`, `PreparedConfig`) | `Loading`/`Ready`/`Failed` under a mutex, a condition variable | `publish`, `wait` | preparation thread writes, connection threads wait |
| milter (`milter.rs`) | per connection: `MessageState`, `Caps` | one handler per command, `handle_eom`, `emit_modifications` | MTA over a socket; `clean_message_fail_open`; `PreparedConfig` |
| fail-open (`lib.rs`) | none | turns an error into the original message, or passes it on | between milter and cleaner |
| finalization and loading (`config.rs`, `ruleset.rs`) | source lists, finalization key, active ruleset, builder and report | `finalize`, `finalize_with_loader`, `add_source_*` | a loader (files, HTTPS); the rule parsers |
| sender policy (`config.rs`) | policies, list of sensitive senders | `effective_for_sender` | used by message assembly |
| link cleaning (`url_clean.rs`, `redirect.rs`, `html.rs`) | none per link | `clean_url`, `unwrap_redirect_url`, `process_href` | ruleset queries, validation, resolver |
| message assembly (`mime.rs`) | queued replacements, processed parts, counters | `clean_message`: HTML bodies, undecodable HTML, plain text, splice | parser, HTML rewriter, encoders |
| HTML cleaning (`html.rs`) | counters | handlers for `href`, `img`, styles, `ping` | link cleaning |
| ruleset (`ruleset.rs`) | canonical sources, disabled providers, compiled store with indexes | `finish`, `merge`, `disable`; `context_for`, `should_remove_parameter`, `redirect_target_with_origin`, `is_beacon_url` | built by the loader, asked by link cleaning |
| rule packs (`ruleset.rs`) | intermediate rules and counters of one pack | format detection, one parser per format, simplification of expressions, limits | called by the loader, feed the store |
| resolver (`network.rs`), validation (`validate.rs`) | hop, current URL | `resolve_impl`, `preflight_ok`, `resolve_ip_is_safe`, `classify_redirect_location`, `validate_destination` | name servers, HTTP servers; asked by link cleaning |
| encodings (`encoding.rs`, `build_replacement_with`) | output, column | charset conversion, quoted-printable, base64, 7bit refusal | message assembly |

The command-line tool, the systemd listener and the packaging are listed in
PROJECT.json with the reason they are not modelled.

What is hard: connections start before the rules are compiled and must all be
woken by one publication, also if compiling panics; the answer to a message is
several packets and the peer may vanish between two of them; packets before
and after the one that crosses the size limit must not be told apart wrongly; a
configuration may be changed and finalized again; parts of one message are
queued for replacement by three loops in one order and spliced in another;
rules are deduplicated and reached only through indexes, which must not change
what they say; an expression is replaced by words or a prefix when that is
cheaper, and must mean the same; an address is checked by one look-up and used
by another; and policies, protections and lists are applied in sequence, each
able to undo what the one before promised.

## Modules

**RulePromise** is what a connection thread is promised of the rules: decided
once, every question answered with the decision. **PreparedConfig** is the
mutex and the condition variable, one action per step between which another
thread can run: `publish` is PublishLock, PublishStore, PublishNotify and
PublishUnlock; `wait` is WaitLock, WaitPark (release and park in one step, as a
condition variable does) and WaitReturn; `Finalize` is the `catch_unwind`
around `finalize()`, which turns a panic into `None` in a build that unwinds.
The release profile has `panic = "abort"` (`Cargo.toml:63`): there a panic is
FinalizeAborts, which ends the process and every connection thread with it, and
the promise is that nobody is left waiting otherwise. **PreparedConfigProofs**
has the proofs.

**MailVerdict** is what the MTA gets: one verdict per message, decided on
complete rules only, and what became of the message under it. "cleaned" is said
of a message only when all of a body that is not empty went out; a body that
cleaning emptied goes out in no packet, so the MTA delivers the one it had,
and the verdict is "emptied", the one that misleads (see milter_empty_body
below). **Milter** is the daemon: one
action per command of `handle_connection_preparing`, then WaitReturns,
HandleEom (up to the first write) and one action per answer packet. `msg` is
`MessageState`, `caps` is `Caps`, `prepared` the state of `PreparedConfig`
seen through its promise (which the module implements, see ImplementsPromise;
that the mutex implements the same promise is PreparedConfig's result); the
panic that ends the process ends every conversation and is PreparedConfig's
concern only.
Headers and body chunks are lengths, since the milter only counts and forwards
them. Two history variables, `offered` and `allowed`, are the MTA's side of
the conversation. The cleaner is the set of results the milter can tell apart:
modified or not, how many REPLBODY chunks, how many audit headers; an error
may happen for any message and must happen for one that is too large.
**MCMilter** has the instances, **MilterProofs** the proofs.

**RuleLoading** is `finalize`/`finalize_with_loader`,
`build_ruleset_with_loader` and the `RulesetBuilder`. A pack is its size and
what its bytes turn out to be (kept, not UTF-8, malformed, of unknown format,
over the rule or regex limit); a loader may fail or return something else next
time. A configuration is its three lists of sources, `rule_packs`,
`rule_pack_urls` and `rule_pack_sources`; `Edit` is the caller changing them,
and FinalizationKey has all three. The other fields of the key (parameters,
disabled providers, limits) do not change here. A configured source may have the
name "builtin": it is loaded like any other, and as in the code the limits on
rules do not apply to it (`ruleset.rs:974-989`). **MCRuleLoading** and **RuleLoadingProofs** belong to it.

**SenderPolicy** (`effective_for_sender`) and **LinkCleaning** (`clean_url`,
`unwrap_redirect_url`, `process_href`) are pure operators. A link is its host,
its parameter names in order and at most one embedded destination; the ruleset
is the relations it defines on hosts and parameters, and the resolver what it
answers for the links of a host (that the answer may be had is NetworkResolve's
concern). Within one message the same link gets the same answer. **CleanMessage** composes
them: `clean_message` with `clean_html_ctx`, one action per part and stage. A
message is a row of cells (links, pixels, CSS beacons, words, part boundaries),
so that cleaning changes lengths and a splice at a wrong offset is visible.
An attachment of an HTML type is a part that is no body and declares HTML:
PartsInPlace says that it is delivered as it came or cleaned, in its place, and
AttachmentsPreserved what the documentation says of it.
**MCCleanMessage** has the messages and configurations, **CleanMessageProofs**
the proofs.

**Selection** is `retain` and `filter`: a sequence without the elements outside a
set. **SequenceFacts** proves, for any operation and any sequence, what folds and
selections do; the proofs instantiate it with the operation they are about.

**BodyEncoding** is `build_replacement_with`: charset conversion, one step per
iteration of `encode_quoted_printable`, base64, the refusal of new high bytes
and the line breaks at the end; a part whose range is not in the message is left
alone, and content that is not UTF-8 is taken as it is. Characters are code
points and bytes numbers;
a charset is the part of its table the instance uses, the tables being those of
a library. **MCBodyEncoding** has the texts and a reader that decodes them,
**BodyEncodingProofs** the proofs about line lengths and 7bit parts.

**Destination** is `validate_destination`, `preflight_ok` and the allow-list on
parsed URLs; the allow-list compares text, so an entry also stands for the literal
addresses that end in it after a dot. **AddressBlocks** are the blocks that `validate.rs` names, as a base
and a number of bits, against which its tests are held. **ResolvePromise** is what
link cleaning is promised of the resolver. **NetworkResolve** is `resolve` and
`resolve_impl`: an iteration of the loop is Check, Lookup, Connect and a reply,
and name servers (`ChangeDns`) may change their answers before any of them,
since the HTTP client looks the name up again. Servers answer with any status
and any Location. **MCNetworkResolve** and **NetworkResolveProofs** belong to
it.

**UrlScopes** is which URLs a rule is written for: the scopes, the matchers of
their patterns and the host hints the indexes are built from. Text is a
sequence of tokens, punctuation and whole host labels or words; case is left
out, and a regex is a literal searched for in the text. The matchers keep the
code's one-pass loop with its last star (GlobLoop); Denotes is what a pattern
means. **RuleStore** is `compile_store`, `context_for`,
`should_remove_parameter` and `redirect_target_with_origin`: `canonical`,
`disabled` and `store` are the fields of `Ruleset`, Merge and Disable its two
mutating methods. Merge takes any ruleset: a sequence of sources of any names,
and the providers disabled in it. Include and exclude lists are sets, where
ParamDedupKey has ordered slices: the code keeps two groups where only the order
differs, which changes no answer. Candidates are tried in
source order, so a redirect's answer is the least place. What a redirect
extracts is left at whether the URL carries something at the place it looks.
**RegexIndex** is what the store builds to match many patterns at once: the
tries of provider literals, insertion, flat form and search
(`DirectProviderIndex`), and the batches of expressions that are compiled as
sets, split in halves when they do not fit (`compile_indexed_regexes`,
`compile_regex_chunks`, `compile_regex_batch`). **MCRuleStore** has packs of
all formats that overlap, **RuleStoreProofs** the proofs. LinkCleaning does not
use these modules: it takes the ruleset as the relations it answers with.

**RulePacks** is the parsers: `Detect` decides on the format, each entry of a
pack is one action for its format and fate, and `EndParse` applies the limits. An
expression is the syntax tree of the library that parses it, which is what
`literal_prefix` and `expand_hir` work on. A matcher has what it looks at
(`ParamSubject`), whether it minds case and whether it wants a "=": ClearURLs
patterns take the decoded name, Brave's entries the raw name, an AdGuard name
the decoded name (with its case under `match-case` only), and an AdGuard
expression, wrapped as `^(?:...)$`, the whole decoded `name=value`. What a
redirect rule takes from a URL is here too (`extract_redirect_target`). **MCRulePacks** has the packs, and
what the formats mean: a matcher for expressions, what a filter line asks for
of a segment of the query, what a debounce entry leads to.

## Runs

| run | bounds | shows |
|---|---|---|
| prepared_config | 3 waiters, 2 calls each | NoLostWakeup, EveryCallReturns, implements RulePromise |
| milter | 2 connections, limit 12 bytes, at most 2 packets per message on one and empty messages on the other, an answer of 0 or 2 body chunks and 1 header | ExactAccounting, OversizeIsDeferred, ReconstructedSize, OnlyPermittedActions, EomConcludes, implements MailVerdict and RulePromise |
| rule_loading | 2 sources and one named as the built-in pack, room for 2, repeats within and across the three lists, 3 sizes, 1 edit | WithinLimits, LayersAgree, ReportIsComplete |
| clean_message | 4 messages of up to 4 parts, 3 senders, 423 configurations | PartsInPlace, ModifiedIsTrue, HeadersAreTrue, UnsubscribeIntact, BlockedNeutralised, CarveOutsHold, SecurityLinksSurvive |
| rule_store | built-in pack and up to two of four external ones, merged rulesets of one or two sources, 3 sources, 2 provider names to disable; patterns and texts of up to 4 tokens for the matchers, texts of up to 5 characters and literals of up to 3 for the tries, lists of up to 4 expressions in batches of 3 or 4 bytes | RulesDecide, NoForeignRules, GivenExceptionsHold, RedirectsDecide, MatchersAgree |
| network_resolve | 7 URLs, 2 names, 3 addresses, up to 2 answers a name, 5 redirects as in the code | ContactsChecked, BlockedRanges, ResolutionEnds, implements ResolvePromise |
| body_encoding | texts of up to 5 bytes or 3 characters, 5 charsets, 3 transfer encodings, 5 and 6 columns | LinesFit, ReadsBack, SevenBitStays |
| rule_packs | packs of 1 or 2 entries: expressions of up to 3 parts, lines of up to 2 modifiers, templates of up to 4 characters; at most 3 words, 6 rules, 4 expressions | PatternsAsWritten, RulesAsWritten, AccountsBalance |

Why the bounds are enough. Lost wake-ups and notify-one errors need two
waiters; a third makes the order of re-acquisition matter, and a second call
lets a thread come back after the publication. The sizes of the milter run are
chosen so that a header and a chunk fit exactly, two headers that fit alone do
not fit together, and a packet that was refused can be followed by one that
would fit. The second connection is there to share the preparation, which is
all that connections share; its messages are empty. The rule packs can be too
big alone, too big after another, or fill what is left exactly; with one edit
the cache is hit, missed and hit again, and two of the configurations differ in
one field of the key only. The messages have every kind of part (HTML body, undecodable
HTML, plain text, attachment, oversized, unencodable, listed twice) and of link
(unsubscribe in both orders, redirect to an accepted, a blocked and a refused
destination, to its own site under a rule of Brave's, answered by the resolver
with a blocked or an ordinary one, blocked directly, excluded, with kept, global and vendor
parameters), and parts queued out of offset order. Two external packs beside the built-in one
let a rule be repeated with other exceptions or exclusions, and let the order
of sources matter; a third merge would only repeat this. What is merged is read
from a text, and so called "source", or built from several named ones; two of
them have a provider of the same name, with exceptions and without, and one pack
has an entry with a host in only one of its scopes. The URLs are a named
host, one under it, one with a trailing dot, one that merely begins alike, and
one with a named host in its path. Patterns of four tokens hold two stars with
something between and after them, which is where forgetting all but the last
star could go wrong.

Texts of five literals and tails of five characters hold a branch, a literal
within another and an empty label; four expressions in batches of three or four
bytes fill a batch, cross its limit by one and by a long one, and are split
twice. The columns of quoted-printable are fewer than in the code (75), so that
five characters, each up to three columns, cross them everywhere an escape can
stand; a line of base64 has six letters, so that groups of four are also cut (76 in
the code is a multiple of four, and they are not). The address tests
are compared with the blocks at both ends of each block. Three words are enough
for an expression to be at, under and over the expansion limit.

CHECK_DEADLOCK is FALSE everywhere: every system here may stop (all calls
made, all connections closed, the message cleaned).

## Fairness

The preparation thread and the waiters are weakly fair: a thread that can run
is run. Taking the mutex for the publication is strongly fair: before the
publication a waiter holds the mutex only to look and to park, so only an
endless run of spurious wake-ups could keep it from the publisher. In
NetworkResolve each step of the loop is weakly fair, whatever the name servers
do: the request and its answer are bounded by the client's timeout. The look-up
is not (`resolve_ip_is_safe` ignores its timeout, `network.rs:228-251`): its
fairness rests on the timeout of the operating system's resolver. In Milter
the publication is weakly fair, because loading is bounded (byte limits and
timeouts in the loaders), and so is what a connection thread does after
end-of-message: an MTA that stays connected reads its socket. Nothing obliges
an MTA to send a command, and nothing in the code times out a read, so no
property asks for progress there.

## Where documentation and code differ

Each is a run that TLC finds violated.

* **no_modify**: a sender policy with `no_modify = true` and `mode =
  "enforce"` is enforced, since the mode is applied after `no_modify`
  (`config.rs:696-701`); the field's doc says the body is never modified.
* **attachments**: an attachment of an HTML type is taken by the recovery stage,
  which cannot tell it from HTML the parser failed to decode, and cleaned as raw
  bytes, though it may have a transfer encoding (`mime.rs:165-222`). The README
  of the repository says attachments are not altered (25-26, 585), and so does
  the doc of `mime.rs` (6-8).
* **rule_store_namesakes**: rulesets read from texts all have the source name
  "source" (`ruleset.rs:1078`), so after `merge` the rules of two providers of
  one name are given the id, and with it the exceptions, of the last
  (`ruleset.rs:1667`); README.md:271 says exceptions remain attached to their
  own rules. TLC violates ExceptionsHold in two merges. What the store does
  instead is GivenExceptionsHold, which rule_store checks over the same merges:
  the exceptions a rule is given are those of the last such provider, and
  nothing undoes them.
* **milter_empty_body**: a body that cleaning empties is not replaced
  (`milter.rs:429-433`).

Seen on the way, and not made a run of.

In the settings:

* with any blocked domain configured, the link handler is installed for
  sensitive senders too, and `clean_url` strips global tracking parameters from
  their links (`html.rs:138-141`, `url_clean.rs:47`); the doc of
  `protect_sensitive_senders` says they are skipped. SecurityLinksSurvive is
  about configurations without a block-list.
* with `clean_text_plain` on, List-Unsubscribe targets in plain text are
  rewritten (`mime.rs:240`); UnsubscribeIntact is about HTML.
* a `max_rule_pack_bytes` below the size of the built-in pack drops the
  built-in rules (`ruleset.rs:906`).

In the rules:

* `context_for` looks a host with a trailing dot up as it is written, so that
  rules found by host do not apply to it, while redirects do (RulesDecide
  leaves such hosts out, RedirectsDecide has them).
* a Clean URLs entry of which one include names a host and another does not is
  looked up under that host only (`ruleset.rs:2453`), so it is never applied
  where only the other matches. `build_redirect_index` handles the same case, a
  test comment says how (`ruleset.rs:4650`), and README.md:272 promises exact
  cleaning from that list; no line says it of parameter rules in so many words.
  RulesDecide asks of such a rule that it removes no more than it says, and
  MixedPack has one.
* `$removeparam=/` starts and ends with the same slash, and the slice between
  is `[1..0]`, which panics (`ruleset.rs:3713`); with `panic = "abort"` in the
  release profile the program ends. TakeLinePanics is that step.
* anchors are taken for the empty word when an expression is replaced by words
  (`ruleset.rs:3944`) or by a prefix (`ruleset.rs:3898`), so a provider pattern
  `^https?://x$` covers every URL that begins so, and a class that has NUL, `A`,
  `z` and `/` is taken for any character (`ruleset.rs:3916-3940`), so
  `x[^0-9]*` covers `x1`. PatternsAsWritten has such patterns in rules and in
  providers: what is kept covers all that is written, and more only where the
  expression has an inner anchor or a class that passes for any.
* an AdGuard expression is matched against the whole `name=value`
  (`ruleset.rs:3717-3736`, `tests/rule_formats.rs:39`), so `/u|t/` removes
  nothing; RulesAsWritten reads it so.
* one invalid exception of a ClearURLs provider discards the whole pack, where
  README.md:373-374 says single expressions are skipped; an AdGuard exception
  that cannot be parsed is dropped and the rule it tempers stays.
* a redirect rule with several include scopes may be brought up by the host of
  one and accepted by another for what stands in the path of the URL
  (`ruleset.rs:1281-1310`); a rule with one such scope would not be.
* placeholders of a template are filled one after the other, so a captured text
  that holds `$2` is filled again (`ruleset.rs:2725`); the captures in
  MCRulePacks have no `$`.

Elsewhere:

* `decode_charset` reads "iso-8859-1" as windows-1252 while `reencode_charset`
  writes characters above 255 as `?`.
* the check for mixed scripts sees host names in their ASCII form only, so it
  accepts every parsed URL.

## Proofs

tlapm proves, for every value of the constants:

* PreparedConfig: TypeOK; NoLostWakeup; every step is a step of RulePromise or
  a stutter. The invariant adds that the mutex has the holder its control
  points say, and that the state is Loading exactly until PublishStore. Without
  the first, a waiter could park between the store and the notification.
* Milter: TypeOK; ExactAccounting; OversizeIsDeferred; OnlyPermittedActions;
  every step is a step of MailVerdict or a stutter. The invariant adds that
  `caps` are the actions last permitted, that past HandleEom the message is not
  marked, and that at each answer point what was sent is what the points before
  it write: REPLBODY packets up to the number of chunks, then headers.
  ReconstructedSize has an invariant of its own: the message as it would be
  rebuilt now is two bytes longer than what was counted (`Sized`).
* RuleLoading: TypeOK; WithinLimits; LayersAgree, a property of the steps: a
  source that the builder reports as over a budget exceeds the configured one,
  given what the external sources before it had used. The invariant relates the
  counts of the builder to those of the loop (`CountsCorrespond`): the report
  is as long as the number of attempts, attempts are at least the sources
  loaded plus one for the built-in pack, and exactly that while there is still
  room. Without it the limit on sources could be passed by the report alone.
  ReportIsComplete is about the end of the loop; the invariant (`Reported`)
  says the same of the part of the list that has been visited, and of the
  ruleset that stays in use while the list is edited.
* RuleStore: whatever is merged or disabled, the store is what compile_store
  makes of the sources it keeps (the inductive invariant, `Compiled`). From it:
  every redirect rule that covers a URL at its host is a candidate; a parameter
  rule that names hosts acts on no other host, although its pattern alone may
  accept such a URL (NoForeignRules); and a parameter rule whose includes all
  name hosts, or none of which does, takes effect wherever it covers a URL
  without a trailing dot. The restriction to uniform rules is needed: see the Clean
  URLs entries above. RedirectsDecide is proved under a
  condition on the rules and URLs (`AtItsHost`): the rule has one include scope
  at most, or none that accepts a URL for a host it only finds in the path.
  Without it the property is false, as listed above; the rules of the run
  meet it.
* RuleStore, what is removed: RulesDecide (RulesAreDecided) and
  GivenExceptionsHold (ExceptionsAlwaysHold), for any packs, merges and disabled names. Two things
  stand between a pack and the answer, and each gets its lemmas. The first is
  deduplication, which keeps one group of many rules and adds up their
  providers. By induction over the rows of rules (GroupedIs) the groups are the
  rules by key: none is lost or invented, each has the providers of all its
  rules and no two have one key; rules of different formats never share one,
  because their scopes are of different kinds (FormatsApart). So a group says
  what each of its rules says (ApplyTogether), is spared by exceptions exactly
  when all of them are (ExceptedTogether), by AdGuard exceptions when each is
  (SparedTogether), and removes what some of them removes (RemoveTogether). The
  second is the index, which offers every group that covers a URL at its host,
  where that is written without a trailing dot, and no other for any host
  (CoversActive, ActiveCovers). Which
  exceptions a group is given is a fact about the last provider of a name in the
  joined rows of providers (LastOfJoined, IdsAre): it is the last source of that
  name that has one, and the statement says so (GivenExcepted). That they need
  not be the rule's own is what rule_store_namesakes shows. One hypothesis
  remains (`RulesAtTheirHosts`): a rule names hosts without a trailing dot, and
  if it has several include scopes they accept no URL for a host they only find
  in the path. It is about states, not about constants, so packs that only come
  to meet a rule of another kind by a merge are covered until then. All states of
  rule_store without MixedPack meet it; those with it are only model-checked.
* NetworkResolve: TypeOK; ContactsChecked; every step is a step of
  ResolvePromise or a stutter. The invariant follows the current URL through
  the loop: from Check on it is on the list, from Lookup on it has passed the
  preflight, from Connect on all the addresses seen were unblocked, and a
  literal address is the one seen, so that the second look-up cannot differ.
  The address tests, which compare octets and mask segments, refuse exactly the
  blocks of AddressBlocks, for all addresses of version 4 and 6 (BlocksExact):
  BlockedRanges holds whatever is probed.
* BodyEncoding: LinesFit, for every text, line ending and width of at least one
  escape. The invariant adds that `line_len` is the distance to the last line
  break (`ColumnKnown`); the window of octets is then the columns, the `=` of
  the soft break and the line ending. SevenBitStays, for every text, charset
  and encoding, from an invariant on bytes (`SevenBitInv`): the output of
  quoted-printable is low at every step, and the content to encode is low
  unless the text is not ASCII. A part is left alone for such a text or for want
  of a place in the message.
* CleanMessage: every queued replacement is that of a different part
  (QueueFromParts), of which the reason is not the same in the three loops: the
  first goes through the parts once, the others ask `processed_parts`. From it:
  links in what is queued are safe (LinksSafe), for any rules, lists and
  policies; and a result is modified only in enforcing mode, never under
  `no_modify` without a mode (ReportOnlyKeeps; with one, see no_modify above).
* CleanMessage, what is delivered (an HTML attachment either way):
  PartsInPlace, ModifiedIsTrue,
  UnsubscribeIntact, BlockedNeutralised, SecurityLinksSurvive, CarveOutsHold,
  for any message, rules, lists and policies. The invariant (`Queued`) says
  exactly which parts are in the queue at each point of the three loops, each
  as cleaned by the loop it belongs to, and that the result is the queue spliced
  into the original. What remains is about operators. Sorting by offset
  from the end and splicing in that order puts each replacement at its part: a
  splice changes nothing before its start (SpliceAll, SortedFalls). The parts
  of the result are those between boundaries (SegmentIs). Cleaning keeps the
  order and number of links (LinksOfHtml, LinksOfText), so the n-th link
  of a delivered part is the n-th that came, rewritten (LinkAfter). The carve-outs
  are then about one link. For ModifiedIsTrue a queued replacement has to differ
  from its part: a count above zero means that some cell changed (HtmlChanges,
  TextChanges).
* CleanMessage, what the headers say: HeadersAreTrue and TypeOK, for any message,
  rules, lists and policies. Each counter is added to once per part, by three
  loops that see different parts, so the invariant (`Tallied`) speaks of the
  parts taken on so far, `Taken`: the counters are the number of those that are
  HTML, over the size limit, recovered or impossible to write back, and for
  links, trackers and pings the difference between the message that came and the
  one with those parts cleaned (`Tally`, `Now`). This is of the parts cleaned and
  not of the queue: in report mode, and for content that cannot be encoded,
  the counters move and nothing is queued. After a failure of the HTML rewriter
  the loops have no position, and the invariant only says that some set of parts
  accounts for the counters. At the end, where nothing found was lost, the
  message with those parts cleaned is the one delivered (NowIsDelivered), and the
  headers are about what the recipient gets. What a step adds is a fact about
  one part: the counts of HtmlStats and TextStats are what cleaning makes of the
  part (HtmlTally, TextTally), and one more part cleaned changes the counts of
  the row by those of the part (RowTally, NowOne). No part is due in two
  loops (DueOnce). The bounds of TypeOK follow: what is removed was there, and a
  message has no more parts than places (MorePiecesThanParts).

Folds are handled in SequenceFacts: `Folded` iterates an operator that is a
parameter of the module, induction over the natural numbers is induction on a
set, and a lemma for each fold of the models says that it is `Folded` for
its operation (LaidIsFolded, SplicedIsFolded, DistinctIsFolded and so on).

The assumptions are those of the modules: sizes and limits are naturals; names
of threads and sources are distinct from the reserved ones; a message is a row
of parts, and the parser lists HTML it could not decode in neither body, so that
the stages that recover it and that clean plain text do not meet
(MessageAssumption); a resolver answers one link or none
(ResolverAssumption); a source is what a parser makes, sequences of providers
and of rules with the kind of scope their format gives them (PacksAreParsed),
and hosts are sequences of labels (HostsAreLabels); texts are code points, charsets give bytes, and what
follows the last line of a part is line ends (InputAssumption); addresses are
of version 4 or 6 (ProbeAssumption).

Only model-checked:

* everything temporal that needs fairness (EveryCallReturns, EomConcludes,
  ResolutionEnds, the fairness parts of the refinements);
* MatchersAgree, ReadsBack and all of RulePacks, which compare recursive
  functions on texts or trees with what these mean.


## Not modelled

* Beacon and raw rules at run time (`is_beacon_url`, `apply_raw_rules`) and the
  Google extractor, which are string matching without state; the decoding of
  redirect candidates (`redirect.rs`), at most four rounds of percent and one of base64
  decoding. Which rules of these kinds a pack gives is modelled.
* The pixel heuristics and the CSS scanner: the kind of a cell says what they
  decide.
* Header insertion and the wording of headers.
* The MIME parser, the HTML rewriter, the expression library and the HTTP
  client are external: the models take what the code takes from them.
* The command line, listener activation and packaging: they run once, before
  or around what is modelled.
