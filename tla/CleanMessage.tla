---------------------------- MODULE CleanMessage ----------------------------
(***************************************************************************)
(* clean_message of src/mime.rs with clean_html_ctx of src/html.rs: the    *)
(* parts of a message are visited three times (HTML bodies, HTML that the  *)
(* parser could not decode, plain text), what changed is queued, and the   *)
(* queued replacements are spliced into the raw message at the end.        *)
(*                                                                         *)
(* A message is a row of cells.  A cell is a link, something that calls    *)
(* home when the message is opened, other text, or the boundary between    *)
(* two parts; cleaning can drop a cell, so a splice moves what follows it. *)
(* The debugging options that keep the original href or the removed tag    *)
(* are off, as they are by default.                                        *)
(***************************************************************************)
EXTENDS LinkCleaning, SenderPolicy, FiniteSets, TLC

CONSTANTS
  Configs,    \* configurations
  Messages    \* messages within max_message_size, as the parser presents them

\* CleanerConfig, as far as it decides about a message.
Configuration ==
  [mode : {"Enforce", "ReportOnly"}, clean_html : BOOLEAN, clean_text_plain : BOOLEAN,
   remove_pixels : BOOLEAN, neutralize_css_beacons : BOOLEAN, strip_link_ping : BOOLEAN,
   clean_query_params : BOOLEAN, apply_vendor_rules : BOOLEAN, unwrap_known_redirects : BOOLEAN,
   network_redirect_resolution : BOOLEAN, protect_sensitive_senders : BOOLEAN,
   blocked_domains : SUBSET Host, exclude_domains : SUBSET Host, keep_params : SUBSET Param,
   extra_tracking_params : SUBSET Param, sender_policies : Seq(SenderPolicies)]


-----------------------------------------------------------------------------
(* Cells and parts.                                                        *)

Cell(tag, url, ping) == [tag |-> tag, url |-> url, ping |-> ping]

Boundary == Cell("boundary", Blank, FALSE)
Words    == Cell("text", Blank, FALSE)

\* Links, and what else a part is made of.
Anchors == [tag : {"a"}, url : Link \cup {Blank}, ping : BOOLEAN]
Cells   == Anchors \cup [tag : {"img", "css", "text"}, url : {Blank}, ping : {FALSE}]

\* A part as the parser presents it.  Text it could not decode is listed in
\* neither body, so what is in the text body as text was not declared as HTML.
Part ==
  {p \in [kind : {"text", "html", "binary"}, declares_html : BOOLEAN, html_body : BOOLEAN,
          text_body : BOOLEAN, readable : BOOLEAN, oversized : BOOLEAN, encodable : BOOLEAN,
          cells : Seq({c \in Cells : c.tag = "a" => c.url # Blank})] :
     p.kind = "text" /\ p.text_body => ~p.declares_html}

ASSUME ConfigAssumption == Configs \subseteq Configuration

ASSUME MessageAssumption ==
  Messages \subseteq [sender : Sender, unsubscribe : SUBSET Link, parts : Seq(Part)]

VARIABLES
  config,        \* the loaded configuration
  message,       \* the message: its sender, List-Unsubscribe targets and parts
  stage,         \* "html", "recover", "plain", "splice", "done" or "failed"
  next,          \* the part visited next
  stats,         \* CleanStats
  replacements,  \* replacements in the order they were queued
  processed,     \* processed_parts
  skipped,       \* skipped_oversized_parts
  recovered,     \* cte_mismatch_parts
  unencodable,   \* unencodable_parts
  result         \* the CleanerResult: the body and whether it was modified

vars == <<config, message, stage, next, stats, replacements, processed, skipped, recovered,
          unencodable, result>>

-----------------------------------------------------------------------------
(* The raw message.                                                        *)

Parts == message.parts

\* raw: every part after a boundary, and a last boundary.
Laid(pieces) ==
  FoldLeft(LAMBDA row, piece : row \o piece \o <<Boundary>>, <<Boundary>>, pieces)

Raw == Laid([i \in DOMAIN Parts |-> Parts[i].cells])

\* offset_body and offset_end of a part.
Start(parts, i) == Len(Laid([j \in 1..(i - 1) |-> parts[j].cells]))
End(parts, i)   == Start(parts, i) + Len(parts[i].cells)

-----------------------------------------------------------------------------
(* Cleaning one part.                                                      *)

eff == EffectiveForSender(config, message.sender)

\* Variant of HandlesLinks that forgets the block-list.
HandlesLinksIfCleaning(cfg) == cfg.clean_query_params \/ cfg.unwrap_known_redirects

\* The condition under which the href handler is installed.
HandlesLinks(cfg) ==
  cfg.clean_query_params \/ cfg.unwrap_known_redirects \/ cfg.blocked_domains # {}

\* What the handlers do to a cell, and under which configuration and with
\* which sensitive links.
Change(cell, cfg, sensitive) ==
  IF cell.tag = "a" /\ HandlesLinks(cfg) THEN HrefChange(cell.url, cfg, sensitive) ELSE "none"

\* Tracking pixels go; what else a handler may touch is rewritten in place.
IsRemoved(cell, cfg) == cell.tag = "img" /\ cfg.remove_pixels

IsBeacon(cell, cfg) == cell.tag = "css" /\ cfg.remove_pixels /\ cfg.neutralize_css_beacons

CleanCell(cell, cfg, sensitive) ==
  IF IsBeacon(cell, cfg) THEN Words
  ELSE Cell(cell.tag,
            IF Change(cell, cfg, sensitive) = "none" THEN cell.url
            ELSE ProcessHref(cell.url, cfg, sensitive),
            cell.ping /\ ~cfg.strip_link_ping)

Mapped(Op(_), cells) == [n \in DOMAIN cells |-> Op(cells[n])]

Remaining(cells, cfg) == Select(cells, {c \in Cells : ~IsRemoved(c, cfg)})

CleanHtml(cells, cfg, sensitive) ==
  Mapped(LAMBDA c : CleanCell(c, cfg, sensitive), Remaining(cells, cfg))

\* A text/plain part is cleaned by clean_url alone.
CleanText(cells, cfg) ==
  Mapped(LAMBDA c : IF c.tag = "a" THEN Cell(c.tag, CleanUrl(c.url, cfg), c.ping) ELSE c, cells)

HowMany(cells, Test(_)) == Cardinality({n \in DOMAIN cells : Test(cells[n])})

NoStats == [html_parts |-> 0, urls_cleaned |-> 0, redirects_unwrapped |-> 0,
            pixels_removed |-> 0, pings_stripped |-> 0]

\* Variant of HtmlStats that counts a link that was unwrapped as cleaned, too.
HtmlStatsTwice(cells) ==
  [html_parts |-> 1,
   urls_cleaned |-> HowMany(cells, LAMBDA c : Change(c, eff, message.unsubscribe) # "none"),
   redirects_unwrapped |-> HowMany(cells, LAMBDA c : Change(c, eff, message.unsubscribe) = "Unwrapped"),
   pixels_removed |-> HowMany(cells, LAMBDA c : IsRemoved(c, eff) \/ IsBeacon(c, eff)),
   pings_stripped |-> HowMany(cells, LAMBDA c : c.ping /\ eff.strip_link_ping)]

HtmlStats(cells) ==
  [html_parts |-> 1,
   urls_cleaned |-> HowMany(cells, LAMBDA c : Change(c, eff, message.unsubscribe) = "Cleaned"),
   redirects_unwrapped |-> HowMany(cells, LAMBDA c : Change(c, eff, message.unsubscribe) = "Unwrapped"),
   pixels_removed |-> HowMany(cells, LAMBDA c : IsRemoved(c, eff) \/ IsBeacon(c, eff)),
   pings_stripped |-> HowMany(cells, LAMBDA c : c.ping /\ eff.strip_link_ping)]

TextStats(cells) ==
  [NoStats EXCEPT !.urls_cleaned =
     HowMany(cells, LAMBDA c : c.tag = "a" /\ CleanUrl(c.url, eff) # c.url)]

Plus(s, t) == [f \in DOMAIN s |-> s[f] + t[f]]

-----------------------------------------------------------------------------
(* The stages.                                                             *)

NoResult == [body |-> <<>>, modified |-> FALSE]

Init ==
  /\ config \in Configs
  /\ message \in Messages
  /\ stage = "html"
  /\ next = 1
  /\ stats = NoStats
  /\ replacements = <<>>
  /\ processed = {}
  /\ skipped = 0
  /\ recovered = 0
  /\ unencodable = 0
  /\ result = NoResult

\* The parts each stage takes on; next is passed over otherwise.
IsHtmlBody(i) == eff.clean_html /\ Parts[i].html_body /\ Parts[i].kind = "html"

\* Declared text/html, but not decoded by the parser into a body; its raw bytes
\* must read as text with a tag in it.
IsUndecodedHtml(i) ==
  /\ eff.clean_html
  /\ ~Parts[i].html_body /\ i \notin processed
  /\ Parts[i].declares_html /\ Parts[i].readable

\* Variant of IsPlainText that forgets which parts were done.
IsTextBody(i) == eff.clean_text_plain /\ Parts[i].text_body

IsPlainText(i) ==
  /\ eff.clean_text_plain
  /\ Parts[i].text_body /\ i \notin processed
  /\ Parts[i].kind = "text"

Takes(i) ==
  CASE stage = "html"    -> IsHtmlBody(i)
    [] stage = "recover" -> IsUndecodedHtml(i)
    [] stage = "plain"   -> IsPlainText(i)

Visit ==
  /\ stage \in {"html", "recover", "plain"}
  /\ next <= Len(Parts)
  /\ next' = next + 1
  /\ UNCHANGED <<config, message, stage, result>>

PassOver ==
  /\ Visit
  /\ ~Takes(next)
  /\ UNCHANGED <<stats, replacements, processed, skipped, recovered, unencodable>>

CountRecovered == recovered' = recovered + IF stage = "recover" THEN 1 ELSE 0

\* max_html_part_size: counted as seen, and left alone.
SkipOversized ==
  /\ Visit
  /\ stage # "plain"
  /\ Takes(next)
  /\ Parts[next].oversized
  /\ stats' = [stats EXCEPT !.html_parts = @ + 1]
  /\ skipped' = skipped + 1
  /\ CountRecovered
  /\ UNCHANGED <<replacements, processed, unencodable>>

\* build_replacement fails when the new text does not fit the part's charset
\* or transfer encoding.
Queue(i, cells, changed) ==
  IF eff.mode = "Enforce" /\ changed
  THEN IF Parts[i].encodable
       THEN /\ replacements' =
                 Append(replacements,
                        [start |-> Start(Parts, i), end |-> End(Parts, i), cells |-> cells])
            /\ processed' = processed \cup {i}
            /\ UNCHANGED unencodable
       ELSE unencodable' = unencodable + 1 /\ UNCHANGED <<replacements, processed>>
  ELSE UNCHANGED <<replacements, processed, unencodable>>

CleanHtmlPart ==
  LET cells == Parts[next].cells
      found == HtmlStats(cells)
  IN /\ Visit
     /\ stage # "plain"
     /\ Takes(next)
     /\ ~Parts[next].oversized
     /\ stats' = Plus(stats, found)
     /\ Queue(next, CleanHtml(cells, eff, message.unsubscribe), found # [NoStats EXCEPT !.html_parts = 1])
     /\ CountRecovered
     /\ UNCHANGED skipped

CleanPlainPart ==
  LET cells == Parts[next].cells
      found == TextStats(cells)
  IN /\ Visit
     /\ stage = "plain"
     /\ Takes(next)
     /\ stats' = Plus(stats, found)
     /\ Queue(next, CleanText(cells, eff), found # NoStats)
     /\ UNCHANGED <<skipped, recovered>>

\* The rewriter gives up on a part: clean_message returns the error, and
\* nothing of what was queued is used.
RewriterFails ==
  /\ stage \in {"html", "recover"}
  /\ next <= Len(Parts)
  /\ Takes(next) /\ ~Parts[next].oversized
  /\ stage' = "failed"
  /\ UNCHANGED <<config, message, next, stats, replacements, processed, skipped, recovered,
                 unencodable, result>>

EndStage ==
  /\ stage \in {"html", "recover", "plain"}
  /\ next > Len(Parts)
  /\ stage' = CASE stage = "html" -> "recover" [] stage = "recover" -> "plain"
                [] stage = "plain" -> "splice"
  /\ next' = 1
  /\ UNCHANGED <<config, message, stats, replacements, processed, skipped, recovered,
                 unencodable, result>>

Splice(row, r) == SubSeq(row, 1, r.start) \o r.cells \o SubSeq(row, r.end + 1, Len(row))

\* Variant of Spliced that applies replacements in the order they were queued.
SplicedAsQueued(row) == FoldLeft(Splice, row, replacements)

\* sort_by_key(Reverse(start)), which is stable: each replacement goes behind
\* those that do not start before it.
Sorted(queue) ==
  FoldLeft(LAMBDA s, r : InsertAt(s, CHOOSE k \in 1..(Len(s) + 1) :
                                       \A n \in DOMAIN s : n < k <=> s[n].start >= r.start, r),
           <<>>, queue)

\* From the last to the first, so that an offset is still right when it is used.
Spliced(row) == FoldLeft(Splice, row, Sorted(replacements))

\* Variant of Modified that goes by what was counted.
CountedSomething == [stats EXCEPT !.html_parts = 0] # NoStats

Modified == replacements # <<>>

Finish ==
  /\ stage = "splice"
  /\ result' = [body |-> Spliced(Raw), modified |-> Modified]
  /\ stage' = "done"
  /\ UNCHANGED <<config, message, next, stats, replacements, processed, skipped, recovered,
                 unencodable>>

Next ==
  \/ PassOver \/ SkipOversized \/ CleanHtmlPart \/ CleanPlainPart
  \/ RewriterFails \/ EndStage \/ Finish

Spec == Init /\ [][Next]_vars

-----------------------------------------------------------------------------
(* Properties.                                                             *)

Stages == {"html", "recover", "plain", "splice", "done", "failed"}

Offsets == 0..Len(Raw)

\* The variables hold values of their types; the counters never exceed what
\* there is to count.
TypeOK ==
  /\ config \in Configs /\ message \in Messages
  /\ stage \in Stages
  /\ next \in 1..(Len(Parts) + 1)
  /\ \A f \in DOMAIN NoStats : stats[f] \in 0..Len(Raw)
  /\ \A n \in DOMAIN replacements :
       /\ replacements[n].start \in Offsets /\ replacements[n].end \in Offsets
       /\ replacements[n].start <= replacements[n].end
  /\ processed \subseteq DOMAIN Parts
  /\ Len(replacements) = Cardinality(processed)
  /\ {skipped, recovered, unencodable} \subseteq 0..Len(Parts)
  /\ result.modified \in BOOLEAN

\* The cells between the i-th boundary of a row and the one after it.
Segment(row, i) ==
  LET At(k) == CHOOSE n \in DOMAIN row :
        row[n] = Boundary /\ Cardinality({m \in 1..n : row[m] = Boundary}) = k
  IN SubSeq(row, At(i) + 1, At(i + 1) - 1)

After(i) == Segment(result.body, i)

\* The part was given to the HTML rewriter and its replacement could be used.
Enforced(i) ==
  /\ eff.mode = "Enforce" /\ eff.clean_html
  /\ Parts[i].encodable /\ ~Parts[i].oversized
  /\ \/ Parts[i].html_body /\ Parts[i].kind = "html"
     \/ ~Parts[i].html_body /\ Parts[i].declares_html /\ Parts[i].readable

\* The part was cleaned as plain text and its replacement could be used.
EnforcedText(i) ==
  /\ eff.mode = "Enforce" /\ eff.clean_text_plain
  /\ Parts[i].encodable /\ Parts[i].text_body /\ Parts[i].kind = "text"

\* What a part must have become: cleaned once, or as it came.
Delivered(i) ==
  IF Enforced(i) THEN CleanHtml(Parts[i].cells, eff, message.unsubscribe)
  ELSE IF EnforcedText(i) THEN CleanText(Parts[i].cells, eff)
  ELSE Parts[i].cells

\* An attachment of an HTML type: the parser decoded it, into no body.
IsHtmlAttachment(i) == Parts[i].kind = "html" /\ ~Parts[i].html_body /\ ~Parts[i].text_body

\* Splicing puts every part where it was, cleaned once or as it came, between
\* the same boundaries, whatever the stages queued in which order and however
\* the lengths changed.  Which of the two an HTML attachment is, is left open
\* here: AttachmentsPreserved is about that.
PartsInPlace ==
  stage = "done" =>
    \E spared \in SUBSET {i \in DOMAIN Parts : IsHtmlAttachment(i)} :
      result.body =
        Laid([i \in DOMAIN Parts |-> IF i \in spared THEN Parts[i].cells ELSE Delivered(i)])

Links(cells) == Select(cells, Anchors)

\* How many links of a row differ from those of another one of as many links.
Rewrites(before, after) ==
  Cardinality({n \in DOMAIN Links(before) : Links(before)[n].url # Links(after)[n].url})

\* `modified` says whether the body that is delivered differs from the one that
\* came, whatever was counted, unwrapped to a link that looks the same or could
\* not be encoded; in report-only mode it does not.
ModifiedIsTrue ==
  stage = "done" =>
    /\ result.modified <=> result.body # Raw
    /\ result.modified => eff.mode = "Enforce"

\* When every change could be written back, the counts of the audit headers are
\* those of the differences between the body that came and the one delivered.
HeadersAreTrue ==
  stage = "done" /\ eff.mode = "Enforce" /\ unencodable = 0 =>
    /\ stats.urls_cleaned + stats.redirects_unwrapped = Rewrites(Raw, result.body)
    /\ stats.pixels_removed =
         HowMany(Raw, LAMBDA c : c.tag \in {"img", "css"})
           - HowMany(result.body, LAMBDA c : c.tag \in {"img", "css"})
    /\ stats.pings_stripped =
         HowMany(Raw, LAMBDA c : c.ping) - HowMany(result.body, LAMBDA c : c.ping)

\* A List-Unsubscribe target keeps its token in HTML, in whatever order its
\* parameters are written and whatever rules, redirects or block-list say.
UnsubscribeIntact ==
  stage = "done" =>
    \A i \in DOMAIN Parts : Parts[i].declares_html =>
      \A n \in DOMAIN Links(Parts[i].cells) :
        LET u == Links(Parts[i].cells)[n].url IN
        (\E v \in message.unsubscribe : SameLink(u, v)) => Links(After(i))[n].url = u

\* No cleaned HTML links to a blocked domain, directly or through what was
\* unwrapped, even if no other link cleaning is on.
BlockedNeutralised ==
  stage = "done" =>
    \A i \in DOMAIN Parts : Enforced(i) =>
      \A n \in DOMAIN Links(After(i)) :
        LET u == Links(After(i))[n].url IN
        u.host \in eff.blocked_domains => \E v \in message.unsubscribe : SameLink(u, v)

KeptOf(q) == Select(q, eff.keep_params)

\* The carve-outs override the rules: a link of an excluded domain comes out
\* as it went in, and every kept parameter of a link, or of the destination it
\* is replaced by, is still there, wherever that came from.
CarveOutsHold ==
  stage = "done" =>
    \A i \in DOMAIN Parts : \A n \in DOMAIN Links(Parts[i].cells) :
      LET u == Links(Parts[i].cells)[n].url
          v == Links(After(i))[n].url
      IN /\ u.host \in eff.exclude_domains \ eff.blocked_domains => v = u
         /\ v # Blank => \E w \in {u} \cup ToSet(u.dest) \cup ToSet(Resolved[u.host]) :
              v.host = w.host /\ KeptOf(v.query) = KeptOf(w.query)

LinksAsTheyCame ==
  \A i \in DOMAIN Parts :
    Mapped(LAMBDA c : c.url, Links(After(i))) = Mapped(LAMBDA c : c.url, Links(Parts[i].cells))

\* No link of a sensitive sender is rewritten, in HTML or plain text, if no
\* policy of the user's says otherwise and no domain is blocked.
SecurityLinksSurvive ==
  stage = "done" /\ IsProtected(config, message.sender)
    /\ Matching(config, message.sender) = <<>> /\ config.blocked_domains = {}
    => LinksAsTheyCame

-----------------------------------------------------------------------------
(* What the documentation says, and the code does not do.                  *)

\* config.rs: no_modify never modifies the body for this sender.
NoModifyHolds ==
  stage = "done" /\ Matching(config, message.sender) # <<>> =>
    (Head(Matching(config, message.sender)).no_modify => result.body = Raw)

\* README.md: attachments are not altered.  The stage for HTML that the parser
\* could not decode takes what is in no HTML body, an HTML attachment as well.
AttachmentsPreserved ==
  stage = "done" =>
    \A i \in DOMAIN Parts : IsHtmlAttachment(i) => After(i) = Parts[i].cells

=============================================================================
