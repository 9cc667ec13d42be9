--------------------------- MODULE MCCleanMessage ---------------------------
(***************************************************************************)
(* An instance of CleanMessage for TLC: four messages that have every kind *)
(* of part and of link between them, under every combination of the        *)
(* switches that decide about links.                                       *)
(***************************************************************************)
EXTENDS CleanMessage

CONSTANTS
  shop, hop, bad, list, raw,   \* hosts: ordinary, a redirector, blocked, of the unsubscribe link, not accepted
  utm, ref, id                 \* parameters: removed everywhere, removed on shop, removed nowhere

MCHost        == {shop, hop, bad, list, raw}
MCParam       == {utm, ref, id}
MCGlobal      == MCHost \X {utm}
MCVendor      == {<<shop, ref>>}
MCRedirectors == {hop}
MCBraveRules  == {hop}
MCAccepted    == {shop, hop, bad, list}
MCRegistrable == [h \in MCHost |-> IF h = raw THEN {} ELSE {h}]

To(host, query)        == [host |-> host, query |-> query, dest |-> <<>>]
Through(host, q, dest) == [host |-> host, query |-> q, dest |-> <<dest>>]

\* The resolver answers for links of three hosts, with a blocked one, one that
\* has parameters to remove, and for those of the unsubscribe link.
MCResolved ==
  [h \in MCHost |->
     CASE h = hop -> <<To(bad, <<id>>)>>
       [] h = shop -> <<To(shop, <<ref, utm>>)>>
       [] h = list -> <<To(shop, <<id>>)>>
       [] OTHER -> <<>>]

A(url)    == Cell("a", url, FALSE)
Ping(url) == Cell("a", url, TRUE)
Pixel     == Cell("img", Blank, FALSE)
Css       == Cell("css", Blank, FALSE)

Unsubscribe  == To(list, <<utm, id>>)
Unsubscribe2 == To(list, <<id, utm>>)

\* How the parser presents a part.
PartOf(kind, declares, html, text, cells) ==
  [kind |-> kind, declares_html |-> declares, html_body |-> html, text_body |-> text,
   readable |-> TRUE, oversized |-> FALSE, encodable |-> TRUE, cells |-> cells]

Text(cells)      == PartOf("text", FALSE, FALSE, TRUE, cells)
Html(cells)      == PartOf("html", TRUE, TRUE, FALSE, cells)
OnlyHtml(cells)  == PartOf("html", TRUE, TRUE, TRUE, cells)
Undecoded(cells) == PartOf("text", TRUE, FALSE, FALSE, cells)
Attached(cells)  == PartOf("binary", FALSE, FALSE, FALSE, cells)

\* An attachment of an HTML type is no body, and looks to the recovery stage
\* like HTML the parser could not decode.
AttachedHtml(cells) == PartOf("html", TRUE, FALSE, FALSE, cells)

PartLists ==
  { <<Text(<<A(To(shop, <<utm, id>>)), A(Unsubscribe)>>),
      Html(<<Ping(Unsubscribe2), Pixel, A(Through(hop, <<id>>, To(shop, <<utm, id>>))), Words>>)>>,
    <<OnlyHtml(<<A(Through(hop, <<>>, To(bad, <<>>))), Css, A(To(bad, <<id>>)), A(To(shop, <<ref, id>>)), A(To(hop, <<utm>>))>>),
      Attached(<<A(To(shop, <<utm>>))>>), AttachedHtml(<<Pixel, A(To(shop, <<id, utm>>))>>)>>,
    <<Undecoded(<<Pixel, A(Through(hop, <<utm>>, To(raw, <<id>>))),
                 A(Through(hop, <<>>, To(hop, <<id>>)))>>),
      Text(<<A(To(shop, <<ref, utm>>)), A(Through(hop, <<>>, To(shop, <<id>>)))>>),
      Html(<<Pixel, Ping(To(shop, <<id>>)), Pixel>>)>>,
    <<[Html(<<A(To(shop, <<utm>>))>>) EXCEPT !.encodable = FALSE],
      [Undecoded(<<Pixel>>) EXCEPT !.readable = FALSE],
      [Html(<<Pixel>>) EXCEPT !.oversized = TRUE],
      [Text(<<A(To(shop, <<utm>>))>>) EXCEPT !.html_body = TRUE]>> }

MCSender    == {"ordinary", "sensitive", "missing"}
MCSensitive == {"sensitive"}

MCMessages ==
  {[sender |-> s, unsubscribe |-> {Unsubscribe}, parts |-> p] : s \in MCSender, p \in PartLists}

\* A policy that overrides nothing.
Inherits(match) ==
  [match_domains |-> match, no_modify |-> FALSE, mode |-> {}, clean_html |-> {},
   remove_pixels |-> {}, clean_query_params |-> {}, unwrap_known_redirects |-> {}]

NoModify == [Inherits({"ordinary"}) EXCEPT !.no_modify = TRUE]
Reenable == [Inherits({"sensitive"}) EXCEPT !.unwrap_known_redirects = {TRUE}, !.remove_pixels = {FALSE}]
Shadowed == [Inherits({"ordinary"}) EXCEPT !.clean_html = {FALSE}, !.clean_query_params = {FALSE}]

MCPolicies == {<<>>, <<NoModify, Shadowed>>, <<Reenable, Shadowed>>}

MCConfigs ==
  {[mode |-> m, clean_html |-> TRUE, clean_text_plain |-> t, remove_pixels |-> TRUE,
    neutralize_css_beacons |-> TRUE, strip_link_ping |-> TRUE, clean_query_params |-> q,
    apply_vendor_rules |-> v, unwrap_known_redirects |-> r,
    network_redirect_resolution |-> FALSE, protect_sensitive_senders |-> s,
    blocked_domains |-> b, exclude_domains |-> x, keep_params |-> k,
    extra_tracking_params |-> {}, sender_policies |-> p] :
     m \in {"ReportOnly", "Enforce"}, t \in BOOLEAN, q \in BOOLEAN, v \in {TRUE}, r \in BOOLEAN,
     s \in {TRUE}, b \in {{}, {bad}}, x \in {{}, {shop}}, k \in {{}, {utm}}, p \in MCPolicies}

\* Every switch that is fixed above, off on its own.
MCFixedOff ==
  LET Default == CHOOSE c \in MCConfigs :
        /\ c.mode = "Enforce" /\ c.clean_text_plain /\ c.clean_query_params
        /\ c.unwrap_known_redirects /\ c.blocked_domains = {} /\ c.exclude_domains = {}
        /\ c.keep_params = {} /\ c.sender_policies = <<>>
  IN {[Default EXCEPT !.clean_html = FALSE], [Default EXCEPT !.remove_pixels = FALSE],
      [Default EXCEPT !.neutralize_css_beacons = FALSE], [Default EXCEPT !.strip_link_ping = FALSE],
      [Default EXCEPT !.apply_vendor_rules = FALSE],
      [Default EXCEPT !.protect_sensitive_senders = FALSE],
      [Default EXCEPT !.extra_tracking_params = {id}, !.keep_params = {utm}]}

\* The resolver, which is off by default.
Networked ==
  {[c EXCEPT !.network_redirect_resolution = TRUE] :
     c \in {x \in MCConfigs : x.mode = "Enforce" /\ x.sender_policies = <<>> /\ x.clean_text_plain}}

AllConfigs == MCConfigs \cup MCFixedOff \cup Networked

\* The configurations with a policy that asks for no_modify and for a mode.
NoModifyConfigs ==
  {[c EXCEPT !.sender_policies = <<[NoModify EXCEPT !.mode = {m}]>>] :
     c \in MCConfigs, m \in {"Enforce", "ReportOnly"}}

=============================================================================
