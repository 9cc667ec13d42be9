---------------------------- MODULE LinkCleaning ----------------------------
(***************************************************************************)
(* What happens to one link: process_href of src/html.rs for the links of  *)
(* an HTML part, with unwrap_redirect_url (src/redirect.rs) and clean_url  *)
(* (src/url_clean.rs) under it; clean_url alone for those of a plain text. *)
(*                                                                         *)
(* A link is its host, the names of its query parameters in order, and the *)
(* destination embedded in it, a sequence of at most one link.  The        *)
(* ruleset is the relations it defines on them: what its rules remove and  *)
(* where they redirect from.  The network resolver is what it answers for  *)
(* the links of a host; what its answers may be is in NetworkResolve.      *)
(***************************************************************************)
EXTENDS Naturals, SequencesExt, Selection

CONSTANTS
  Host,          \* hosts of links
  Param,         \* names of query parameters
  GlobalRules,   \* <<host, parameter>> removed by global rules
  VendorRules,   \* <<host, parameter>> removed by rules of one provider
  Redirectors,   \* hosts whose links a redirect rule takes apart
  BraveRules,    \* those of them for which the rule is one of Brave's
  Accepted,      \* destination hosts that pass validate_destination
  Registrable,   \* the registrable domains of hosts, none or one each
  Resolved,      \* what the resolver answers for links of a host, if anything
  NoHost         \* not a host: the host of about:blank

ASSUME RulesAreAboutLinks ==
  /\ GlobalRules \subseteq Host \X Param /\ VendorRules \subseteq Host \X Param
  /\ BraveRules \subseteq Redirectors /\ Redirectors \subseteq Host
  /\ Accepted \subseteq Host /\ NoHost \notin Host

Plain == [host : Host, query : Seq(Param), dest : {<<>>}]

AtMostOne == {d \in Seq(Plain) : Len(d) <= 1}

Link == [host : Host, query : Seq(Param), dest : AtMostOne]

ASSUME ResolverAssumption == Resolved \in [Host -> AtMostOne]

Blank == [host |-> NoHost, query |-> <<>>, dest |-> <<>>]

-----------------------------------------------------------------------------
(* clean_url.                                                              *)

\* Variant of IsTracker that asks the keep-list last.
IsTrackerKeepLast(host, p, cfg) ==
  \/ <<host, p>> \in GlobalRules
  \/ p \in cfg.extra_tracking_params \ cfg.keep_params
  \/ cfg.apply_vendor_rules /\ <<host, p>> \in VendorRules

\* The keep-list wins over the user's parameters and over every rule.
IsTracker(host, p, cfg) ==
  /\ p \notin cfg.keep_params
  /\ \/ p \in cfg.extra_tracking_params
     \/ <<host, p>> \in GlobalRules
     \/ cfg.apply_vendor_rules /\ <<host, p>> \in VendorRules

\* Neither cfg.clean_query_params nor the block-list is consulted here.
CleanUrl(u, cfg) ==
  IF u.host \in cfg.exclude_domains THEN u
  ELSE [u EXCEPT !.query = Select(@, {p \in Param : ~IsTracker(u.host, p, cfg)})]

-----------------------------------------------------------------------------
(* unwrap_redirect_url.                                                    *)

\* A rule extracted a destination, whether or not it can be used.
Extracts(u) == u.host \in Redirectors /\ u.dest # <<>>

\* validate_origin_destination: a rule of Brave's leads to another site only.
OtherSite(from, to) ==
  from \in BraveRules =>
    /\ Registrable[to] # {}
    /\ from # to /\ Registrable[from] # Registrable[to]

Accepts(u) ==
  LET to == Head(u.dest).host IN to \in Accepted /\ OtherSite(u.host, to)

\* No answer for a host that is off the list, or may not be contacted.
Resolves(u, cfg) == cfg.network_redirect_resolution /\ Resolved[u.host] # <<>>

\* Variant of UnwrapRedirectUrl that asks the resolver about excluded hosts.
UnwrapRedirectUrlAlways(u, cfg) ==
  IF ~cfg.unwrap_known_redirects THEN CleanUrl(u, cfg)
  ELSE IF Extracts(u)
  THEN CleanUrl(IF Accepts(u) THEN Head(u.dest) ELSE u, cfg)
  ELSE IF Resolves(u, cfg) THEN CleanUrl(Head(Resolved[u.host]), cfg)
  ELSE CleanUrl(u, cfg)

\* What replaces the link is cleaned too; only one layer is peeled, and where a
\* rule found a destination the resolver is not asked.
UnwrapRedirectUrl(u, cfg) ==
  IF u.host \in cfg.exclude_domains \/ ~cfg.unwrap_known_redirects THEN CleanUrl(u, cfg)
  ELSE IF Extracts(u)
  THEN CleanUrl(IF Accepts(u) THEN Head(u.dest) ELSE u, cfg)
  ELSE IF Resolves(u, cfg) THEN CleanUrl(Head(Resolved[u.host]), cfg)
  ELSE CleanUrl(u, cfg)

\* RedirectUnwrapResult.unwrapped; an answer counts if it is another link.
Unwraps(u, cfg) ==
  /\ u.host \notin cfg.exclude_domains /\ cfg.unwrap_known_redirects
  /\ IF Extracts(u) THEN Accepts(u)
     ELSE Resolves(u, cfg) /\ UnwrapRedirectUrl(u, cfg) # u

-----------------------------------------------------------------------------
(* process_href.                                                           *)

Count(q, p) == Len(Select(q, {p}))

\* canonical_link_form: the order of the parameters does not matter.
SameLink(u, v) ==
  /\ u.host = v.host
  /\ u.dest = v.dest
  /\ \A p \in Param : Count(u.query, p) = Count(v.query, p)

\* Variant of IsSensitive that compares links as they are written.
IsSensitiveExact(u, sensitive) == u \in sensitive

IsSensitive(u, sensitive) == \E v \in sensitive : SameLink(u, v)

\* Variant of Rewritten that looks at the block-list before unwrapping only.
RewrittenBlockFirst(u, cfg) ==
  IF u.host \in cfg.blocked_domains THEN Blank ELSE UnwrapRedirectUrl(u, cfg)

\* The block-list is consulted before and after unwrapping.
Rewritten(u, cfg) ==
  IF u.host \in cfg.blocked_domains \/ UnwrapRedirectUrl(u, cfg).host \in cfg.blocked_domains
  THEN Blank ELSE UnwrapRedirectUrl(u, cfg)

\* The new href; a sensitive link is left alone before anything else.
ProcessHref(u, cfg, sensitive) ==
  IF IsSensitive(u, sensitive) THEN u ELSE Rewritten(u, cfg)

\* HrefChange; unwrapping counts even if it led to a link that looks the same.
HrefChange(u, cfg, sensitive) ==
  LET new == ProcessHref(u, cfg, sensitive) IN
  IF IsSensitive(u, sensitive) THEN "none"
  ELSE IF new # Blank /\ Unwraps(u, cfg) THEN "Unwrapped"
  ELSE IF new # u THEN "Cleaned"
  ELSE "none"

=============================================================================
