---------------------------- MODULE SenderPolicy ----------------------------
(***************************************************************************)
(* The configuration that applies to one sender:                           *)
(* CleanerConfig::effective_for_sender of src/config.rs.  A sender is the  *)
(* domain of From:, or "missing"; which policies match it is part of the   *)
(* policy.  An Option is a set of at most one value.                       *)
(***************************************************************************)
EXTENDS Sequences, SequencesExt

CONSTANTS
  Sender,      \* sender domains, and "missing"
  Sensitive    \* those on the built-in list of sensitive senders

ASSUME MissingIsOrdinary == Sensitive \subseteq Sender \ {"missing"}

\* SenderPolicy: the domains it is for, and what it overrides.
SenderPolicies ==
  [match_domains : SUBSET Sender, no_modify : BOOLEAN, mode : SUBSET {"Enforce", "ReportOnly"},
   clean_html : SUBSET BOOLEAN, remove_pixels : SUBSET BOOLEAN,
   clean_query_params : SUBSET BOOLEAN, unwrap_known_redirects : SUBSET BOOLEAN]

Override(value, option) == IF option = {} THEN value ELSE CHOOSE v \in option : TRUE

IsProtected(config, sender) == config.protect_sensitive_senders /\ sender \in Sensitive

\* Variant of Protected that leaves text/plain parts out.
ProtectedHtmlOnly(config) ==
  [config EXCEPT !.clean_query_params = FALSE, !.unwrap_known_redirects = FALSE,
                 !.apply_vendor_rules = FALSE]

\* The built-in protection of a sensitive sender.
Protected(config) ==
  [config EXCEPT !.clean_query_params = FALSE, !.unwrap_known_redirects = FALSE,
                 !.apply_vendor_rules = FALSE, !.clean_text_plain = FALSE]

\* sender_policies in order; a policy never matches a missing sender.
Matching(config, sender) ==
  SelectSeq(config.sender_policies, LAMBDA p : sender # "missing" /\ sender \in p.match_domains)

\* A policy's mode is applied after its no_modify.
Overridden(config, p) ==
  [config EXCEPT
    !.mode = Override(IF p.no_modify THEN "ReportOnly" ELSE @, p.mode),
    !.clean_html = Override(@, p.clean_html),
    !.remove_pixels = Override(@, p.remove_pixels),
    !.clean_query_params = Override(@, p.clean_query_params),
    !.unwrap_known_redirects = Override(@, p.unwrap_known_redirects)]

EffectiveForSender(config, sender) ==
  LET base == IF IsProtected(config, sender) THEN Protected(config) ELSE config
      matching == Matching(config, sender)
  IN IF matching = <<>> THEN base ELSE Overridden(base, Head(matching))

=============================================================================
