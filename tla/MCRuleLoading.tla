--------------------------- MODULE MCRuleLoading ----------------------------
(***************************************************************************)
(* An instance of RuleLoading for TLC.  Three sources against room for two *)
(* and a total of four bytes, in packs of one to four: a pack can be too   *)
(* big alone, too big after another one, or exactly fill what is left.     *)
(* The same name can be configured twice, in one field or in two, and one  *)
(* source goes by the name of the built-in pack.                           *)
(***************************************************************************)
EXTENDS RuleLoading

CONSTANTS s1, s2, builtin

MCSource  == {s1, s2, builtin}

Fields(packs, urls, sources) ==
  [rule_packs |-> packs, rule_pack_urls |-> urls, rule_pack_sources |-> sources]

\* The second and third, and the third and fourth, differ in one field only.
MCConfigs ==
  {Fields(<<>>, <<>>, <<>>), Fields(<<s1>>, <<>>, <<>>), Fields(<<s1>>, <<s2>>, <<>>),
   Fields(<<s1>>, <<s2>>, <<s1, builtin>>), Fields(<<>>, <<builtin>>, <<s1, s1>>)}

MCSizes   == {1, 3, 4}
MCBuiltin == 3

\* One content for each way through add_source_bytes: kept, refused before
\* the budgets, by the parser, and by the limits on rules.
MCContents == {"rules", "not_utf8", "malformed", "many_rules"}

=============================================================================
