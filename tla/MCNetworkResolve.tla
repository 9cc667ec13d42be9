-------------------------- MODULE MCNetworkResolve --------------------------
(***************************************************************************)
(* The resolver between a listed redirector, a host under it, a shop that  *)
(* is not listed and literal addresses.                                    *)
(***************************************************************************)
EXTENDS NetworkResolve

CONSTANTS links, go, shop, example

Public == <<93, 184, 216, 34>>
Private == <<10, 0, 0, 5>>
MappedPrivate == <<0, 0, 0, 0, 0, 65535, 10 * 256, 5>>

MCUrl ==
  {[scheme |-> "https", userinfo |-> i, host |-> h] :
     i \in BOOLEAN, h \in {Domain(<<links, example>>)}}
    \cup {[scheme |-> "http", userinfo |-> FALSE, host |-> h] :
            h \in {Domain(<<go, links, example>>), Domain(<<shop, example>>),
                   Literal(<<"10", "0", "0", "5">>, Private),
                   Literal(<<"93", "184", "216", "34">>, Public)}}
    \cup {[scheme |-> "other", userinfo |-> FALSE, host |-> NoDomain]}

MCName == {<<links, example>>, <<go, links, example>>}
MCAddress == {Public, Private, MappedPrivate}
MCList == {<<links, example>>, <<"184", "216", "34">>}

\* Both ends of every block, and what lies next to them.
Bytes4 ==
  {<<x, y, z, t>> :
     x \in {0, 1, 9, 10, 11, 100, 127, 128, 169, 172, 192, 198, 203, 223, 224, 239, 240, 255},
     y \in {0, 15, 16, 17, 18, 19, 20, 31, 32, 51, 63, 64, 127, 128, 168, 254, 255},
     z \in {0, 2, 100, 113, 255}, t \in {0, 1, 255}}

Words6 ==
  {<<x, 0, 0, 0, 0, y, z, t>> :
     x \in {0, 100, 64511, 64512, 65023, 65024, 65151, 65152, 65215, 65216, 65279, 65280, 65535},
     y \in {0, 1, 65534, 65535}, z \in {0, 2560, 32512, 24000}, t \in {0, 1, 5}}

MCProbe == Bytes4 \cup Words6

=============================================================================
