------------------------- MODULE MCAnthropicServer -------------------------
(* Three requests: a streaming one with tools and all kinds of pieces, a    *)
(* blocking one, and a streaming one without tools that says half a         *)
(* character.                                                               *)
EXTENDS AnthropicServer, TLC

CONSTANTS r1, r2, r3

MCSays ==
  (r1 :> {<<"<">>, <<"<", "<">>, <<"think>">>, <<"<", "/think>">>,
          <<"w", "[T">>, <<"C]", "call">>, <<"res", "w">>, <<"end">>})
  @@ (r2 :> {<<"w">>}) @@ (r3 :> {Half})
MCOffers ==
  (r1 :> {<<TRUE, "calls">>, <<TRUE, "json">>})
  @@ (r2 :> {<<FALSE, "text">>}) @@ (r3 :> {<<TRUE, "text">>})
MCMax == (r1 :> 4) @@ (r2 :> 1) @@ (r3 :> 1)
=============================================================================
