--------------------------- MODULE MCOpenAIServer ---------------------------
(* Two requests: one with all the formats and kinds of pieces, one that     *)
(* says half a character.                                                   *)
EXTENDS OpenAIServer, TLC

CONSTANTS r1, r2

MCSays ==
  (r1 :> {<<"w">>, <<"<">>, <<"think>">>, <<"<", "think>">>, <<"<", "/think>", "nl">>,
          <<"w", "[T">>, <<"C]", "call">>, <<"res">>, <<"end">>})
  @@ (r2 :> {Half})
MCOffers == (r1 :> Format) @@ (r2 :> {"text"})
MCMax  == (r1 :> 3) @@ (r2 :> 1)
=============================================================================
