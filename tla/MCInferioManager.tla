-------------------------- MODULE MCInferioManager -------------------------
(* A small instance of InferioManager: a batch job and a search that use     *)
(* two models through two cache keys.                                        *)
EXTENDS InferioManager
CONSTANTS clip, tags, batch, search, c1, c2
TwoModels == {clip, tags}
TwoKeys == {batch, search}
TwoClients == {c1, c2}
SmallSizes == {0, 1}
JobAndSearch ==
  {<<"predict", clip, batch, "expires">>, <<"load", tags, batch, "never">>,
   <<"predict", clip, search, "never">>}
=============================================================================
