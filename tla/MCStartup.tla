------------------------------ MODULE MCStartup ------------------------------
(* Pages, and Startup with it, for TLC: two firmware versions, whose trees  *)
(* differ in their last nodes and in how many children a type has.          *)
EXTENDS Pages

CONSTANTS v1, v2

\* The types: the root, an effect, a level with parameters, a parameter.
MCChildren == (v1 :> <<2, 2, 1, 0>>) @@ (v2 :> <<3, 3, 2, 0>>)

MCTree ==
    (v1 :> (<<>> :> 1
            @@ <<0>> :> 2 @@ <<0, 0>> :> 3 @@ <<0, 0, 0>> :> 4
                          @@ <<0, 1>> :> 3 @@ <<0, 1, 0>> :> 4
            @@ <<1>> :> 3 @@ <<1, 0>> :> 4))
    @@
    (v2 :> (<<>> :> 1
            @@ <<0>> :> 2 @@ <<0, 0>> :> 4 @@ <<0, 1>> :> 4
                          @@ <<0, 2>> :> 3 @@ <<0, 2, 0>> :> 4 @@ <<0, 2, 1>> :> 4
            @@ <<1>> :> 3 @@ <<1, 0>> :> 4 @@ <<1, 1>> :> 4
            @@ <<2>> :> 4))

MCPageNodes == { <<0>>, <<1>> }
MCEffects == { <<0>> }
MCAlgorithm == (v1 :> (<<0>> :> 1)) @@ (v2 :> (<<0>> :> 2))
=============================================================================
