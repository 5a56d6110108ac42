---------------------------- MODULE MC_SbmFrame ----------------------------
(* The streams that the parser submits in the instances of SbmFrame. *)
EXTENDS SbmFrame

\* H.264: every NAL unit begins a picture.
AvcContents == {<<>>, <<"J">>, <<"F", "T">>, <<"J", "F", "F">>}

\* H.265: parameter sets, first and other slice segments.
HevcContents == {<<"H", "F">>, <<"S">>, <<"J">>, <<"S", "H", "T">>}
=============================================================================
