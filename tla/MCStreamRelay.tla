---------------------------- MODULE MCStreamRelay ----------------------------
(* The instance of StreamRelay for TLC. *)
EXTENDS StreamRelay

MCFrame == {<<"a">>, <<"b">>, <<"note">>, <<"done">>, <<"junk">>,
            <<"head", "tail">>, <<"blank", "a">>}
MCRest == {<<>>, <<"break">>, <<"a">>}
=============================================================================
