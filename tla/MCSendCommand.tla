--------------------------- MODULE MCSendCommand ---------------------------
(* An instance of SendCommand for TLC: H.264, one rate below its unit, and   *)
(* frames with and without IDR in every position and without a start code.   *)
EXTENDS SendCommand

MCRates == {-1, 900, 2500}

MCFrames == {<<>>, <<"IDR">>, <<"slice">>, <<"AUD", "slice">>,
             <<"SPS", "PPS", "IDR">>, <<"SPS", "IDR", "slice">>}
=============================================================================
