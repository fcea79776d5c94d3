--------------------------- MODULE MCAsyncWrapper ---------------------------
(* Values of the constants of AsyncWrapper for model checking. *)
EXTENDS AsyncWrapper

(* Either side may open the association, the peer with data in the same    *)
(* packet, and end it.  An unordered message makes receive_data panic.     *)
MCPackets == {<<"CookieEcho", "Data">>, <<"CookieAck">>, <<"SAck">>,
              <<"HeartBeat", "ShutDown">>, <<"ShutDownAck">>, <<"ShutDownComplete">>, <<"Abort">>,
              <<"UnorderedData">>}
=============================================================================
