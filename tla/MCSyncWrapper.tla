---------------------------- MODULE MCSyncWrapper ----------------------------
(* Values of the constants of SyncWrapper for model checking. *)
EXTENDS SyncWrapper

(* Either side may open the association, the peer with data in the same    *)
(* packet, and end it, with a heartbeat that is not answered then.  An     *)
(* unordered message or an error report makes receive_data panic.          *)
MCPackets == {<<"CookieEcho", "Data">>, <<"CookieAck">>, <<"SAck">>,
              <<"HeartBeat", "ShutDown">>, <<"ShutDownComplete">>, <<"HeartBeat", "Abort">>,
              <<"HeartBeatAck", "OpError">>, <<"UnorderedData">>}
=============================================================================
