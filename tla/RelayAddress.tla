----------------------------- MODULE RelayAddress -----------------------------
(***************************************************************************)
(* The relay URLs each program accepts.  Of a URL only the scheme and      *)
(* whether its host is a loopback one are told apart.                      *)
(***************************************************************************)

Schemes == {"http", "https", "ws", "wss", "other"}
Urls    == [scheme : Schemes, loopback : BOOLEAN]

\* validate_relay_transport, one copy in each of three crates
RelayTransportOk(url) ==
    \/ url.scheme \in {"https", "wss"}
    \/ url.scheme \in {"http", "ws"} /\ url.loopback

\* agent_ws_url, operator_ws_url: any accepted URL becomes ws or wss
WebsocketScheme(url) == IF url.scheme \in {"http", "ws"} THEN "ws" ELSE "wss"

\* connect_relay_websocket: a pinned certificate needs TLS
Dialable(url, pinned) ==
    /\ RelayTransportOk(url)
    /\ pinned => WebsocketScheme(url) = "wss"

\* validate_public_url of rk
PublicUrlOk(url) == RelayTransportOk(url) /\ url.scheme \in {"http", "https"}
=============================================================================
