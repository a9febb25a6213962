---------------------------- MODULE MCDownloadGate ----------------------------
(* Instances of DownloadGate for TLC: one client comes once direct and once  *)
(* by the proxy and puts another address in front of the header, another     *)
(* client comes by two proxies.                                              *)
EXTENDS DownloadGate, TLC

CONSTANTS r1, r2, r3, a1, a2, proxy

MCClient    == (r1 :> a1) @@ (r2 :> a1) @@ (r3 :> a2)
MCPeer      == (r1 :> a1) @@ (r2 :> proxy) @@ (r3 :> proxy)
MCForwarded == (r1 :> <<a2>>) @@ (r2 :> <<a2, a1>>) @@ (r3 :> <<a2, proxy>>)
=============================================================================
