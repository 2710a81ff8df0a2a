---------------------------- MODULE MCPagePeers ----------------------------
(***************************************************************************)
(* The small networks with their pages.                                    *)
(***************************************************************************)
EXTENDS MCNamedWebsocketProxy, PagePeers
=============================================================================
