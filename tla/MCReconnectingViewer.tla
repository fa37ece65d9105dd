------------------------ MODULE MCReconnectingViewer ------------------------
(* Two loops and an errCh that just holds their results, three viewers.      *)
EXTENDS ReconnectingViewer
=============================================================================
