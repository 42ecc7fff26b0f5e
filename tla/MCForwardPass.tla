--------------------------- MODULE MCForwardPass ---------------------------
(* A small layer stack for ForwardPass. *)
EXTENDS ForwardPass

MCKind == <<"sliding", "sliding", "global">>
MCGraphs == RecordedGraphs @@ <<>>
MCBuffers == DeviceBuffers
=============================================================================
