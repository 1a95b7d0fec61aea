--------------------------- MODULE MCTelnetStream ---------------------------
(* TelnetStream on small instances: the server writes a byte or a verb at  *)
(* a time, so the buffers of three bytes cut every stream in every way.    *)
EXTENDS TelnetStream

BytesOf(alphabet) == {<<b>> : b \in alphabet}

MCEchoPackets == BytesOf({65, IAC, OPT_ECHO}) \cup {<<IAC, WILL>>, <<IAC, WONT>>}
MCDescriptors == {3, 4}
=============================================================================
