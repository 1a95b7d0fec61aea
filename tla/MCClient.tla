------------------------------ MODULE MCClient ------------------------------
(* Client on small instances.  A packet of the server is a text byte, or   *)
(* an ECHO option with or without a text byte behind it.                   *)
EXTENDS Client

Will == <<IAC, WILL, OPT_ECHO>>
Wont == <<IAC, WONT, OPT_ECHO>>

(* The option arrives with text behind it, as in a prompt. *)
PromptPackets == {<<65>>, Append(Will, 65), Append(Wont, 65)}

(* The option is a segment of its own. *)
LonePackets == {<<65>>, Will, Wont}

MCDescriptors == {3, 4}
=============================================================================
