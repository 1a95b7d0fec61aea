---------------------------- MODULE TelnetStream ----------------------------
(***************************************************************************)
(* What the receive path of Telnet makes of the whole byte stream of one   *)
(* connection, however the network cuts it into recv() buffers.  Two       *)
(* history variables record the stream and the text; the properties        *)
(* compare them with the definition of the protocol on whole streams.      *)
(***************************************************************************)
EXTENDS Telnet

VARIABLES
  stream,    (* history: the bytes parsed on this connection               *)
  shown,     (* history: the text bytes produced on this connection        *)
  returned   (* history: the text bytes telnet_receive returned            *)

svars == <<vars, stream, shown, returned>>

SInit == Init /\ stream = <<>> /\ shown = <<>> /\ returned = <<>>

(* The histories follow the parse loop and start again with a connection.  *)
Record ==
  IF socket' = NoFd THEN stream' = <<>> /\ shown' = <<>> /\ returned' = <<>>
  ELSE /\ IF pc = "parse" /\ buffer' # buffer
          THEN /\ stream' = Append(stream, Head(buffer))
               /\ shown' = IF text' = text THEN shown
                           ELSE Append(shown, text'[Len(text')])
          ELSE UNCHANGED <<stream, shown>>
       /\ returned' = IF pc = "parse" /\ pc' = "idle" THEN returned \o text
                      ELSE returned

SNext == Next /\ Record

SSpec == SInit /\ [][SNext]_svars

FairSSpec == SSpec /\ Fairness

-----------------------------------------------------------------------------
Verbs == {WILL, WONT, DO, DONT}

(* The length of the unit that starts at byte i of s: a text byte, an      *)
(* escaped 255 or a two-byte command, or an option of three bytes.         *)
UnitLength(s, i) ==
  IF s[i] # IAC THEN 1
  ELSE IF i < Len(s) /\ s[i + 1] \in Verbs THEN 3
  ELSE 2

(* Where the units of a stream start. *)
UnitStarts(s) ==
  LET starts[i \in 0 .. Len(s)] ==
        IF i = 0 THEN {1}
        ELSE IF i \in starts[i - 1]
        THEN starts[i - 1] \cup {i + UnitLength(s, i)}
        ELSE starts[i - 1]
  IN starts[Len(s)] \cap 1 .. Len(s)

(* The text of the unit at i: a lone IAC at the end shows nothing yet.     *)
UnitText(s, i) ==
  IF s[i] # IAC THEN <<s[i]>>
  ELSE IF i < Len(s) /\ s[i + 1] = IAC THEN <<IAC>>
  ELSE <<>>

(* The text of the units that start in a set of positions, in order.       *)
TextOf(s, starts) ==
  LET upto[i \in 0 .. Len(s)] ==
        IF i = 0 THEN <<>>
        ELSE IF i \in starts THEN upto[i - 1] \o UnitText(s, i)
        ELSE upto[i - 1]
  IN upto[Len(s)]

(* The complete options of s about ECHO. *)
EchoOptions(s) ==
  {i \in UnitStarts(s) : /\ i + 2 <= Len(s)
                         /\ s[i] = IAC
                         /\ s[i + 1] \in {WILL, WONT}
                         /\ s[i + 2] = OPT_ECHO}

-----------------------------------------------------------------------------
(* The text is that of the whole stream, and so does not depend on where   *)
(* recv() cut it: an option or an escaped 255 split between two buffers,   *)
(* or by a full buffer, is parsed as if it had come in one piece           *)
(* (telnet.c: "state persists across recv calls").                         *)
ChunkingInvisible == shown = TextOf(stream, UnitStarts(stream))

(* server_echo is what the last complete WILL ECHO or WONT ECHO of this    *)
(* connection said, off before the first: a data byte 1 that follows a     *)
(* text byte or an escaped 255 never changes it.                           *)
EchoIsNegotiated ==
  server_echo <=>
    \E i \in EchoOptions(stream) :
      /\ stream[i + 1] = WILL
      /\ \A j \in EchoOptions(stream) : j <= i

(* Between calls everything parsed has been returned, in order: a call     *)
(* that goes back to recv() because a buffer held options alone drops no   *)
(* text on the way.                                                        *)
NothingLost == pc = "idle" => returned = shown

(* What the program sees of a connection is what the server sent, however  *)
(* recv() cut it: the text is the stream's, all of it is returned, and     *)
(* server_echo is what was last negotiated.                                *)
ParsedAsSent == ChunkingInvisible /\ EchoIsNegotiated /\ NothingLost
=============================================================================
