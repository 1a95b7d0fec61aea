----------------------------- MODULE TelnetOut -----------------------------
(***************************************************************************)
(* What the client sends: texts and window sizes, through telnet_send and  *)
(* telnet_set_terminal_size of src/src/telnet.c.  The socket does not      *)
(* block, each of the two makes one send() call, and what the kernel does  *)
(* not take of it is lost.  The server is a telnet parser over the bytes   *)
(* that were taken.                                                        *)
(***************************************************************************)
EXTENDS Integers, Sequences, SequencesExt

CONSTANTS
  Lines,       (* the lines that the user submits                          *)
  Results,     (* what the input hooks return for one that is no command:  *)
               (* sequences of texts and NotString                         *)
  NotString,   (* an element that is not a string                          *)
  Sizes,       (* the sizes of the terminal, <<columns, rows>>             *)
  Room,        (* bytes the kernel's send buffer holds                     *)
  MaxSends     (* bound: results and resizes on one connection             *)

Byte == 0 .. 255

(* What a side of the terminal may measure: it is sent in two bytes.       *)
Side == 0 .. 65535

(* A line has no line end in it: handle_app_cmd splits what is submitted.   *)
ASSUME LinesAssumption == Lines \subseteq Seq(Byte \ {10})
ASSUME ResultsAssumption == Results \subseteq Seq(Seq(Byte) \cup {NotString})
ASSUME SizesAssumption == Sizes \subseteq Side \X Side
ASSUME RoomAssumption == Room \in Nat
ASSUME SendsAssumption == MaxSends \in Nat

VARIABLES
  connected,    (* the socket is open                                      *)
  term,         (* g_term_cols and g_term_rows                             *)
  room,         (* kernel: bytes the send buffer can still take            *)
  server,       (* the server's parser, over the bytes that were taken     *)
  texts,        (* history: the texts meant for the server, with CR LF     *)
  sizes,        (* history: the sizes meant for it                         *)
  short,        (* history: a send was not taken whole                     *)
  cut,          (* history: one ended inside an escape or a size           *)
  sends         (* results and resizes so far                              *)

ovars == <<connected, term, room, server, texts, sizes, short, cut, sends>>

IAC == 255
DONT == 254
DO == 253
WONT == 252
WILL == 251
SB == 250
SE == 240
OPT_ECHO == 1
OPT_SUPPRESS_GO_AHEAD == 3
OPT_TERMINAL_TYPE == 24
OPT_NAWS == 31
CRLF == <<13, 10>>
HASH == 35

-----------------------------------------------------------------------------
(* The server's parser (RFC 854, RFC 855, RFC 1073): the text it reads and *)
(* the window sizes it is told.                                            *)
Start == [mode |-> "data", text |-> <<>>, sub |-> <<>>, sizes |-> <<>>]

SizeTold(sub) == <<256 * sub[2] + sub[3], 256 * sub[4] + sub[5]>>

Understand(parser, b) ==
  CASE parser.mode = "data" /\ b = IAC -> [parser EXCEPT !.mode = "iac"]
    [] parser.mode = "data" /\ b # IAC -> [parser EXCEPT !.text = Append(@, b)]
    [] parser.mode = "iac" /\ b = IAC ->
         [parser EXCEPT !.mode = "data", !.text = Append(@, b)]
    [] parser.mode = "iac" /\ b = SB -> [parser EXCEPT !.mode = "sub", !.sub = <<>>]
    [] parser.mode = "iac" /\ b \in {WILL, WONT, DO, DONT} ->
         [parser EXCEPT !.mode = "option"]
    [] parser.mode = "sub" /\ b = IAC -> [parser EXCEPT !.mode = "subiac"]
    [] parser.mode = "sub" /\ b # IAC -> [parser EXCEPT !.sub = Append(@, b)]
    [] parser.mode = "subiac" /\ b = IAC ->
         [parser EXCEPT !.mode = "sub", !.sub = Append(@, b)]
    [] parser.mode = "subiac" /\ b = SE ->
         [parser EXCEPT !.mode = "data",
            !.sizes = IF Len(parser.sub) = 5 /\ parser.sub[1] = OPT_NAWS
                      THEN Append(@, SizeTold(parser.sub)) ELSE @]
    [] OTHER -> [parser EXCEPT !.mode = "data"]

Reads(parser, bytes) == FoldLeft(Understand, parser, bytes)

-----------------------------------------------------------------------------
OInit ==
  /\ connected = FALSE
  /\ term \in Sizes
  /\ room = Room
  /\ server = Start
  /\ texts = <<>>
  /\ sizes = <<>>
  /\ short = FALSE
  /\ cut = FALSE
  /\ sends = 0

-----------------------------------------------------------------------------
(* A connection's output, as a record: what one send() makes of it.        *)
Output == [room |-> room, server |-> server, short |-> short, cut |-> cut]

(* The number of bytes at the end of a sequence that are IAC. *)
IACsAtEnd(bytes) ==
  Len(bytes) - SelectLastInSeq(bytes, LAMBDA b : b # IAC)

(* send() takes what there is room for.                                    *)
Transmit(out, bytes, isSize) ==
  LET n == IF Len(bytes) < out.room THEN Len(bytes) ELSE out.room
      taken == SubSeq(bytes, 1, n)
      inside == IF isSize THEN n \in 1 .. Len(bytes) - 1
                ELSE IACsAtEnd(taken) % 2 = 1
  IN [room |-> out.room - n,
      server |-> Reads(out.server, taken),
      short |-> out.short \/ n < Len(bytes),
      cut |-> out.cut \/ inside]

(* Mutant: a text is sent as it is. *)
AsIs(bytes) == bytes

(* IAC bytes are doubled. *)
Escaped(bytes) ==
  FlattenSeq([i \in DOMAIN bytes |->
                IF bytes[i] = IAC THEN <<IAC, IAC>> ELSE <<bytes[i]>>])

(* telnet_send_with_crlf, and telnet_send that it calls.                   *)
SendWithCRLF(out, text) == Transmit(out, Escaped(text \o CRLF), FALSE)

High(side) == side \div 256
Low(side) == side % 256

(* Mutant: the end of the subnegotiation is taken for a plain byte. *)
Unended(size) ==
  <<IAC, SB, OPT_NAWS, High(size[1]), Low(size[1]), High(size[2]), Low(size[2]), SE>>

(* The subnegotiation that tells a window size: its bytes are not doubled. *)
Naws(size) ==
  <<IAC, SB, OPT_NAWS, High(size[1]), Low(size[1]), High(size[2]), Low(size[2]),
    IAC, SE>>

(* The options that telnet_connect sends first.                            *)
Opening ==
  <<IAC, WONT, OPT_ECHO, IAC, WILL, OPT_SUPPRESS_GO_AHEAD, IAC, DO, OPT_ECHO,
    IAC, DO, OPT_SUPPRESS_GO_AHEAD, IAC, DO, OPT_TERMINAL_TYPE, IAC, DO, OPT_NAWS>>

SetOutput(out) ==
  /\ room' = out.room
  /\ server' = out.server
  /\ short' = out.short
  /\ cut' = out.cut

-----------------------------------------------------------------------------
(* :connect and the start of main: the connection is up and is told the    *)
(* size.  The kernel's buffer is empty then and takes it all.              *)
Connect ==
  /\ ~connected
  /\ connected' = TRUE
  /\ server' = Reads(Start, Opening \o Naws(term))
  /\ sizes' = <<term>>
  /\ UNCHANGED <<term, room, texts, short, cut, sends>>

(* The connection ends, and with it what is on its way.                    *)
Disconnect ==
  /\ connected
  /\ connected' = FALSE
  /\ server' = Start /\ room' = Room
  /\ texts' = <<>> /\ sizes' = <<>>
  /\ short' = FALSE /\ cut' = FALSE
  /\ sends' = 0
  /\ UNCHANGED term

(* The elements of a hook's result that are strings are sent one by one.   *)
SendItem(out, item) == IF item = NotString THEN out ELSE SendWithCRLF(out, item)

Meant(item) == IF item = NotString THEN <<>> ELSE item \o CRLF

(* lisp_x_send_hook_result: a string is a list of one, nil the empty one.  *)
SendHookResult(result) ==
  /\ sends < MaxSends
  /\ SetOutput(FoldLeft(SendItem, Output, result))
  /\ texts' = texts \o FlattenSeq([i \in DOMAIN result |-> Meant(result[i])])
  /\ sends' = sends + 1
  /\ UNCHANGED <<connected, term, sizes>>

(* flush_pending_sends: a text that telnet-send has queued.                *)
FlushSend(result) == connected /\ SendHookResult(result)

IsCommand(line) == line # <<>> /\ Head(line) = HASH

(* External: the handlers of user-input-transform-hook.  TinTin takes the  *)
(* lines that start with # and answers nil.                                *)
HookReturns(line) == IF IsCommand(line) THEN {<<>>} ELSE Results

(* Mutant: a command whose handler fails is sent like any text. *)
TextIfHookFails(line) == <<line>>

(* lisp_x_call_user_input_transform_hook when the hook fails: the line is  *)
(* sent as it is, but for a command an empty one.                          *)
IfHookFails(line) == IF IsCommand(line) THEN << <<>> >> ELSE <<line>>

(* process_line for a line that is no colon command: user-input-hook may   *)
(* consume it, and does not if it fails; the transform's result is sent if *)
(* there is a connection.                                                  *)
UserLine(line) ==
  \/ line # <<>> /\ UNCHANGED ovars                              \* consumed
  \/ /\ connected
     /\ \E result \in HookReturns(line) \cup {IfHookFails(line)} : SendHookResult(result)
  \/ ~connected /\ UNCHANGED ovars

(* on_resize, and telnet_set_terminal_size when there is a connection.     *)
OnResize(size) ==
  /\ term' = size
  /\ IF connected
     THEN /\ sends < MaxSends
          /\ SetOutput(Transmit(Output, Naws(size), TRUE))
          /\ sizes' = Append(sizes, size)
          /\ sends' = sends + 1
     ELSE UNCHANGED <<room, server, short, cut, sizes, sends>>
  /\ UNCHANGED <<connected, texts>>

(* The network takes bytes from the send buffer. *)
Drain(n) ==
  /\ connected
  /\ room + n <= Room
  /\ room' = room + n
  /\ UNCHANGED <<connected, term, server, texts, sizes, short, cut, sends>>

ONext ==
  \/ Connect \/ Disconnect
  \/ \E line \in Lines : UserLine(line)
  \/ \E result \in Results : FlushSend(result)
  \/ \E size \in Sizes : OnResize(size)
  \/ \E n \in 1 .. Room : Drain(n)

OSpec == OInit /\ [][ONext]_ovars

-----------------------------------------------------------------------------
(* A size with a byte that the parser takes for IAC. *)
Ambiguous(size) == \E i \in 1 .. 2 : IAC \in {High(size[i]), Low(size[i])}

Readable == \A i \in DOMAIN sizes : ~Ambiguous(sizes[i])

Told(size) == size \in {sizes[i] : i \in DOMAIN sizes}

(* s is t with some elements left out: each is found behind the last one.  *)
Find(rest, x) == IF rest # <<>> /\ Head(rest) = x THEN Tail(rest) ELSE rest

LeftOver(s, t) == FoldLeft(Find, s, t) = <<>>

-----------------------------------------------------------------------------
(* The text has no line that is a # command. *)
NoCommandIn(text) ==
  \A i \in DOMAIN text : text[i] = HASH => i > 1 /\ text[i - 1] # Last(CRLF)

(* No line that the server reads is a # command of the user's, whatever    *)
(* the handlers do with it, fail included, and wherever a send was cut, as *)
(* long as it was not cut inside an escape or a size, behind which the     *)
(* server takes the first byte of the next text for the rest of a command. *)
CommandsStayHere == ~cut /\ Readable => NoCommandIn(server.text)

(* As long as the kernel took every send whole and no size has a byte 255, *)
(* the server reads the texts that were meant, with their line ends and    *)
(* with every IAC byte in them, and the sizes, in order; and the last size *)
(* it was told is that of the terminal, whether it was resized before,     *)
(* between or during connections.                                          *)
ServerUnderstands ==
  connected /\ ~short /\ Readable =>
    /\ server.mode = "data"
    /\ server.text = texts
    /\ server.sizes = sizes
    /\ Last(server.sizes) = term

(* A send that was not taken whole loses bytes and spoils nothing else: as *)
(* long as none ended inside an escape or a size, the server stays in step,*)
(* what it reads is what was meant with parts left out, and every size it  *)
(* is told is one that was meant.                                          *)
LossIsConfined ==
  connected /\ ~cut /\ Readable =>
    /\ server.mode = "data"
    /\ LeftOver(server.text, texts)
    /\ \A i \in DOMAIN server.sizes : Told(server.sizes[i])
=============================================================================
