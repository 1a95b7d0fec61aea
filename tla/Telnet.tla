------------------------------- MODULE Telnet -------------------------------
(***************************************************************************)
(* The telnet connection of src/src/telnet.c: one Telnet struct, the calls *)
(* that connect, receive and disconnect, the kernel's descriptors and the  *)
(* server at the other end.                                                *)
(*                                                                         *)
(* The program is single threaded, so one call is active at a time; pc     *)
(* says where it is.  A call is several steps, because between two system  *)
(* calls the server and the network move: each connect(), select() and     *)
(* recv() is a step of its own, and so is each byte of the parse loop.     *)
(* Bytes are numbers, so that a text byte and an option code with the same *)
(* value are told apart by the parser alone, as in the code.               *)
(***************************************************************************)
EXTENDS Integers, Sequences

CONSTANTS
  Packets,      (* what the server may write in one piece: byte sequences  *)
  BufSize,      (* bytes one recv() may return                             *)
  MaxRetries,   (* the Lisp variable *connect-max-retries*; may be < 0     *)
  Descriptors,  (* the file descriptors the kernel can hand out            *)
  MaxSent       (* bound: bytes the server sends on one connection         *)

Byte == 0 .. 255

ASSUME PacketsAssumption == Packets \subseteq Seq(Byte)
ASSUME BufSizeAssumption == BufSize \in Nat \ {0}
ASSUME RetriesAssumption == MaxRetries \in Int
ASSUME DescriptorsAssumption == Descriptors \subseteq Nat
ASSUME MaxSentAssumption == MaxSent \in Nat

VARIABLES
  socket, state, data_state, server_echo, log_file,   (* struct Telnet     *)
  pc,        (* the call in progress, "idle" between calls                 *)
  rc,        (* what the last call returned                                *)
  attempt,   (* telnet_connect: attempts that timed out so far             *)
  buffer,    (* telnet_receive: bytes recv() returned, not yet parsed      *)
  text,      (* telnet_receive: buffer[0 .. pos-1], the text parsed so far *)
  open,      (* kernel: the descriptors this process holds                 *)
  peer,      (* the server's end: "none", "up", "closed" or "reset"        *)
  inbox,     (* kernel: bytes that have arrived and were not received      *)
  sent       (* bytes the server has sent on this connection               *)

struct  == <<socket, state, data_state, server_echo, log_file>>
frame   == <<attempt, buffer, text>>
network == <<peer, inbox, sent>>
vars    == <<socket, state, data_state, server_echo, log_file,
             pc, rc, attempt, buffer, text, open, peer, inbox, sent>>

-----------------------------------------------------------------------------
IAC  == 255
DONT == 254
DO   == 253
WONT == 252
WILL == 251
OPT_ECHO == 1

NoFd == -1

DataStates == {"NORMAL", "IAC", "WILL", "WONT", "DO", "DONT"}

Init ==
  /\ socket = NoFd
  /\ state = "DISCONNECTED"
  /\ data_state = "NORMAL"
  /\ server_echo = FALSE
  /\ log_file = NoFd
  /\ pc = "idle"
  /\ rc = 0
  /\ attempt = 0
  /\ buffer = <<>>
  /\ text = <<>>
  /\ open = {}
  /\ peer = "none"
  /\ inbox = <<>>
  /\ sent = 0

-----------------------------------------------------------------------------
(* Returning from a call. *)
Return(value) == pc' = "idle" /\ rc' = value

(* Mutant: the parser keeps its place in an unfinished option. *)
ResetKeepsParser == server_echo' = FALSE /\ UNCHANGED data_state

(* What telnet_disconnect resets for the next connection. *)
ResetProtocol == server_echo' = FALSE /\ data_state' = "NORMAL"

(* telnet_disconnect on a connected struct, seen from its caller. *)
CloseConnection ==
  /\ open' = open \ {socket, log_file}
  /\ log_file' = NoFd
  /\ socket' = NoFd
  /\ state' = "DISCONNECTED"
  /\ ResetProtocol
  /\ peer' = "none"
  /\ inbox' = <<>>
  /\ sent' = 0

Disconnect ==
  /\ pc = "idle"
  /\ socket # NoFd
  /\ CloseConnection
  /\ UNCHANGED <<pc, rc, frame>>

-----------------------------------------------------------------------------
(* telnet_connect.  It does not look whether the struct is connected.      *)
ConnectCall ==
  /\ pc = "idle"
  /\ \/ /\ state' = "CONNECTING"                \* the name resolves
        /\ pc' = "attempt"
        /\ UNCHANGED rc
     \/ /\ state' = "DISCONNECTED"              \* getaddrinfo() fails
        /\ Return(-1)
  /\ attempt' = 0
  /\ UNCHANGED <<socket, data_state, server_echo, log_file,
                 buffer, text, open, network>>

(* Mutant: a way out of telnet_connect that forgets the state. *)
FailStillConnecting == Return(-1) /\ UNCHANGED state

ConnectFails == Return(-1) /\ state' = "DISCONNECTED"

(* Mutant: the attempt's socket is forgotten, not closed. *)
ForgetAttempt == socket' = NoFd /\ UNCHANGED open

(* Give the attempt's socket back. *)
CloseAttempt == socket' = NoFd /\ open' = open \ {socket}

(* Mutant: a timeout is retried without being counted. *)
RetryUncounted == UNCHANGED attempt

CountAttempt == attempt' = attempt + 1

(* telnet_open_log: logging is off, or fopen() fails, or a file opens. *)
OpenLog(held) ==
  \/ /\ log_file' = NoFd
     /\ open' = held
  \/ \E fd \in Descriptors \ held :
       /\ log_file' = fd
       /\ open' = held \cup {fd}

(* The end of a successful telnet_connect on descriptor fd. *)
Established(fd) ==
  /\ socket' = fd
  /\ OpenLog(open \cup {fd})
  /\ state' = "CONNECTED"
  /\ Return(0)
  /\ peer' = "up"
  /\ inbox' = <<>>
  /\ sent' = 0

(* socket() fails: no descriptor is left. *)
AttemptNoSocket ==
  /\ pc = "attempt"
  /\ attempt < 1 + MaxRetries
  /\ ConnectFails
  /\ UNCHANGED <<socket, data_state, server_echo, log_file, frame, open, network>>

(* connect() succeeds at once. *)
AttemptImmediate ==
  /\ pc = "attempt"
  /\ attempt < 1 + MaxRetries
  /\ \E fd \in Descriptors \ open : Established(fd)
  /\ UNCHANGED <<data_state, server_echo, frame>>

(* connect() fails at once: the socket is closed and nothing is retried. *)
AttemptRefused ==
  /\ pc = "attempt"
  /\ attempt < 1 + MaxRetries
  /\ Descriptors \ open # {}
  /\ ConnectFails
  /\ UNCHANGED <<socket, data_state, server_echo, log_file, frame, open, network>>

(* connect() is in progress: wait for the socket in select(). *)
AttemptPending ==
  /\ pc = "attempt"
  /\ attempt < 1 + MaxRetries
  /\ \E fd \in Descriptors \ open :
       /\ socket' = fd
       /\ open' = open \cup {fd}
  /\ pc' = "select"
  /\ UNCHANGED <<state, data_state, server_echo, log_file, rc, frame, network>>

SelectConnected ==
  /\ pc = "select"
  /\ Established(socket)
  /\ UNCHANGED <<data_state, server_echo, frame>>

(* SO_ERROR is set: the server refused, and nothing is retried. *)
SelectRefused ==
  /\ pc = "select"
  /\ CloseAttempt
  /\ ConnectFails
  /\ UNCHANGED <<data_state, server_echo, log_file, frame, network>>

(* select() times out or fails: the next attempt takes a fresh socket. *)
SelectTimeout ==
  /\ pc = "select"
  /\ CloseAttempt
  /\ CountAttempt
  /\ pc' = "attempt"
  /\ UNCHANGED <<state, data_state, server_echo, log_file, rc, buffer, text, network>>

(* Every attempt timed out, or *connect-max-retries* allows none. *)
ConnectGiveUp ==
  /\ pc = "attempt"
  /\ attempt >= 1 + MaxRetries
  /\ ConnectFails
  /\ UNCHANGED <<socket, data_state, server_echo, log_file, frame, open, network>>

-----------------------------------------------------------------------------
(* telnet_receive. *)
ReceiveCall ==
  /\ pc = "idle"
  /\ socket # NoFd
  /\ pc' = "recv"
  /\ UNCHANGED <<struct, rc, frame, open, network>>

RecvData ==
  /\ pc = "recv"
  /\ peer # "reset"
  /\ inbox # <<>>
  /\ LET n == IF Len(inbox) < BufSize THEN Len(inbox) ELSE BufSize
     IN /\ buffer' = SubSeq(inbox, 1, n)
        /\ inbox' = SubSeq(inbox, n + 1, Len(inbox))
  /\ text' = <<>>
  /\ pc' = "parse"
  /\ UNCHANGED <<struct, rc, attempt, open, peer, sent>>

(* EAGAIN: everything that has arrived was received.  The socket does not   *)
(* block, so recv() is never interrupted.                                  *)
RecvNothing ==
  /\ pc = "recv"
  /\ peer = "up"
  /\ inbox = <<>>
  /\ Return(0)
  /\ UNCHANGED <<struct, frame, open, network>>

(* recv() returns 0 after the last byte, or fails on a reset connection. *)
RecvLost ==
  /\ pc = "recv"
  /\ peer = "reset" \/ (peer = "closed" /\ inbox = <<>>)
  /\ CloseConnection
  /\ Return(-1)
  /\ UNCHANGED frame

-----------------------------------------------------------------------------
(* The parse loop: the state machine of one byte. *)
NormalByte(c) ==
  /\ data_state = "NORMAL"
  /\ UNCHANGED server_echo
  /\ \/ /\ c = IAC
        /\ data_state' = "IAC"
        /\ UNCHANGED text
     \/ /\ c # IAC
        /\ text' = Append(text, c)
        /\ UNCHANGED data_state

(* Mutant: both bytes of an escaped 255 are kept. *)
BothBytes(c) == IF c = IAC THEN text \o <<IAC, c>> ELSE text

(* The byte after IAC is text only when it is a second IAC. *)
LiteralText(c) == IF c = IAC THEN Append(text, c) ELSE text

(* Mutant: WONT is dropped like a command without an option. *)
VerbsWithoutWont(c) ==
  CASE c = WILL -> "WILL" [] c = DO -> "DO" [] c = DONT -> "DONT"
    [] OTHER -> "NORMAL"

(* After IAC: the verb of an option, or a command that is dropped whole.   *)
StateAfterIAC(c) ==
  CASE c = WILL -> "WILL" [] c = WONT -> "WONT"
    [] c = DO -> "DO" [] c = DONT -> "DONT"
    [] OTHER -> "NORMAL"

AfterIAC(c) ==
  /\ data_state = "IAC"
  /\ data_state' = StateAfterIAC(c)
  /\ text' = LiteralText(c)
  /\ UNCHANGED server_echo

EchoAfter(c) ==
  IF c = OPT_ECHO /\ data_state \in {"WILL", "WONT"}
  THEN data_state = "WILL"
  ELSE server_echo

OptionByte(c) ==
  /\ data_state \in {"WILL", "WONT", "DO", "DONT"}
  /\ data_state' = "NORMAL"
  /\ server_echo' = EchoAfter(c)
  /\ UNCHANGED text

ParseByte ==
  /\ pc = "parse"
  /\ buffer # <<>>
  /\ buffer' = Tail(buffer)
  /\ LET c == Head(buffer)
     IN NormalByte(c) \/ AfterIAC(c) \/ OptionByte(c)
  /\ UNCHANGED <<socket, state, log_file, pc, rc, attempt, open, network>>

(* Text goes to the caller; a buffer of nothing but options is dropped and *)
(* recv() is called again.                                                 *)
ParseDone ==
  /\ pc = "parse"
  /\ buffer = <<>>
  /\ \/ text # <<>> /\ Return(Len(text))
     \/ text = <<>> /\ pc' = "recv" /\ UNCHANGED rc
  /\ UNCHANGED <<struct, frame, open, network>>

-----------------------------------------------------------------------------
(* The server and the network between. *)
PeerSend ==
  /\ peer = "up"
  /\ \E p \in Packets :
       /\ sent + Len(p) <= MaxSent
       /\ inbox' = inbox \o p
       /\ sent' = sent + Len(p)
  /\ UNCHANGED <<struct, pc, rc, frame, open, peer>>

PeerClose ==
  /\ peer = "up"
  /\ peer' \in {"closed", "reset"}
  /\ UNCHANGED <<struct, pc, rc, frame, open, inbox, sent>>

ConnectStep ==
  \/ AttemptNoSocket \/ AttemptImmediate \/ AttemptRefused \/ AttemptPending
  \/ SelectConnected \/ SelectRefused \/ SelectTimeout \/ ConnectGiveUp

ReceiveStep == RecvData \/ RecvNothing \/ RecvLost \/ ParseByte \/ ParseDone

Peer == PeerSend \/ PeerClose

(* The calls of this module as they are meant to be used: telnet_connect   *)
(* on a struct that is not connected.                                      *)
Call == ReceiveCall \/ Disconnect \/ (socket = NoFd /\ ConnectCall)

Next == Call \/ ConnectStep \/ ReceiveStep \/ Peer

Spec == Init /\ [][Next]_vars

(* Fairness: a call that can go on does, and select() returns, after its   *)
(* timeout at the latest.  Neither the caller nor the server owes anything.*)
Fairness == WF_vars(ConnectStep) /\ WF_vars(ReceiveStep)

FairSpec == Spec /\ Fairness

-----------------------------------------------------------------------------
(* Every variable keeps its type; the parse loop compacts buffer in place, *)
(* so the text and the unparsed rest fit in what recv() was given          *)
(* (telnet_receive writes buffer[pos++] over the bytes it reads).          *)
TypeOK ==
  /\ socket \in Descriptors \cup {NoFd}
  /\ state \in {"DISCONNECTED", "CONNECTING", "CONNECTED"}
  /\ data_state \in DataStates
  /\ server_echo \in BOOLEAN
  /\ log_file \in Descriptors \cup {NoFd}
  /\ pc \in {"idle", "attempt", "select", "recv", "parse"}
  /\ rc \in Int
  /\ attempt \in Nat
  /\ buffer \in Seq(Byte)
  /\ text \in Seq(Byte)
  /\ open \subseteq Descriptors
  /\ peer \in {"none", "up", "closed", "reset"}
  /\ inbox \in Seq(Byte)
  /\ sent \in Nat

(* The text never overtakes the bytes it was parsed from: what is decoded  *)
(* and what is left fit in the buffer that recv() filled.                  *)
InPlaceParse == pc = "parse" => Len(text) + Len(buffer) <= BufSize

(* No descriptor is lost: the process holds exactly the current socket and *)
(* the current log file, after every failed attempt, refusal, timeout,     *)
(* lost connection and reconnect.                                          *)
NoLeak == open = {socket, log_file} \ {NoFd}

(* A connection never starts in the middle of an option of the previous    *)
(* one, in its password mode, or with its log file: whatever way the last  *)
(* connection ended, telnet_connect, which resets nothing, finds a struct  *)
(* as telnet_create made it.                                               *)
FreshStart ==
  pc \in {"attempt", "select"} \/ socket = NoFd =>
    /\ data_state = "NORMAL"
    /\ ~server_echo
    /\ log_file = NoFd

(* The state, the socket and the server's end agree at every step of every *)
(* call: CONNECTED exactly while a connection can be received from, and    *)
(* never CONNECTING once telnet_connect has returned, whichever of its     *)
(* seven ways out it took.                                                 *)
StateAgrees ==
  /\ state = "CONNECTING" <=> pc \in {"attempt", "select"}
  /\ state = "CONNECTED" <=> peer # "none"
  /\ socket # NoFd <=> state = "CONNECTED" \/ pc = "select"
  /\ pc \in {"recv", "parse"} => state = "CONNECTED"

(* Both calls return to the event loop: telnet_connect after a bounded     *)
(* number of timeouts, telnet_receive once the server pauses, even when    *)
(* everything it sent was option negotiation.                              *)
CallsReturn == (pc # "idle") ~> (pc = "idle")

=============================================================================
