------------------------------- MODULE Client -------------------------------
(***************************************************************************)
(* The program around the connection: the event loop and the handlers of   *)
(* src/src/main.c and the commands of src/src/commands.c, over the telnet  *)
(* calls of module Telnet.                                                 *)
(*                                                                         *)
(* main.c keeps copies of what the Telnet struct knows: g_connected, and   *)
(* g_server_echo, which hides what the user types while the server asks    *)
(* for a password.  The copies are refreshed by the handlers, one event at *)
(* a time, while the server and the user go on.                            *)
(***************************************************************************)
EXTENDS Telnet

VARIABLES
  g_connected, g_server_echo, g_quit_requested,   (* globals of main.c     *)
  calling,        (* what the event loop is running, "loop" between events *)
  was_connected,  (* process_line: g_connected before the command          *)
  exposed         (* history: where a line showed that the user typed      *)
                  (* while the server had its echo turned on               *)

client == <<g_connected, g_server_echo, g_quit_requested, calling,
            was_connected, exposed>>
cvars  == <<vars, client>>

Places == {"history", "viewport", "message"}

ClientInit ==
  /\ Init
  /\ g_connected = FALSE
  /\ g_server_echo = FALSE
  /\ g_quit_requested = FALSE
  /\ calling \in {"loop", "connect"}    \* without and with a host argument
  /\ was_connected = FALSE
  /\ exposed = {}

-----------------------------------------------------------------------------
(* Mutant: only data makes the descriptor readable. *)
ReadableData == g_connected /\ socket # NoFd /\ inbox # <<>>

(* on_telnet_ready: select() found the descriptor of get_telnet_fd.        *)
Readable ==
  /\ g_connected
  /\ socket # NoFd
  /\ inbox # <<>> \/ peer \in {"closed", "reset"}

TelnetReady ==
  /\ calling = "loop"
  /\ Readable
  /\ ReceiveCall
  /\ calling' = "handle"
  /\ UNCHANGED <<g_connected, g_server_echo, g_quit_requested, was_connected, exposed>>

ShowLost == g_server_echo' = FALSE /\ g_connected' = FALSE

(* handle_telnet_data, by what telnet_receive returned. *)
HandleLost ==
  /\ calling = "handle" /\ pc = "idle"
  /\ rc < 0
  /\ ShowLost
  /\ calling' = "loop"
  /\ UNCHANGED <<vars, g_quit_requested, was_connected, exposed>>

HandleNothing ==
  /\ calling = "handle" /\ pc = "idle"
  /\ rc = 0
  /\ calling' = "loop"
  /\ UNCHANGED <<vars, g_connected, g_server_echo, g_quit_requested,
                 was_connected, exposed>>

(* telnet_get_server_echo *)
EchoNow == server_echo

(* Text: the copy of the echo state is compared and telnet_receive called  *)
(* again.                                                                  *)
HandleText ==
  /\ calling = "handle" /\ pc = "idle"
  /\ rc > 0
  /\ g_server_echo' = EchoNow
  /\ ReceiveCall
  /\ UNCHANGED <<g_connected, g_quit_requested, calling, was_connected, exposed>>

-----------------------------------------------------------------------------
(* process_line.  What was typed while the server echoes is a secret.      *)
Shows(places) ==
  exposed' = exposed \cup IF server_echo THEN places ELSE {}

(* Mutant: every line is remembered. *)
AlwaysRecorded == {"history"}

(* Lines are remembered and shown unless g_server_echo is set. *)
RecordedIn == IF g_server_echo THEN {} ELSE {"history"}
EchoedIn   == IF g_server_echo THEN {} ELSE {"viewport"}

(* A line for the server. *)
SubmitText ==
  /\ calling = "loop"
  /\ Shows(RecordedIn \cup EchoedIn)
  /\ UNCHANGED <<vars, g_connected, g_server_echo, g_quit_requested, calling,
                 was_connected>>

(* A line that starts with a colon and is no command: process_command      *)
(* prints it in its message.                                               *)
SubmitUnknown ==
  /\ calling = "loop"
  /\ Shows(RecordedIn \cup {"message"})
  /\ UNCHANGED <<vars, g_connected, g_server_echo, g_quit_requested, calling,
                 was_connected>>

(* Mutant: the command leaves password mode alone. *)
KeepMask(before, now) == g_connected' = now /\ UNCHANGED g_server_echo

(* process_line after a command: the copies are reset when the command     *)
(* ended the connection.                                                   *)
AfterCommand(before, now) ==
  /\ g_connected' = now
  /\ g_server_echo' = (g_server_echo /\ (now \/ ~before))

CommandDisconnect ==
  /\ calling = "loop"
  /\ g_connected
  /\ Disconnect
  /\ AfterCommand(TRUE, FALSE)
  /\ UNCHANGED <<g_quit_requested, calling, was_connected, exposed>>

(* Mutant: :connect connects over the connection it has. *)
ConnectOver == UNCHANGED vars

(* :connect first disconnects. *)
DisconnectFirst == IF g_connected THEN Disconnect ELSE UNCHANGED vars

CommandConnect ==
  /\ calling = "loop"
  /\ DisconnectFirst
  /\ g_connected' = FALSE
  /\ was_connected' = g_connected
  /\ calling' = "connect"
  /\ UNCHANGED <<g_server_echo, g_quit_requested, exposed>>

(* telnet_connect, called by :connect or by main for a host argument.      *)
CallConnect ==
  /\ calling = "connect"
  /\ ConnectCall
  /\ calling' = "connecting"
  /\ UNCHANGED <<g_connected, g_server_echo, g_quit_requested, was_connected, exposed>>

ConnectReturns ==
  /\ calling = "connecting" /\ pc = "idle"
  /\ AfterCommand(was_connected, rc = 0)
  /\ was_connected' = FALSE
  /\ calling' = "loop"
  /\ UNCHANGED <<vars, g_quit_requested, exposed>>

CommandQuit ==
  /\ calling = "loop"
  /\ g_quit_requested' = TRUE
  /\ UNCHANGED <<vars, g_connected, g_server_echo, calling, was_connected, exposed>>

(* Mutant: cleanup frees the struct without disconnecting. *)
FreeOnly == UNCHANGED vars

(* cleanup disconnects and frees g_telnet. *)
Cleanup == IF socket # NoFd THEN Disconnect ELSE UNCHANGED vars

(* Mutant: a connected client does not leave its loop. *)
QuitWhenIdle == g_quit_requested /\ ~g_connected

QuitDue == g_quit_requested

(* The runtime leaves its loop, and cleanup runs at exit. *)
Exit ==
  /\ calling = "loop"
  /\ QuitDue
  /\ Cleanup
  /\ calling' = "exited"
  /\ UNCHANGED <<g_connected, g_server_echo, g_quit_requested, was_connected, exposed>>

-----------------------------------------------------------------------------
(* The call that a handler waits for goes on, and so does the server.      *)
Running == (ConnectStep \/ ReceiveStep) /\ UNCHANGED client

Server == Peer /\ UNCHANGED client

Handle == HandleLost \/ HandleNothing \/ HandleText

Submit ==
  SubmitText \/ SubmitUnknown \/ CommandDisconnect \/ CommandConnect \/ CommandQuit

ClientNext ==
  \/ TelnetReady \/ Handle
  \/ Submit \/ CallConnect \/ ConnectReturns \/ Exit
  \/ Running \/ Server

ClientSpec == ClientInit /\ [][ClientNext]_cvars

(* The event loop serves a readable descriptor, the handlers run to their  *)
(* end, and a requested exit happens, though further lines of the same     *)
(* paste may come first; the user and the server owe nothing.              *)
ClientFairness ==
  /\ WF_cvars(TelnetReady)
  /\ WF_cvars(Handle)
  /\ WF_cvars(CallConnect)
  /\ WF_cvars(ConnectReturns)
  /\ WF_cvars(Running)
  /\ SF_cvars(Exit)

FairClientSpec == ClientSpec /\ ClientFairness

-----------------------------------------------------------------------------
(* The globals and the control state of the event loop keep their types.   *)
ClientTypeOK ==
  /\ TypeOK
  /\ {g_connected, g_server_echo, g_quit_requested, was_connected} \subseteq BOOLEAN
  /\ calling \in {"loop", "handle", "connect", "connecting", "exited"}
  /\ exposed \subseteq Places

(* Whenever the event loop is between events, g_connected is what the      *)
(* struct says: get_telnet_fd never offers a closed descriptor, and a      *)
(* connection that exists is always polled.                                *)
ConnectedAgrees == calling = "loop" => (g_connected <=> state = "CONNECTED")

(* Every use of the telnet calls is a legal one: the program never         *)
(* connects a struct that is connected, never receives from one that is    *)
(* not, and never starts a call inside a call, whatever the user types and *)
(* whenever the server hangs up.                                           *)
CallsLegal == Spec

(* Password mode ends with the connection that asked for it: without a     *)
(* connection the user's typing is never hidden.                           *)
NoMaskWithoutConnection == calling = "loop" /\ ~g_connected => ~g_server_echo

(* The copies main.c keeps of the struct never mislead the event loop: the *)
(* descriptor it polls is open, and password mode belongs to a connection. *)
CopiesAgree == ConnectedAgrees /\ NoMaskWithoutConnection

(* What the user types for the server while its echo is turned on is       *)
(* neither entered in the input history nor shown (main.c: "Password mode: *)
(* don't echo the typed text").  (A line that starts with a colon is taken *)
(* for a command, in password mode too, and shown in a message.)           *)
SecretHidden == exposed \subseteq {"message"}

(* Nothing is held after the program has left its event loop.              *)
ExitReleases == calling = "exited" => open = {}

(* A server that hangs up is noticed: the connection is closed and the     *)
(* program shows it as closed, on its own or on the user's command, unless *)
(* it exits.                                                               *)
HangUpNoticed ==
  (peer \in {"closed", "reset"})
    ~> (peer = "none" /\ (~g_connected \/ calling = "exited"))

(* A requested exit happens.                                               *)
QuitExits == g_quit_requested ~> (calling = "exited")
=============================================================================
