------------------------------ MODULE Sessions ------------------------------
(***************************************************************************)
(* The sessions of src/src/session.c, with what src/src/lisp_extension.c   *)
(* keeps per session, and the queue behind telnet-send and send-input,     *)
(* which looks up the current session only when it is flushed.             *)
(*                                                                         *)
(* The texts are numbered in the order they are queued.  There is one      *)
(* Telnet struct; its connection is a number, so that a new connection is  *)
(* told from the one before it.                                            *)
(***************************************************************************)
EXTENDS Naturals, Sequences, SequencesExt

CONSTANTS
  MaxSessions,     (* MAX_SESSIONS, 32 in the code                         *)
  MaxId,           (* bound: sessions ever created                         *)
  MaxTexts,        (* bound: texts queued                                  *)
  MaxConnections,  (* bound: connections made                              *)
  InitHooks,       (* the hooks that init.lisp adds                        *)
  UserHooks        (* the hooks that scripts add later                     *)

ASSUME MaxSessionsAssumption == MaxSessions \in Nat \ {0}
ASSUME MaxIdAssumption == MaxId \in Nat \ {0}
ASSUME BoundsAssumption == MaxTexts \in Nat /\ MaxConnections \in Nat

Id == 1 .. MaxId
Text == 1 .. MaxTexts
None == 0     \* no session, no connection

VARIABLES
  sessions,           (* session.c: sessions[0 .. session_count_val-1]     *)
  current_session,    (* session.c                                         *)
  next_session_id,    (* session.c                                         *)
  telnet,             (* Session.telnet: the sessions that refer to it     *)
  connected,          (* Session.connected: the sessions that have it set  *)
  hooks,              (* Session.hooks: the names in each session's table  *)
  default_hooks,      (* *default-hooks*                                   *)
  connection,         (* the Telnet struct: the number of its connection   *)
  connections,        (* connections made so far                           *)
  pending_send_buf, pending_send_scheduled,
  commands,           (* the runtime's queue of scheduled commands         *)
  queued,             (* history: texts queued                             *)
  origin,             (* history: session and connection at that time      *)
  output              (* history: texts sent, with their connection        *)

table    == <<sessions, current_session, next_session_id, telnet, connected,
              hooks, default_hooks>>
network  == <<connection, connections>>
queue    == <<pending_send_buf, pending_send_scheduled, commands>>
texts    == <<queued, origin, output>>
vars     == <<table, network, queue, texts>>

Flush == [kind |-> "flush", text |-> 0]
Input(t) == [kind |-> "input", text |-> t]

-----------------------------------------------------------------------------
(* add-hook puts a hook into the current session's table or, when there is *)
(* none, into *default-hooks*, which every new session starts with.        *)
DefaultsAfter(names, session) == IF session = None THEN names ELSE {}

(* lisp_x_load_init creates the session first and loads init.lisp then, and *)
(* lisp_x_register_telnet gives the struct to that session.                *)
Init ==
  /\ sessions = <<1>>
  /\ current_session = 1
  /\ next_session_id = 2
  /\ telnet = {1}
  /\ connected = {}
  /\ default_hooks = DefaultsAfter(InitHooks, current_session)
  /\ hooks = [i \in Id |-> IF i = 1 THEN InitHooks ELSE {}]
  /\ connection = None
  /\ connections = 0
  /\ pending_send_buf = <<>>
  /\ pending_send_scheduled = FALSE
  /\ commands = <<>>
  /\ queued = 0
  /\ origin = [t \in Text |-> [session |-> None, connection |-> None, via |-> "none"]]
  /\ output = <<>>

(* telnet-session-create *)
CreateSession ==
  /\ Len(sessions) < MaxSessions
  /\ next_session_id <= MaxId
  /\ sessions' = Append(sessions, next_session_id)
  /\ next_session_id' = next_session_id + 1
  /\ hooks' = [hooks EXCEPT ![next_session_id] = default_hooks]
  /\ UNCHANGED <<current_session, telnet, connected, default_hooks,
                 network, queue, texts>>

(* telnet-session-switch *)
SwitchSession(id) ==
  /\ id \in ToSet(sessions)
  /\ current_session' = id
  /\ UNCHANGED <<sessions, next_session_id, telnet, connected, hooks,
                 default_hooks, network, queue, texts>>

(* Mutant: the current session can be destroyed. *)
Present(id) == id \in ToSet(sessions)

(* session_destroy refuses the current session. *)
MayDestroy(id) == id \in ToSet(sessions) /\ id # current_session

DestroySession(id) ==
  /\ MayDestroy(id)
  /\ \E i \in DOMAIN sessions :
       /\ sessions[i] = id
       /\ sessions' = RemoveAt(sessions, i)  \* the sessions behind it move up
  /\ hooks' = [hooks EXCEPT ![id] = {}]
  /\ connection' = IF id \in telnet /\ id \in connected THEN None ELSE connection
  /\ UNCHANGED <<current_session, next_session_id, telnet, connected,
                 default_hooks, connections, queue, texts>>

AddHook(name) ==
  /\ hooks' = [hooks EXCEPT ![current_session] = @ \cup {name}]
  /\ UNCHANGED <<sessions, current_session, next_session_id, telnet, connected,
                 default_hooks, network, queue, texts>>

-----------------------------------------------------------------------------
(* The colon commands, and the server: they change the struct alone. *)
Connect ==
  /\ connections < MaxConnections
  /\ connections' = connections + 1
  /\ connection' = connections + 1
  /\ UNCHANGED <<table, queue, texts>>

Disconnect ==
  /\ connection # None
  /\ connection' = None
  /\ UNCHANGED <<table, connections, queue, texts>>

-----------------------------------------------------------------------------
Queue(t, via) ==
  /\ t \in Text
  /\ queued' = t
  /\ origin' = [origin EXCEPT ![t] = [session |-> current_session,
                                      connection |-> connection, via |-> via]]

(* Mutant: a flush is scheduled with every text. *)
AlwaysSchedule(t) == Append(commands, Flush)

(* A flush is scheduled unless one is. *)
WithFlush(t) ==
  IF pending_send_scheduled THEN commands ELSE Append(commands, Flush)

TelnetSend ==
  /\ Queue(queued + 1, "flush")
  /\ pending_send_buf' = Append(pending_send_buf, queued + 1)
  /\ commands' = WithFlush(queued + 1)
  /\ pending_send_scheduled' = TRUE
  /\ UNCHANGED <<table, network, output>>

SendInput ==
  /\ Queue(queued + 1, "input")
  /\ commands' = Append(commands, Input(queued + 1))
  /\ UNCHANGED <<table, network, pending_send_buf, pending_send_scheduled, output>>

(* Sending for the current session: only a session with the struct can,    *)
(* and telnet_send fails without a connection.                             *)
Sent(list) ==
  IF current_session \in telnet /\ connection # None
  THEN output \o [i \in DOMAIN list |-> [text |-> list[i], connection |-> connection]]
  ELSE output

(* Mutant: the buffer is not cleared. *)
BufferKept == pending_send_buf

BufferAfterFlush == <<>>

(* Mutant: the flag is left set. *)
FlagKept == pending_send_scheduled

FlagAfterFlush == FALSE

(* flush_pending_sends *)
RunFlush ==
  /\ commands # <<>> /\ Head(commands) = Flush
  /\ commands' = Tail(commands)
  /\ output' = Sent(pending_send_buf)
  /\ pending_send_buf' = BufferAfterFlush
  /\ pending_send_scheduled' = FlagAfterFlush
  /\ UNCHANGED <<table, network, queued, origin>>

(* send_input_callback: the hooks consume the text or let it pass, and     *)
(* may send a text of their own while they run.                            *)
RunInput ==
  /\ commands # <<>> /\ Head(commands).kind = "input"
  /\ output' \in {Sent(<<Head(commands).text>>), output}
  /\ \/ /\ commands' = Tail(commands)
        /\ UNCHANGED <<pending_send_buf, pending_send_scheduled, queued, origin>>
     \/ /\ current_session \in telnet
        /\ Queue(queued + 1, "flush")
        /\ pending_send_buf' = Append(pending_send_buf, queued + 1)
        /\ commands' = Tail(WithFlush(queued + 1))
        /\ pending_send_scheduled' = TRUE
  /\ UNCHANGED <<table, network>>

RunCommand == RunFlush \/ RunInput

Next ==
  \/ CreateSession
  \/ \E id \in Id : SwitchSession(id) \/ DestroySession(id)
  \/ \E name \in UserHooks : AddHook(name)
  \/ Connect \/ Disconnect
  \/ TelnetSend \/ SendInput \/ RunCommand

Spec == Init /\ [][Next]_vars

(* Fairness: the runtime works its queue of commands off. *)
FairSpec == Spec /\ WF_vars(RunCommand)

-----------------------------------------------------------------------------
TypeOK ==
  /\ sessions \in Seq(Id)
  /\ current_session \in Id
  /\ next_session_id \in 1 .. MaxId + 1
  /\ telnet \subseteq Id /\ connected \subseteq Id
  /\ hooks \in [Id -> SUBSET (InitHooks \cup UserHooks)]
  /\ default_hooks \subseteq InitHooks \cup UserHooks
  /\ connection \in 0 .. MaxConnections /\ connections \in 0 .. MaxConnections
  /\ pending_send_buf \in Seq(Text)
  /\ pending_send_scheduled \in BOOLEAN
  /\ commands \in Seq({Flush} \cup {Input(t) : t \in Text})
  /\ queued \in 0 .. MaxTexts
  /\ origin \in [Text -> [session : 0 .. MaxId, connection : 0 .. MaxConnections,
                         via : {"none", "flush", "input"}]]
  /\ output \in Seq([text : Text, connection : 1 .. MaxConnections])

(* The table holds each session once, within its capacity, and the current *)
(* session is one of them: after any sequence of creations, switches and   *)
(* destructions, current_session never points at a destroyed session, and  *)
(* no hook is added to the table of one.                                   *)
CurrentExists ==
  /\ current_session \in ToSet(sessions)
  /\ Len(sessions) <= MaxSessions
  /\ \A i, j \in DOMAIN sessions : i < j => sessions[i] < sessions[j]
  /\ \A id \in Id \ ToSet(sessions) : hooks[id] = {}

(* Texts wait in the buffer exactly while one flush is scheduled for them: *)
(* none is forgotten without a flush, and none is flushed twice.           *)
FlushIsScheduled ==
  LET flushes == {i \in DOMAIN commands : commands[i] = Flush}
  IN IF pending_send_buf = <<>> THEN flushes = {} /\ ~pending_send_scheduled
     ELSE pending_send_scheduled /\ \E i \in flushes : flushes = {i}

(* What telnet-send queued is sent in the order it was queued, each text   *)
(* once, and so is what send-input queued (the two may pass each other: a  *)
(* text joins the flush that is already scheduled).                        *)
SentInOrder ==
  \A i, j \in DOMAIN output :
    LET t == output[i].text
        u == output[j].text
    IN i < j /\ origin[t].via = origin[u].via => t < u

(* telnet-send "Queues raw text for the server" (README.md:207): a text    *)
(* queued by a session with a connection is sent when it leaves the queue, *)
(* if that session is still the current one and the connection still up,   *)
(* however often either changed in between.  (The code drops the texts of  *)
(* a session that is not current at the flush.)                            *)
QueuedIsSent ==
  [][\A t \in ToSet(pending_send_buf) \ ToSet(pending_send_buf') :
       /\ origin[t].session \in telnet /\ current_session = origin[t].session
       /\ connection # None /\ connection = origin[t].connection
       => \E i \in DOMAIN output' : output'[i].text = t]_vars

(* What is queued leaves the queue. *)
QueueDrains == (pending_send_buf # <<>>) ~> (pending_send_buf = <<>>)

(* The queue keeps both promises to the script that queued a text.         *)
QueueServes == QueuedIsSent /\ QueueDrains
=============================================================================
