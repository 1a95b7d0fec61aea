--------------------------- MODULE SessionsProofs ---------------------------
(***************************************************************************)
(* The table of sessions and the send queue, for every number of sessions, *)
(* texts and connections.                                                  *)
(***************************************************************************)
EXTENDS Sessions, SequenceTheorems, TLAPS

USE MaxSessionsAssumption, MaxIdAssumption, BoundsAssumption

CommandType == {Flush} \cup {Input(t) : t \in Text}

(* A deferred flush is never taken for a line of input.                    *)
LEMMA FlushNotInput == /\ Flush \in CommandType
                       /\ \A t \in Text : Input(t) \in CommandType /\ Input(t) # Flush
  BY DEF Flush, Input, CommandType, Text

(* The sets of indices and of elements of a sequence with one more element *)
(* behind or one less in front.                                            *)
LEMMA ToSetAppend ==
  ASSUME NEW S, NEW s \in Seq(S), NEW e \in S
  PROVE  ToSet(Append(s, e)) = ToSet(s) \cup {e}
  <1> DEFINE t == Append(s, e)
  <1>1. /\ DOMAIN s = 1 .. Len(s) /\ Len(s) \in Nat
        /\ DOMAIN t = 1 .. Len(s) + 1
        /\ t[Len(s) + 1] = e /\ \A i \in 1 .. Len(s) : t[i] = s[i]
    BY AppendProperties, LenProperties
  <1> HIDE DEF t
  <1>. QED BY <1>1 DEF ToSet, t

(* What is left when the element at one place is taken out.                *)
LEMMA RemoveAtElements ==
  ASSUME NEW S, NEW s \in Seq(S), NEW i \in 1 .. Len(s)
  PROVE  /\ RemoveAt(s, i) \in Seq(S)
         /\ Len(RemoveAt(s, i)) = Len(s) - 1
         /\ \A j \in 1 .. Len(s) - 1 :
              RemoveAt(s, i)[j] = IF j < i THEN s[j] ELSE s[j + 1]
  <1> DEFINE a == SubSeq(s, 1, i - 1)
             b == SubSeq(s, i + 1, Len(s))
  <1>1. Len(s) \in Nat /\ i \in Nat /\ 1 <= i /\ i <= Len(s)
    OBVIOUS
  <1>2. a \in Seq(S) /\ Len(a) = i - 1 /\ \A j \in 1 .. i - 1 : a[j] = s[j]
    OBVIOUS
  <1>3. /\ b \in Seq(S) /\ Len(b) = Len(s) - i
        /\ \A j \in 1 .. Len(s) - i : b[j] = s[i + j]
    OBVIOUS
  <1> HIDE DEF a, b
  <1>4. /\ a \o b \in Seq(S)
        /\ Len(a \o b) = Len(s) - 1
        /\ \A j \in 1 .. Len(s) - 1 :
              (a \o b)[j] = IF j <= i - 1 THEN a[j] ELSE b[j - (i - 1)]
    <2>1. /\ a \o b \in Seq(S)
          /\ Len(a \o b) = Len(a) + Len(b)
          /\ \A j \in 1 .. Len(a) + Len(b) :
               (a \o b)[j] = IF j <= Len(a) THEN a[j] ELSE b[j - Len(a)]
      BY <1>2, <1>3, ConcatProperties
    <2>2. Len(a) + Len(b) = Len(s) - 1
      BY <1>1, <1>2, <1>3
    <2>. QED BY <1>2, <2>1, <2>2
  <1>5. \A j \in 1 .. Len(s) - 1 : (a \o b)[j] = IF j < i THEN s[j] ELSE s[j + 1]
    <2> SUFFICES ASSUME NEW j \in 1 .. Len(s) - 1
                 PROVE  (a \o b)[j] = IF j < i THEN s[j] ELSE s[j + 1]
      OBVIOUS
    <2>1. CASE j < i
      BY <1>1, <1>2, <1>4, <2>1
    <2>2. CASE ~(j < i)
      <3>1. b[j - (i - 1)] = s[i + (j - (i - 1))] /\ i + (j - (i - 1)) = j + 1
        BY <1>1, <1>3, <2>2
      <3>2. ~(j <= i - 1)
        BY <1>1, <2>2
      <3>3. (a \o b)[j] = b[j - (i - 1)]
        BY <1>4, <3>2
      <3>. QED BY <2>2, <3>1, <3>3
    <2>. QED BY <2>1, <2>2
  <1>. QED BY <1>4, <1>5 DEF RemoveAt, a, b

(* The types at the start.                                                 *)
LEMMA InitTypeOK == Init => TypeOK
  <1> SUFFICES ASSUME Init PROVE TypeOK
    OBVIOUS
  <1>1. \A S : <<>> \in Seq(S)
    BY EmptySeq
  <1>2. sessions \in Seq(Id)
    BY DEF Init, Id
  <1>3. /\ next_session_id \in 1 .. MaxId + 1 /\ current_session \in Id
        /\ telnet \subseteq Id /\ connected \subseteq Id
    BY DEF Init, Id
  <1>4. /\ hooks \in [Id -> SUBSET (InitHooks \cup UserHooks)]
        /\ default_hooks \subseteq InitHooks \cup UserHooks
    BY DEF Init, DefaultsAfter
  <1>5. origin \in [Text -> [session : 0 .. MaxId, connection : 0 .. MaxConnections,
                             via : {"none", "flush", "input"}]]
    BY DEF Init, None
  <1>6. /\ pending_send_buf \in Seq(Text) /\ commands \in Seq(CommandType)
        /\ output \in Seq([text : Text, connection : 1 .. MaxConnections])
    BY <1>1 DEF Init
  <1>7. /\ connection \in 0 .. MaxConnections /\ connections \in 0 .. MaxConnections
        /\ queued \in 0 .. MaxTexts
    BY DEF Init, None
  <1>8. pending_send_scheduled \in BOOLEAN
    BY DEF Init
  <1>. QED
    BY <1>2, <1>3, <1>4, <1>5, <1>6, <1>7, <1>8 DEF TypeOK, CommandType

(* What a flush writes is texts of the current connection.                 *)
LEMMA SentType ==
  ASSUME TypeOK, NEW list \in Seq(Text)
  PROVE  Sent(list) \in Seq([text : Text, connection : 1 .. MaxConnections])
  <1> DEFINE more == [i \in DOMAIN list |-> [text |-> list[i], connection |-> connection]]
  <1>1. CASE connection # None
    <2>1. connection \in 1 .. MaxConnections
      BY <1>1 DEF TypeOK, None
    <2>2. more \in Seq([text : Text, connection : 1 .. MaxConnections])
      <3> DEFINE R == [text : Text, connection : 1 .. MaxConnections]
      <3>1. \A i \in 1 .. Len(list) : [text |-> list[i], connection |-> connection] \in R
        BY <2>1
      <3>2. DOMAIN list = 1 .. Len(list) /\ Len(list) \in Nat
        OBVIOUS
      <3> HIDE DEF R
      <3>3. more \in [1 .. Len(list) -> R]
        BY <3>1, <3>2
      <3>. QED BY <3>2, <3>3 DEF R
    <2> HIDE DEF more
    <2>3. output \o more \in Seq([text : Text, connection : 1 .. MaxConnections])
      BY <2>2, ConcatProperties DEF TypeOK
    <2>. QED BY <2>3 DEF Sent, TypeOK, more
  <1>2. CASE connection = None
    BY <1>2 DEF Sent, TypeOK
  <1>. QED BY <1>1, <1>2

(* The parts of TypeOK, for the steps that change one of them.             *)
TableTypeOK ==
  /\ sessions \in Seq(Id)
  /\ current_session \in Id
  /\ next_session_id \in 1 .. MaxId + 1
  /\ telnet \subseteq Id /\ connected \subseteq Id
  /\ hooks \in [Id -> SUBSET (InitHooks \cup UserHooks)]
  /\ default_hooks \subseteq InitHooks \cup UserHooks

NetworkTypeOK ==
  connection \in 0 .. MaxConnections /\ connections \in 0 .. MaxConnections

QueueTypeOK ==
  /\ pending_send_buf \in Seq(Text)
  /\ pending_send_scheduled \in BOOLEAN
  /\ commands \in Seq(CommandType)

TextsTypeOK ==
  /\ queued \in 0 .. MaxTexts
  /\ origin \in [Text -> [session : 0 .. MaxId, connection : 0 .. MaxConnections,
                         via : {"none", "flush", "input"}]]
  /\ output \in Seq([text : Text, connection : 1 .. MaxConnections])

(* The type invariant, one group of variables at a time.                   *)
LEMMA TypeOKParts ==
  /\ TypeOK <=> TableTypeOK /\ NetworkTypeOK /\ QueueTypeOK /\ TextsTypeOK
  /\ TypeOK' <=> TableTypeOK' /\ NetworkTypeOK' /\ QueueTypeOK' /\ TextsTypeOK'
  BY DEF TypeOK, TableTypeOK, NetworkTypeOK, QueueTypeOK, TextsTypeOK, CommandType

(* The types after one more text is queued.                                *)
LEMMA QueueType ==
  ASSUME TypeOK, NEW via \in {"flush", "input"}, Queue(queued + 1, via)
  PROVE  /\ queued + 1 \in Text
         /\ queued' \in 0 .. MaxTexts
         /\ origin' \in [Text -> [session : 0 .. MaxId, connection : 0 .. MaxConnections,
                                  via : {"none", "flush", "input"}]]
  <1>1. queued + 1 \in Text
    BY DEF Queue
  <1>2. current_session \in 0 .. MaxId /\ connection \in 0 .. MaxConnections
    BY DEF TypeOK, Id
  <1>. QED BY <1>1, <1>2 DEF Queue, TypeOK, Text

(* Scheduling a flush keeps the type of the command queue.                 *)
LEMMA WithFlushType ==
  ASSUME commands \in Seq(CommandType), NEW t
  PROVE  WithFlush(t) \in Seq(CommandType)
  BY FlushNotInput DEF WithFlush

(* Every step keeps the types.                                             *)
LEMMA StepTypeOK == TypeOK /\ [Next]_vars => TypeOK'
  <1> SUFFICES ASSUME TypeOK, [Next]_vars PROVE TypeOK'
    OBVIOUS
  <1> USE TypeOKParts
  <1>0. TableTypeOK /\ NetworkTypeOK /\ QueueTypeOK /\ TextsTypeOK
    OBVIOUS
  <1>1. CASE CreateSession
    <2>1. next_session_id \in Id /\ next_session_id + 1 \in 1 .. MaxId + 1
      BY <1>0, <1>1 DEF CreateSession, TableTypeOK, Id
    <2>2. TableTypeOK'
      BY <1>0, <1>1, <2>1 DEF CreateSession, TableTypeOK
    <2>. QED BY <1>0, <1>1, <2>2 DEF CreateSession, NetworkTypeOK, QueueTypeOK,
                  TextsTypeOK, network, queue, texts
  <1>2. ASSUME NEW id \in Id, SwitchSession(id) PROVE TypeOK'
    BY <1>0, <1>2 DEF SwitchSession, TableTypeOK, NetworkTypeOK, QueueTypeOK,
       TextsTypeOK, network, queue, texts
  <1>3. ASSUME NEW id \in Id, DestroySession(id) PROVE TypeOK'
    <2>1. sessions' \in Seq(Id)
      <3>1. PICK i \in DOMAIN sessions : sessions' = RemoveAt(sessions, i)
        BY <1>3 DEF DestroySession
      <3>2. i \in 1 .. Len(sessions) /\ sessions \in Seq(Id)
        BY <1>0, <3>1 DEF TableTypeOK
      <3>. QED BY <3>1, <3>2, RemoveAtElements
    <2>2. TableTypeOK'
      BY <1>0, <1>3, <2>1 DEF DestroySession, TableTypeOK
    <2>3. NetworkTypeOK'
      BY <1>0, <1>3 DEF DestroySession, NetworkTypeOK, None
    <2>. QED BY <1>0, <1>3, <2>2, <2>3 DEF DestroySession, QueueTypeOK, TextsTypeOK,
                  queue, texts
  <1>4. ASSUME NEW name \in UserHooks, AddHook(name) PROVE TypeOK'
    BY <1>0, <1>4 DEF AddHook, TableTypeOK, NetworkTypeOK, QueueTypeOK,
       TextsTypeOK, network, queue, texts
  <1>5. CASE Connect \/ Disconnect
    <2>1. NetworkTypeOK'
      BY <1>0, <1>5 DEF Connect, Disconnect, NetworkTypeOK, None
    <2>. QED BY <1>0, <1>5, <2>1 DEF Connect, Disconnect, TableTypeOK, QueueTypeOK,
                  TextsTypeOK, table, queue, texts
  <1>6. CASE TelnetSend
    <2>1. queued + 1 \in Text /\ TextsTypeOK'
      BY <1>0, <1>6, QueueType DEF TelnetSend, TextsTypeOK
    <2>2. QueueTypeOK'
      BY <1>0, <1>6, <2>1, WithFlushType DEF TelnetSend, QueueTypeOK
    <2>. QED BY <1>0, <1>6, <2>1, <2>2 DEF TelnetSend, TableTypeOK, NetworkTypeOK,
                  table, network
  <1>7. CASE SendInput
    <2>1. queued + 1 \in Text /\ TextsTypeOK'
      BY <1>0, <1>7, QueueType DEF SendInput, TextsTypeOK
    <2>2. QueueTypeOK'
      BY <1>0, <1>7, <2>1, FlushNotInput DEF SendInput, QueueTypeOK
    <2>. QED BY <1>0, <1>7, <2>1, <2>2 DEF SendInput, TableTypeOK, NetworkTypeOK,
                  table, network
  <1>8. CASE RunFlush
    <2>1. QueueTypeOK'
      <3>1. Tail(commands) \in Seq(CommandType) /\ <<>> \in Seq(Text)
        BY <1>0, <1>8 DEF RunFlush, QueueTypeOK
      <3>2. pending_send_scheduled' \in BOOLEAN
        BY <1>8 DEF RunFlush, FlagAfterFlush
      <3>. QED BY <1>8, <3>1, <3>2 DEF RunFlush, QueueTypeOK, BufferAfterFlush
    <2>2. TextsTypeOK'
      BY <1>0, <1>8, SentType DEF RunFlush, TextsTypeOK, QueueTypeOK
    <2>. QED BY <1>0, <1>8, <2>1, <2>2 DEF RunFlush, TableTypeOK, NetworkTypeOK,
                  table, network
  <1>9. CASE RunInput
    <2>1. /\ commands # <<>> /\ Head(commands) \in CommandType
          /\ Tail(commands) \in Seq(CommandType)
      BY <1>0, <1>9 DEF RunInput, QueueTypeOK
    <2>2. Head(commands).text \in Text
      BY <1>9, <2>1 DEF RunInput, CommandType, Flush, Input
    <2>3. output' \in Seq([text : Text, connection : 1 .. MaxConnections])
      <3>1. <<Head(commands).text>> \in Seq(Text)
        BY <2>2
      <3>. QED BY <1>0, <1>9, <3>1, SentType DEF RunInput, TextsTypeOK
    <2>4. CASE UNCHANGED <<pending_send_buf, pending_send_scheduled, queued, origin>>
               /\ commands' = Tail(commands)
      BY <1>0, <1>9, <2>1, <2>3, <2>4 DEF RunInput, QueueTypeOK, TextsTypeOK,
         TableTypeOK, NetworkTypeOK, table, network
    <2>5. CASE /\ Queue(queued + 1, "flush")
               /\ pending_send_buf' = Append(pending_send_buf, queued + 1)
               /\ commands' = Tail(WithFlush(queued + 1))
               /\ pending_send_scheduled' = TRUE
      <3>1. queued + 1 \in Text /\ TextsTypeOK'
        BY <1>0, <2>3, <2>5, QueueType DEF TextsTypeOK
      <3>2. commands' \in Seq(CommandType)
        <4>1. WithFlush(queued + 1) # <<>>
          BY <1>0, <2>1, FlushNotInput DEF WithFlush, QueueTypeOK
        <4>. QED BY <1>0, <2>5, <4>1, WithFlushType DEF QueueTypeOK
      <3>3. QueueTypeOK'
        BY <1>0, <2>5, <3>1, <3>2 DEF QueueTypeOK
      <3>. QED BY <1>0, <1>9, <3>1, <3>3 DEF RunInput, TableTypeOK, NetworkTypeOK,
                    table, network
    <2>. QED BY <1>9, <2>4, <2>5 DEF RunInput
  <1>10. CASE UNCHANGED vars
    BY <1>0, <1>10 DEF vars, table, network, queue, texts, TableTypeOK,
       NetworkTypeOK, QueueTypeOK, TextsTypeOK
  <1>. QED
    BY <1>1, <1>2, <1>3, <1>4, <1>5, <1>6, <1>7, <1>8, <1>9, <1>10
    DEF Next, RunCommand

-----------------------------------------------------------------------------
(* What is inductive about the table: new ids are greater than old ones.   *)
TableAgrees ==
  /\ CurrentExists
  /\ \A i \in DOMAIN sessions : sessions[i] < next_session_id

(* Every step keeps the session table and the current session in step.     *)
LEMMA StepTable == TypeOK /\ TableAgrees /\ [Next]_vars => TableAgrees'
  <1> SUFFICES ASSUME TypeOK, TableAgrees, [Next]_vars PROVE TableAgrees'
    OBVIOUS
  <1> USE DEF TableAgrees, CurrentExists
  <1>0. /\ sessions \in Seq(Id) /\ Len(sessions) \in Nat
        /\ DOMAIN sessions = 1 .. Len(sessions)
        /\ \A i \in 1 .. Len(sessions) : sessions[i] \in Id /\ sessions[i] \in Nat
        /\ next_session_id \in 1 .. MaxId + 1 /\ Id \subseteq Nat
        /\ hooks \in [Id -> SUBSET (InitHooks \cup UserHooks)]
    <2>1. /\ sessions \in Seq(Id) /\ next_session_id \in 1 .. MaxId + 1
          /\ hooks \in [Id -> SUBSET (InitHooks \cup UserHooks)]
      BY DEF TypeOK
    <2>2. /\ Len(sessions) \in Nat /\ DOMAIN sessions = 1 .. Len(sessions)
          /\ \A i \in 1 .. Len(sessions) : sessions[i] \in Id
      BY <2>1
    <2>3. \A id \in Id : id \in Nat
      BY DEF Id
    <2>. QED BY <2>1, <2>2, <2>3
  <1>1. CASE CreateSession
    <2> DEFINE new == Append(sessions, next_session_id)
    <2>1. next_session_id \in Id
      BY <1>0, <1>1 DEF CreateSession, Id
    <2>2. /\ new \in Seq(Id) /\ Len(new) = Len(sessions) + 1
          /\ DOMAIN new = 1 .. Len(sessions) + 1
          /\ new[Len(sessions) + 1] = next_session_id
          /\ \A i \in 1 .. Len(sessions) : new[i] = sessions[i]
      BY <1>0, <2>1
    <2>3. ToSet(new) = ToSet(sessions) \cup {next_session_id}
      BY <1>0, <2>1, ToSetAppend
    <2> HIDE DEF new
    <2>4. /\ sessions' = new /\ next_session_id' = next_session_id + 1
          /\ current_session' = current_session
          /\ \A id \in Id \ {next_session_id} : hooks'[id] = hooks[id]
          /\ Len(sessions) < MaxSessions
      BY <1>0, <1>1 DEF CreateSession, new
    <2>5. \A i, j \in DOMAIN new : i < j => new[i] < new[j]
      BY <1>0, <2>2
    <2>. QED BY <1>0, <2>2, <2>3, <2>4, <2>5
  <1>2. ASSUME NEW id \in Id, SwitchSession(id) PROVE TableAgrees'
    BY <1>0, <1>2 DEF SwitchSession
  <1>3. ASSUME NEW id \in Id, DestroySession(id) PROVE TableAgrees'
    <2>1. PICK i \in 1 .. Len(sessions) :
            sessions[i] = id /\ sessions' = RemoveAt(sessions, i)
      BY <1>0, <1>3 DEF DestroySession
    <2>2. /\ sessions' \in Seq(Id)
          /\ Len(sessions') = Len(sessions) - 1
          /\ DOMAIN sessions' = 1 .. Len(sessions) - 1
          /\ \A j \in 1 .. Len(sessions) - 1 :
               sessions'[j] = IF j < i THEN sessions[j] ELSE sessions[j + 1]
      <3>1. /\ sessions' \in Seq(Id)
            /\ Len(sessions') = Len(sessions) - 1
            /\ \A j \in 1 .. Len(sessions) - 1 :
                 sessions'[j] = IF j < i THEN sessions[j] ELSE sessions[j + 1]
        <4>1. /\ RemoveAt(sessions, i) \in Seq(Id)
              /\ Len(RemoveAt(sessions, i)) = Len(sessions) - 1
              /\ \A j \in 1 .. Len(sessions) - 1 :
                   RemoveAt(sessions, i)[j] = IF j < i THEN sessions[j] ELSE sessions[j + 1]
          <5>1. sessions \in Seq(Id) /\ i \in 1 .. Len(sessions)
            BY <1>0
          <5>. QED BY <5>1, RemoveAtElements
        <4>. QED BY <2>1, <4>1
      <3>. QED BY <3>1
    <2>3. \A j, k \in DOMAIN sessions' : j < k => sessions'[j] < sessions'[k]
      <3> SUFFICES ASSUME NEW j \in 1 .. Len(sessions) - 1, NEW k \in 1 .. Len(sessions) - 1,
                          j < k
                   PROVE  sessions'[j] < sessions'[k]
        BY <2>2
      <3>1. PICK m \in 1 .. Len(sessions) : sessions'[j] = sessions[m] /\ m \in {j, j + 1}
                                           /\ (m = j + 1 => i <= j)
        <4>1. CASE j < i
          <5>1. j \in 1 .. Len(sessions) /\ j # j + 1 /\ sessions'[j] = sessions[j]
            BY <1>0, <2>2, <4>1
          <5>. QED BY <5>1
        <4>2. CASE ~(j < i)
          <5>1. j + 1 \in 1 .. Len(sessions) /\ i <= j /\ sessions'[j] = sessions[j + 1]
            BY <1>0, <2>2, <4>2
          <5>. QED BY <5>1
        <4>. QED BY <4>1, <4>2
      <3>2. PICK n \in 1 .. Len(sessions) : sessions'[k] = sessions[n] /\ n \in {k, k + 1}
                                           /\ (n = k => k < i)
        BY <1>0, <2>2
      <3>3. m < n
        BY <1>0, <3>1, <3>2
      <3>. QED BY <1>0, <3>1, <3>2, <3>3
    <2>4. ToSet(sessions) \ {id} \subseteq ToSet(sessions')
      <3> SUFFICES ASSUME NEW k \in 1 .. Len(sessions), k # i
                   PROVE  sessions[k] \in ToSet(sessions')
        BY <1>0, <2>1 DEF ToSet
      <3>1. CASE k < i
        <4>1. k \in 1 .. Len(sessions) - 1 /\ sessions'[k] = sessions[k]
          BY <1>0, <2>2, <3>1
        <4>. QED BY <2>2, <4>1 DEF ToSet
      <3>2. CASE k > i
        <4>1. k - 1 \in 1 .. Len(sessions) - 1 /\ ~(k - 1 < i) /\ k - 1 + 1 = k
          BY <1>0, <3>2
        <4>. QED BY <2>2, <4>1 DEF ToSet
      <3>. QED BY <1>0, <3>1, <3>2
    <2>5. /\ current_session' \in ToSet(sessions')
          /\ next_session_id' = next_session_id
          /\ hooks' = [hooks EXCEPT ![id] = {}]
      BY <1>3, <2>4 DEF DestroySession, MayDestroy
    <2>6. Len(sessions') <= MaxSessions
      BY <1>0, <2>2
    <2>7. \A x \in Id \ ToSet(sessions') : hooks'[x] = {}
      BY <1>0, <2>4, <2>5
    <2>8. \A j \in DOMAIN sessions' : sessions'[j] < next_session_id'
      <3>1. \A j \in 1 .. Len(sessions) - 1 :
              \E m \in 1 .. Len(sessions) : sessions'[j] = sessions[m]
        BY <1>0, <2>2
      <3>. QED BY <1>0, <2>2, <2>5, <3>1
    <2>. QED BY <2>3, <2>5, <2>6, <2>7, <2>8
  <1>4. ASSUME NEW name \in UserHooks, AddHook(name) PROVE TableAgrees'
    BY <1>0, <1>4 DEF AddHook
  <1>5. CASE UNCHANGED table
    BY <1>5 DEF table
  <1>6. CASE Connect \/ Disconnect \/ TelnetSend \/ SendInput \/ RunCommand \/ UNCHANGED vars
    BY <1>5, <1>6 DEF Connect, Disconnect, TelnetSend, SendInput, RunCommand, RunFlush,
       RunInput, vars
  <1>. QED BY <1>1, <1>2, <1>3, <1>4, <1>6 DEF Next

-----------------------------------------------------------------------------
(* How many flushes a queue of commands holds.                             *)
NoFlush(cmds) == \A i \in 1 .. Len(cmds) : cmds[i] # Flush
OneFlush(cmds) ==
  \E i \in 1 .. Len(cmds) :
    cmds[i] = Flush /\ \A j \in 1 .. Len(cmds) : cmds[j] = Flush => j = i

(* FlushIsScheduled in terms of the flushes a command queue holds.         *)
LEMMA FlushesSame ==
  ASSUME QueueTypeOK
  PROVE  FlushIsScheduled <=>
           IF pending_send_buf = <<>> THEN NoFlush(commands) /\ ~pending_send_scheduled
           ELSE pending_send_scheduled /\ OneFlush(commands)
  <1> DEFINE flushes == {i \in DOMAIN commands : commands[i] = Flush}
  <1>1. DOMAIN commands = 1 .. Len(commands)
    BY DEF QueueTypeOK
  <1>2. flushes = {} <=> NoFlush(commands)
    BY <1>1 DEF NoFlush
  <1>3. (\E i \in flushes : flushes = {i}) <=> OneFlush(commands)
    BY <1>1 DEF OneFlush
  <1> HIDE DEF flushes
  <1>. QED BY <1>2, <1>3 DEF FlushIsScheduled, flushes

(* One more command on a queue, and the flushes it holds.                  *)
LEMMA FlushesAppend ==
  ASSUME NEW cmds \in Seq(CommandType), NEW t \in Text
  PROVE  /\ NoFlush(cmds) => OneFlush(Append(cmds, Flush))
         /\ NoFlush(cmds) => NoFlush(Append(cmds, Input(t)))
         /\ OneFlush(cmds) => OneFlush(Append(cmds, Input(t)))
  <1>1. /\ Len(cmds) \in Nat
        /\ \A c \in CommandType :
             /\ Len(Append(cmds, c)) = Len(cmds) + 1
             /\ \A i \in 1 .. Len(cmds) : Append(cmds, c)[i] = cmds[i]
             /\ Append(cmds, c)[Len(cmds) + 1] = c
    OBVIOUS
  <1>. QED BY <1>1, FlushNotInput DEF NoFlush, OneFlush

(* One command fewer on a queue, and the flushes it holds.                 *)
LEMMA FlushesTail ==
  ASSUME NEW cmds \in Seq(CommandType), cmds # <<>>
  PROVE  /\ Head(cmds) = Flush /\ OneFlush(cmds) => NoFlush(Tail(cmds))
         /\ Head(cmds) # Flush /\ NoFlush(cmds) => NoFlush(Tail(cmds))
         /\ Head(cmds) # Flush /\ OneFlush(cmds) => OneFlush(Tail(cmds))
         /\ Head(cmds) = Flush => ~NoFlush(cmds)
  <1>1. /\ Len(cmds) \in Nat /\ Len(cmds) > 0 /\ Head(cmds) = cmds[1]
        /\ Len(Tail(cmds)) = Len(cmds) - 1
        /\ \A i \in 1 .. Len(cmds) - 1 : Tail(cmds)[i] = cmds[i + 1]
    OBVIOUS
  <1>2. Head(cmds) # Flush /\ OneFlush(cmds) => OneFlush(Tail(cmds))
    <2> SUFFICES ASSUME Head(cmds) # Flush, OneFlush(cmds) PROVE OneFlush(Tail(cmds))
      OBVIOUS
    <2>1. PICK i \in 1 .. Len(cmds) :
            cmds[i] = Flush /\ \A j \in 1 .. Len(cmds) : cmds[j] = Flush => j = i
      BY DEF OneFlush
    <2>2. i - 1 \in 1 .. Len(cmds) - 1 /\ Tail(cmds)[i - 1] = Flush
      BY <1>1, <2>1
    <2>3. \A j \in 1 .. Len(cmds) - 1 : Tail(cmds)[j] = Flush => j = i - 1
      BY <1>1, <2>1
    <2>. QED BY <1>1, <2>2, <2>3 DEF OneFlush
  <1>. QED BY <1>1, <1>2 DEF NoFlush, OneFlush

(* Every step keeps a flush scheduled exactly while texts wait for it.     *)
LEMMA StepFlush == TypeOK /\ FlushIsScheduled /\ [Next]_vars => FlushIsScheduled'
  <1> SUFFICES ASSUME TypeOK, FlushIsScheduled, [Next]_vars PROVE FlushIsScheduled'
    OBVIOUS
  <1> DEFINE Agrees == IF pending_send_buf = <<>> THEN NoFlush(commands) /\ ~pending_send_scheduled
                       ELSE pending_send_scheduled /\ OneFlush(commands)
  <1>1. /\ QueueTypeOK /\ QueueTypeOK'
        /\ Agrees
    BY TypeOKParts, StepTypeOK, FlushesSame
  <1> SUFFICES Agrees'
    <2>1. QueueTypeOK' => (FlushIsScheduled' <=> Agrees')
      BY FlushesSame, PTL
    <2>. QED BY <1>1, <2>1
  <1>2. CASE UNCHANGED queue
    BY <1>1, <1>2 DEF queue
  <1>3. CASE TelnetSend
    <2>1. queued + 1 \in Text
      BY <1>3 DEF TelnetSend, Queue
    <2>2. pending_send_buf' # <<>> /\ pending_send_scheduled'
      BY <1>1, <1>3, <2>1 DEF TelnetSend, QueueTypeOK
    <2>3. OneFlush(commands')
      BY <1>1, <1>3, <2>1, FlushesAppend DEF TelnetSend, WithFlush, QueueTypeOK
    <2>. QED BY <2>2, <2>3
  <1>4. CASE SendInput
    <2>1. queued + 1 \in Text
      BY <1>4 DEF SendInput, Queue
    <2>. QED BY <1>1, <1>4, <2>1, FlushesAppend DEF SendInput, QueueTypeOK
  <1>5. CASE RunFlush
    BY <1>1, <1>5, FlushesTail DEF RunFlush, QueueTypeOK, BufferAfterFlush, FlagAfterFlush
  <1>6. CASE RunInput
    <2>1. Head(commands) # Flush /\ commands # <<>>
      BY <1>6 DEF RunInput, Flush
    <2>2. CASE UNCHANGED <<pending_send_buf, pending_send_scheduled>> /\ commands' = Tail(commands)
      BY <1>1, <2>1, <2>2, FlushesTail DEF QueueTypeOK
    <2>3. CASE /\ Queue(queued + 1, "flush")
               /\ pending_send_buf' = Append(pending_send_buf, queued + 1)
               /\ commands' = Tail(WithFlush(queued + 1))
               /\ pending_send_scheduled' = TRUE
      <3>1. queued + 1 \in Text
        BY <2>3 DEF Queue
      <3>2. pending_send_buf' # <<>>
        BY <1>1, <2>3, <3>1 DEF QueueTypeOK
      <3>3. /\ WithFlush(queued + 1) \in Seq(CommandType)
            /\ OneFlush(WithFlush(queued + 1))
        BY <1>1, <3>1, FlushesAppend, WithFlushType DEF WithFlush, QueueTypeOK
      <3>4. WithFlush(queued + 1) # <<>> /\ Head(WithFlush(queued + 1)) # Flush
        BY <1>1, <2>1, FlushNotInput DEF WithFlush, QueueTypeOK
      <3>. QED BY <2>3, <3>2, <3>3, <3>4, FlushesTail
    <2>. QED BY <1>6, <2>2, <2>3 DEF RunInput
  <1>7. CASE UNCHANGED vars
    BY <1>2, <1>7 DEF vars
  <1>. QED
    BY <1>2, <1>3, <1>4, <1>5, <1>6, <1>7 DEF Next, RunCommand, CreateSession, SwitchSession,
       DestroySession, AddHook, Connect, Disconnect

-----------------------------------------------------------------------------
(* What is inductive about the order of the texts: the waiting texts and   *)
(* inputs are in the order they were queued, and behind those of their     *)
(* kind that were sent.  via says how each text was queued.                *)
Ordered(buf, cmds, out, count, via) ==
  /\ \A i \in 1 .. Len(buf) : buf[i] <= count /\ via[buf[i]] = "flush"
  /\ \A i, j \in 1 .. Len(buf) : i < j => buf[i] < buf[j]
  /\ \A i \in 1 .. Len(cmds) :
       cmds[i] # Flush => cmds[i].text <= count /\ via[cmds[i].text] = "input"
  /\ \A i, j \in 1 .. Len(cmds) :
       i < j /\ cmds[i] # Flush /\ cmds[j] # Flush => cmds[i].text < cmds[j].text
  /\ \A i \in 1 .. Len(out) :
       out[i].text <= count /\ via[out[i].text] \in {"flush", "input"}
  /\ \A i \in 1 .. Len(out), j \in 1 .. Len(buf) :
       via[out[i].text] = "flush" => out[i].text < buf[j]
  /\ \A i \in 1 .. Len(out), j \in 1 .. Len(cmds) :
       via[out[i].text] = "input" /\ cmds[j] # Flush => out[i].text < cmds[j].text
  /\ \A i, j \in 1 .. Len(out) :
       i < j /\ via[out[i].text] = via[out[j].text] => out[i].text < out[j].text

Via == [t \in Text |-> origin[t].via]

OrderAgrees == Ordered(pending_send_buf, commands, output, queued, Via)

OutputType == [text : Text, connection : 1 .. MaxConnections]

(* A command that is no flush is the input of its text.                    *)
LEMMA TextOfCommand ==
  \A c \in CommandType : c # Flush => c.text \in Text /\ c = Input(c.text)
  BY DEF CommandType, Input

(* Texts are numbered in the order they were queued.                       *)
LEMMA TextsAreNumbers ==
  /\ \A s \in Seq(Text) : \A i \in 1 .. Len(s) : s[i] \in Text /\ s[i] \in Nat
  /\ \A s \in Seq(CommandType) : \A i \in 1 .. Len(s) :
       s[i] # Flush => s[i].text \in Text /\ s[i].text \in Nat
  /\ \A s \in Seq(OutputType) : \A i \in 1 .. Len(s) :
       s[i].text \in Text /\ s[i].text \in Nat
  <1>0. Text \subseteq Nat
    BY DEF Text
  <1>1. ASSUME NEW s \in Seq(Text), NEW i \in 1 .. Len(s) PROVE s[i] \in Text
    OBVIOUS
  <1>2. ASSUME NEW s \in Seq(CommandType), NEW i \in 1 .. Len(s), s[i] # Flush
        PROVE  s[i].text \in Text
    <2>1. s[i] \in CommandType
      OBVIOUS
    <2>. QED BY <1>2, <2>1, TextOfCommand
  <1>3. ASSUME NEW s \in Seq(OutputType), NEW i \in 1 .. Len(s) PROVE s[i].text \in Text
    <2>1. s[i] \in OutputType
      OBVIOUS
    <2>. QED BY <2>1 DEF OutputType
  <1>. QED BY <1>0, <1>1, <1>2, <1>3

(* A text that is queued joins the end of the buffer or of the commands.   *)
LEMMA OrderedQueue ==
  ASSUME NEW buf \in Seq(Text), NEW cmds \in Seq(CommandType), NEW out \in Seq(OutputType),
         NEW count \in Nat, NEW via, NEW more, Ordered(buf, cmds, out, count, via),
         count + 1 \in Text, \A t \in Text \ {count + 1} : more[t] = via[t]
  PROVE  /\ more[count + 1] = "flush" =>
              Ordered(Append(buf, count + 1), cmds, out, count + 1, more)
         /\ more[count + 1] = "input" =>
              Ordered(buf, Append(cmds, Input(count + 1)), out, count + 1, more)
  <1> DEFINE t == count + 1
             b == Append(buf, t)
             c == Append(cmds, Input(t))
  <1>0. t \in Nat /\ Text \subseteq Nat /\ Input(t) \in CommandType /\ Input(t) # Flush
        /\ Input(t).text = t
    BY FlushNotInput DEF Text, Input
  <1>1. /\ \A i \in 1 .. Len(buf) : buf[i] \in Text /\ buf[i] # t /\ buf[i] < t /\ buf[i] <= t
        /\ \A i \in 1 .. Len(cmds) : cmds[i] # Flush =>
             /\ cmds[i].text \in Text /\ cmds[i].text # t
             /\ cmds[i].text < t /\ cmds[i].text <= t
        /\ \A i \in 1 .. Len(out) : /\ out[i].text \in Text /\ out[i].text # t
                                   /\ out[i].text < t /\ out[i].text <= t
    <2>1. ASSUME NEW x \in Nat, x <= count PROVE x # t /\ x < t /\ x <= t
      BY <2>1
    <2>2. /\ \A i \in 1 .. Len(buf) : buf[i] \in Text /\ buf[i] \in Nat /\ buf[i] <= count
          /\ \A i \in 1 .. Len(cmds) : cmds[i] # Flush =>
               cmds[i].text \in Text /\ cmds[i].text \in Nat /\ cmds[i].text <= count
          /\ \A i \in 1 .. Len(out) :
               out[i].text \in Text /\ out[i].text \in Nat /\ out[i].text <= count
      BY TextsAreNumbers DEF Ordered
    <2>. QED BY <2>1, <2>2
  <1>2. /\ Len(buf) \in Nat /\ Len(b) = Len(buf) + 1 /\ b[Len(buf) + 1] = t
        /\ \A i \in 1 .. Len(buf) : b[i] = buf[i]
    BY <1>0
  <1>3. /\ Len(cmds) \in Nat /\ Len(c) = Len(cmds) + 1 /\ c[Len(cmds) + 1] = Input(t)
        /\ \A i \in 1 .. Len(cmds) : c[i] = cmds[i]
    BY <1>0
  <1>4. /\ \A i \in 1 .. Len(buf) : more[buf[i]] = "flush"
        /\ \A i \in 1 .. Len(cmds) : cmds[i] # Flush => more[cmds[i].text] = "input"
        /\ \A i \in 1 .. Len(out) : /\ more[out[i].text] = via[out[i].text]
                                   /\ more[out[i].text] \in {"flush", "input"}
    BY <1>1 DEF Ordered
  <1> HIDE DEF t, b, c
  <1>5. ASSUME more[t] = "flush" PROVE Ordered(b, cmds, out, t, more)
    <2>0. \A i \in 1 .. Len(b) : (i \in 1 .. Len(buf) /\ b[i] = buf[i])
                                \/ (i = Len(buf) + 1 /\ b[i] = t)
      BY <1>2
    <2>1. \A i \in 1 .. Len(b) : b[i] <= t /\ more[b[i]] = "flush"
      <3>1. t <= t
        BY <1>0
      <3>. QED BY <1>1, <1>4, <1>5, <2>0, <3>1
    <2>2. \A i, j \in 1 .. Len(b) : i < j => b[i] < b[j]
      <3>1. \A i, j \in 1 .. Len(b) : i < j => i \in 1 .. Len(buf) /\ b[i] = buf[i]
        BY <1>2
      <3>2. \A i, j \in 1 .. Len(buf) : i < j => buf[i] < buf[j]
        BY DEF Ordered
      <3>. QED BY <1>1, <2>0, <3>1, <3>2
    <2>3. \A i \in 1 .. Len(out), j \in 1 .. Len(b) :
            more[out[i].text] = "flush" => out[i].text < b[j]
      <3>1. \A i \in 1 .. Len(out), j \in 1 .. Len(buf) :
              via[out[i].text] = "flush" => out[i].text < buf[j]
        BY DEF Ordered
      <3>. QED BY <1>1, <1>4, <2>0, <3>1
    <2>4. /\ \A i \in 1 .. Len(cmds) : cmds[i] # Flush => cmds[i].text <= t
          /\ \A i \in 1 .. Len(out) : out[i].text <= t
      BY <1>1
    <2>. QED BY <1>4, <2>1, <2>2, <2>3, <2>4 DEF Ordered
  <1>6. ASSUME more[t] = "input" PROVE Ordered(buf, c, out, t, more)
    <2>0. \A i \in 1 .. Len(c) : (i \in 1 .. Len(cmds) /\ c[i] = cmds[i])
                                \/ (i = Len(cmds) + 1 /\ c[i].text = t)
      BY <1>0, <1>3
    <2>1. \A i \in 1 .. Len(c) : c[i] # Flush => c[i].text <= t /\ more[c[i].text] = "input"
      <3>1. t <= t
        BY <1>0
      <3>. QED BY <1>1, <1>4, <1>6, <2>0, <3>1
    <2>2. \A i, j \in 1 .. Len(c) :
            i < j /\ c[i] # Flush /\ c[j] # Flush => c[i].text < c[j].text
      <3>1. \A i, j \in 1 .. Len(c) : i < j => i \in 1 .. Len(cmds) /\ c[i] = cmds[i]
        BY <1>3
      <3>2. \A i, j \in 1 .. Len(cmds) :
              i < j /\ cmds[i] # Flush /\ cmds[j] # Flush => cmds[i].text < cmds[j].text
        BY DEF Ordered
      <3>. QED BY <1>1, <2>0, <3>1, <3>2
    <2>3. \A i \in 1 .. Len(out), j \in 1 .. Len(c) :
            more[out[i].text] = "input" /\ c[j] # Flush => out[i].text < c[j].text
      <3>1. \A i \in 1 .. Len(out), j \in 1 .. Len(cmds) :
              via[out[i].text] = "input" /\ cmds[j] # Flush => out[i].text < cmds[j].text
        BY DEF Ordered
      <3>. QED BY <1>1, <1>4, <2>0, <3>1
    <2>4. /\ \A i \in 1 .. Len(buf) : buf[i] <= t
          /\ \A i \in 1 .. Len(out) : out[i].text <= t
      BY <1>1
    <2>. QED BY <1>4, <2>1, <2>2, <2>3, <2>4 DEF Ordered
  <1>. QED BY <1>5, <1>6 DEF t, b, c

(* A flush changes nothing of the order, and neither does a command that   *)
(* leaves the queue.                                                       *)
LEMMA OrderedCommands ==
  ASSUME NEW buf, NEW cmds \in Seq(CommandType), NEW out, NEW count, NEW via,
         Ordered(buf, cmds, out, count, via)
  PROVE  /\ Ordered(buf, Append(cmds, Flush), out, count, via)
         /\ cmds # <<>> => Ordered(buf, Tail(cmds), out, count, via)
         /\ Ordered(<<>>, cmds, out, count, via)
  <1>1. /\ Len(cmds) \in Nat /\ Len(Append(cmds, Flush)) = Len(cmds) + 1
        /\ Append(cmds, Flush)[Len(cmds) + 1] = Flush
        /\ \A i \in 1 .. Len(cmds) : Append(cmds, Flush)[i] = cmds[i]
    BY FlushNotInput
  <1>2. cmds # <<>> => /\ Len(Tail(cmds)) = Len(cmds) - 1
                       /\ \A i \in 1 .. Len(cmds) - 1 : Tail(cmds)[i] = cmds[i + 1]
    OBVIOUS
  <1>3. Ordered(buf, Append(cmds, Flush), out, count, via)
    BY <1>1 DEF Ordered
  <1>4. cmds # <<>> => Ordered(buf, Tail(cmds), out, count, via)
    BY <1>1, <1>2 DEF Ordered
  <1>5. Ordered(<<>>, cmds, out, count, via)
    BY DEF Ordered
  <1>. QED BY <1>3, <1>4, <1>5

(* Texts of one kind that are sent when they are at the front: all of the  *)
(* buffer, or the first input.                                             *)
LEMMA OrderedSent ==
  ASSUME NEW buf \in Seq(Text), NEW cmds \in Seq(CommandType), NEW out \in Seq(OutputType),
         NEW count \in Nat, NEW via, NEW more \in Seq(OutputType),
         Ordered(buf, cmds, out, count, via)
  PROVE  /\ /\ Len(more) = Len(buf) /\ \A i \in 1 .. Len(buf) : more[i].text = buf[i]
            => Ordered(<<>>, cmds, out \o more, count, via)
         /\ /\ Len(more) = 1 /\ cmds # <<>> /\ Head(cmds) # Flush
            /\ more[1].text = Head(cmds).text
            => Ordered(buf, Tail(cmds), out \o more, count, via)
  <1> DEFINE all == out \o more
  <1>1. /\ Len(out) \in Nat /\ Len(more) \in Nat /\ Len(all) = Len(out) + Len(more)
        /\ \A i \in 1 .. Len(out) : all[i] = out[i]
        /\ \A i \in Len(out) + 1 .. Len(all) :
             i - Len(out) \in 1 .. Len(more) /\ all[i] = more[i - Len(out)]
    OBVIOUS
  <1>2. /\ Len(buf) \in Nat /\ \A i \in 1 .. Len(buf) : buf[i] \in Nat
        /\ Len(cmds) \in Nat
        /\ \A i \in 1 .. Len(cmds) : cmds[i] # Flush => cmds[i].text \in Nat
        /\ \A i \in 1 .. Len(out) : out[i].text \in Nat
        /\ \A i \in 1 .. Len(more) : more[i].text \in Nat
    BY TextsAreNumbers
  <1> HIDE DEF all
  <1>3. \A i \in 1 .. Len(all) :
          \/ (i \in 1 .. Len(out) /\ all[i] = out[i])
          \/ (i > Len(out) /\ i - Len(out) \in 1 .. Len(more) /\ all[i] = more[i - Len(out)])
    BY <1>1
  <1>4. \A i, j \in 1 .. Len(out) :
          i < j /\ via[out[i].text] = via[out[j].text] => out[i].text < out[j].text
    BY DEF Ordered
  <1>5. ASSUME Len(more) = Len(buf), \A i \in 1 .. Len(buf) : more[i].text = buf[i]
        PROVE  Ordered(<<>>, cmds, all, count, via)
    <2>0. \A i \in 1 .. Len(all) :
            \/ (i \in 1 .. Len(out) /\ all[i] = out[i])
            \/ (i > Len(out) /\ i - Len(out) \in 1 .. Len(buf) /\ all[i].text = buf[i - Len(out)])
      BY <1>3, <1>5
    <2>1. \A i \in 1 .. Len(all) :
            all[i].text <= count /\ via[all[i].text] \in {"flush", "input"}
      BY <2>0 DEF Ordered
    <2>2. \A i \in 1 .. Len(all), j \in 1 .. Len(cmds) :
            via[all[i].text] = "input" /\ cmds[j] # Flush => all[i].text < cmds[j].text
      <3>1. \A i \in 1 .. Len(buf) : via[buf[i]] # "input"
        BY DEF Ordered
      <3>. QED BY <2>0, <3>1 DEF Ordered
    <2>3. \A i, j \in 1 .. Len(all) :
            i < j /\ via[all[i].text] = via[all[j].text] => all[i].text < all[j].text
      <3> SUFFICES ASSUME NEW i \in 1 .. Len(all), NEW j \in 1 .. Len(all), i < j,
                          via[all[i].text] = via[all[j].text]
                   PROVE  all[i].text < all[j].text
        OBVIOUS
      <3>1. CASE j \in 1 .. Len(out)
        <4>1. i \in 1 .. Len(out) /\ all[i] = out[i] /\ all[j] = out[j]
          BY <1>1, <3>1
        <4>. QED BY <1>4, <4>1, <3>1
      <3>2. CASE i \in 1 .. Len(out) /\ j > Len(out)
        <4>1. /\ all[i] = out[i] /\ j - Len(out) \in 1 .. Len(buf)
              /\ all[j].text = buf[j - Len(out)]
          BY <1>1, <2>0, <3>2
        <4>2. via[buf[j - Len(out)]] = "flush"
          BY <4>1 DEF Ordered
        <4>3. via[out[i].text] = "flush"
          BY <4>1, <4>2
        <4>. QED BY <4>1, <4>3, <3>2 DEF Ordered
      <3>3. CASE i > Len(out) /\ j > Len(out)
        <4>1. /\ i - Len(out) \in 1 .. Len(buf) /\ j - Len(out) \in 1 .. Len(buf)
              /\ all[i].text = buf[i - Len(out)] /\ all[j].text = buf[j - Len(out)]
          <5>1. ~(i \in 1 .. Len(out)) /\ ~(j \in 1 .. Len(out))
            BY <1>1, <3>3
          <5>. QED BY <2>0, <5>1
        <4>2. i - Len(out) < j - Len(out)
          BY <1>1
        <4>. QED BY <4>1, <4>2 DEF Ordered
      <3>. QED BY <1>1, <3>1, <3>2, <3>3
    <2>. QED BY <2>1, <2>2, <2>3 DEF Ordered
  <1>6. ASSUME Len(more) = 1, cmds # <<>>, Head(cmds) # Flush, more[1].text = Head(cmds).text
        PROVE  Ordered(buf, Tail(cmds), all, count, via)
    <2>1. /\ Head(cmds) = cmds[1] /\ Len(Tail(cmds)) = Len(cmds) - 1 /\ 1 \in 1 .. Len(cmds)
          /\ \A i \in 1 .. Len(cmds) - 1 :
               i + 1 \in 1 .. Len(cmds) /\ 1 < i + 1 /\ Tail(cmds)[i] = cmds[i + 1]
      BY <1>2, <1>6
    <2>2. \A i \in 1 .. Len(all) :
            \/ (i \in 1 .. Len(out) /\ all[i] = out[i])
            \/ (i = Len(out) + 1 /\ all[i].text = cmds[1].text)
      <3>1. ASSUME NEW i \in 1 .. Len(all), i > Len(out), i - Len(out) \in 1 .. Len(more),
                   all[i] = more[i - Len(out)]
            PROVE  i = Len(out) + 1 /\ all[i].text = cmds[1].text
        <4>1. i = Len(out) + 1 /\ i - Len(out) = 1
          BY <1>1, <1>6, <3>1
        <4>. QED BY <1>6, <2>1, <3>1, <4>1
      <3>. QED BY <1>3, <3>1
    <2>0. /\ cmds[1].text <= count /\ via[cmds[1].text] = "input"
          /\ \A j \in 1 .. Len(cmds) : 1 < j /\ cmds[j] # Flush => cmds[1].text < cmds[j].text
      BY <1>6, <2>1 DEF Ordered
    <2>3. \A i \in 1 .. Len(all) :
            all[i].text <= count /\ via[all[i].text] \in {"flush", "input"}
      BY <2>0, <2>2 DEF Ordered
    <2>4. \A i \in 1 .. Len(all), j \in 1 .. Len(buf) :
            via[all[i].text] = "flush" => all[i].text < buf[j]
      BY <2>0, <2>2 DEF Ordered
    <2>5. \A i \in 1 .. Len(all), j \in 1 .. Len(cmds) - 1 :
            via[all[i].text] = "input" /\ cmds[j + 1] # Flush => all[i].text < cmds[j + 1].text
      <3>1. \A i \in 1 .. Len(out), j \in 1 .. Len(cmds) :
              via[out[i].text] = "input" /\ cmds[j] # Flush => out[i].text < cmds[j].text
        BY DEF Ordered
      <3>2. \A j \in 1 .. Len(cmds) - 1 : cmds[j + 1] # Flush => cmds[1].text < cmds[j + 1].text
        BY <2>0, <2>1
      <3>. QED BY <2>1, <2>2, <3>1, <3>2
    <2>6. \A i, j \in 1 .. Len(all) :
            i < j /\ via[all[i].text] = via[all[j].text] => all[i].text < all[j].text
      <3>2. \A i \in 1 .. Len(out) : via[out[i].text] = "input" => out[i].text < cmds[1].text
        BY <1>6, <2>1 DEF Ordered
      <3>3. \A i, j \in 1 .. Len(all) : i < j =>
              i \in 1 .. Len(out) /\ all[i] = out[i]
        BY <1>1, <2>2
      <3>. QED BY <1>4, <2>0, <2>2, <3>2, <3>3
    <2>7. /\ \A i \in 1 .. Len(Tail(cmds)) : Tail(cmds)[i] # Flush =>
               Tail(cmds)[i].text <= count /\ via[Tail(cmds)[i].text] = "input"
          /\ \A i, j \in 1 .. Len(Tail(cmds)) :
               i < j /\ Tail(cmds)[i] # Flush /\ Tail(cmds)[j] # Flush
                 => Tail(cmds)[i].text < Tail(cmds)[j].text
      BY OrderedCommands, <1>6 DEF Ordered
    <2>. QED BY <2>1, <2>3, <2>4, <2>5, <2>6, <2>7 DEF Ordered
  <1>. QED BY <1>5, <1>6 DEF all

(* What Sent appends: the texts of the list, or nothing.                   *)
LEMMA SentElements ==
  ASSUME TypeOK, NEW list \in Seq(Text)
  PROVE  \/ Sent(list) = output
         \/ \E more \in Seq(OutputType) :
              /\ Sent(list) = output \o more
              /\ Len(more) = Len(list)
              /\ \A i \in 1 .. Len(list) : more[i].text = list[i]
  <1> DEFINE more == [i \in DOMAIN list |-> [text |-> list[i], connection |-> connection]]
  <1>1. CASE connection # None
    <2>1. connection \in 1 .. MaxConnections
      BY <1>1 DEF TypeOK, None
    <2>2. DOMAIN list = 1 .. Len(list) /\ Len(list) \in Nat
      OBVIOUS
    <2>3. more \in Seq(OutputType)
      <3> DEFINE R == OutputType
      <3>1. \A i \in 1 .. Len(list) : [text |-> list[i], connection |-> connection] \in R
        BY <2>1 DEF OutputType
      <3> HIDE DEF R
      <3>2. more \in [1 .. Len(list) -> R]
        BY <3>1, <2>2
      <3>. QED BY <2>2, <3>2 DEF R
    <2>4. Len(more) = Len(list) /\ \A i \in 1 .. Len(list) : more[i].text = list[i]
      BY <2>2
    <2> HIDE DEF more
    <2>5. Sent(list) = output \o more \/ Sent(list) = output
      BY DEF Sent, more
    <2>. QED BY <2>3, <2>4, <2>5
  <1>2. CASE connection = None
    BY <1>2 DEF Sent
  <1>. QED BY <1>1, <1>2

(* Every step keeps what was sent, and what waits, in the order of         *)
(* queueing.                                                               *)
LEMMA StepOrder == TypeOK /\ OrderAgrees /\ [Next]_vars => OrderAgrees'
  <1> SUFFICES ASSUME TypeOK, OrderAgrees, [Next]_vars PROVE OrderAgrees'
    OBVIOUS
  <1>1. /\ pending_send_buf \in Seq(Text) /\ commands \in Seq(CommandType)
        /\ output \in Seq(OutputType) /\ queued \in Nat
        /\ Ordered(pending_send_buf, commands, output, queued, Via)
    BY DEF TypeOK, CommandType, OutputType, OrderAgrees
  <1>2. CASE UNCHANGED <<queue, texts>>
    BY <1>2 DEF OrderAgrees, Ordered, Via, queue, texts
  <1>3. ASSUME NEW via \in {"flush", "input"}, Queue(queued + 1, via)
        PROVE  /\ queued + 1 \in Text /\ queued' = queued + 1
               /\ Via'[queued + 1] = via
               /\ \A t \in Text \ {queued + 1} : Via'[t] = Via[t]
    BY <1>3 DEF Queue, Via, TypeOK
  <1>4. ASSUME NEW cmds \in Seq(CommandType), NEW out \in Seq(OutputType),
               Ordered(pending_send_buf, cmds, out, queued, Via), Queue(queued + 1, "flush")
        PROVE  Ordered(Append(pending_send_buf, queued + 1), cmds, out, queued', Via')
    BY <1>1, <1>3, <1>4, OrderedQueue
  <1>5. Ordered(pending_send_buf, WithFlush(queued + 1), output, queued, Via)
    BY <1>1, OrderedCommands DEF WithFlush
  <1>6. CASE TelnetSend
    <2>1. Ordered(Append(pending_send_buf, queued + 1), WithFlush(queued + 1), output,
                  queued', Via')
      BY <1>1, <1>4, <1>5, <1>6, WithFlushType DEF TelnetSend
    <2>. QED BY <1>6, <2>1 DEF TelnetSend, OrderAgrees
  <1>7. CASE SendInput
    <2>1. Queue(queued + 1, "input")
      BY <1>7 DEF SendInput
    <2>2. Ordered(pending_send_buf, Append(commands, Input(queued + 1)), output, queued', Via')
      BY <1>1, <1>3, <2>1, OrderedQueue
    <2>. QED BY <1>7, <2>2 DEF SendInput, OrderAgrees
  <1>8. CASE RunFlush
    <2>1. Ordered(<<>>, commands, output', queued, Via)
      <3>1. CASE output' = output
        BY <1>1, <3>1, OrderedCommands
      <3>2. CASE output' # output
        <4>1. PICK more \in Seq(OutputType) :
                /\ output' = output \o more
                /\ Len(more) = Len(pending_send_buf)
                /\ \A i \in 1 .. Len(pending_send_buf) : more[i].text = pending_send_buf[i]
          BY <1>1, <1>8, <3>2, SentElements DEF RunFlush
        <4>. QED BY <1>1, <4>1, OrderedSent
      <3>. QED BY <3>1, <3>2
    <2>2. Ordered(<<>>, Tail(commands), output', queued, Via)
      BY <1>1, <1>8, <2>1, OrderedCommands DEF RunFlush
    <2>. QED BY <1>8, <2>2 DEF RunFlush, OrderAgrees, BufferAfterFlush, Via
  <1>9. CASE RunInput
    <2>1. commands # <<>> /\ Head(commands) # Flush /\ Head(commands) = commands[1]
      BY <1>1, <1>9 DEF RunInput, Flush
    <2>2. Head(commands).text \in Text
      BY <1>1, <2>1, TextOfCommand
    <2>3. output' \in Seq(OutputType)
      <3>1. TypeOK'
        BY StepTypeOK
      <3>. QED BY <3>1 DEF TypeOK, OutputType
    <2>4. Ordered(pending_send_buf, Tail(commands), output', queued, Via)
      <3>1. CASE output' = output
        BY <1>1, <2>1, <3>1, OrderedCommands
      <3>2. CASE output' # output
        <4>1. <<Head(commands).text>> \in Seq(Text) /\ Len(<<Head(commands).text>>) = 1
              /\ <<Head(commands).text>>[1] = Head(commands).text
          BY <2>2
        <4>2. PICK more \in Seq(OutputType) :
                /\ output' = output \o more /\ Len(more) = 1
                /\ more[1].text = Head(commands).text
          <5>1. output' = Sent(<<Head(commands).text>>)
            BY <1>9, <3>2 DEF RunInput
          <5> DEFINE list == <<Head(commands).text>>
          <5>2. list \in Seq(Text) /\ Len(list) = 1 /\ list[1] = Head(commands).text
            BY <4>1
          <5> HIDE DEF list
          <5>3. PICK more \in Seq(OutputType) :
                  /\ Sent(list) = output \o more /\ Len(more) = Len(list)
                  /\ \A i \in 1 .. Len(list) : more[i].text = list[i]
            BY <3>2, <5>1, <5>2, SentElements DEF list
          <5>. QED BY <5>1, <5>2, <5>3 DEF list
        <4>. QED BY <1>1, <2>1, <4>2, OrderedSent
      <3>. QED BY <3>1, <3>2
    <2>5. CASE commands' = Tail(commands)
               /\ UNCHANGED <<pending_send_buf, pending_send_scheduled, queued, origin>>
      BY <2>4, <2>5 DEF OrderAgrees, Via
    <2>6. CASE /\ Queue(queued + 1, "flush")
               /\ pending_send_buf' = Append(pending_send_buf, queued + 1)
               /\ commands' = Tail(WithFlush(queued + 1))
      <3>1. /\ commands' \in Seq(CommandType)
            /\ Ordered(pending_send_buf, commands', output', queued, Via)
        <4>1. CASE pending_send_scheduled
          BY <1>1, <2>1, <2>4, <2>6, <4>1 DEF WithFlush
        <4>2. CASE ~pending_send_scheduled
          <5>1. Tail(Append(commands, Flush)) = Append(Tail(commands), Flush)
            BY <1>1, <2>1, FlushNotInput
          <5>2. Tail(commands) \in Seq(CommandType)
            BY <1>1, <2>1
          <5>3. commands' = Append(Tail(commands), Flush)
            BY <2>6, <4>2, <5>1 DEF WithFlush
          <5>4. Append(Tail(commands), Flush) \in Seq(CommandType)
            BY <5>2, FlushNotInput
          <5>5. Ordered(pending_send_buf, Append(Tail(commands), Flush), output', queued, Via)
            BY <2>4, <5>2, OrderedCommands
          <5>. QED BY <5>3, <5>4, <5>5
        <4>. QED BY <4>1, <4>2
      <3>. QED BY <1>4, <2>3, <2>6, <3>1 DEF OrderAgrees
    <2>. QED BY <1>9, <2>5, <2>6 DEF RunInput
  <1>10. CASE UNCHANGED vars
    BY <1>2, <1>10 DEF vars
  <1>. QED
    BY <1>2, <1>6, <1>7, <1>8, <1>9, <1>10 DEF Next, RunCommand, CreateSession, SwitchSession,
       DestroySession, AddHook, Connect, Disconnect

-----------------------------------------------------------------------------
(* The inductive invariant of the sessions and their queue.                *)
IInv == TypeOK /\ TableAgrees /\ FlushIsScheduled /\ OrderAgrees

(* The inductive invariant at the start.                                   *)
LEMMA InitIInv == Init => IInv
  <1> SUFFICES ASSUME Init PROVE TableAgrees /\ FlushIsScheduled /\ OrderAgrees
    BY InitTypeOK DEF IInv
  <1>1. TableAgrees
    <2>1. DOMAIN sessions = {1} /\ sessions[1] = 1 /\ Len(sessions) = 1
      BY DEF Init
    <2>2. ToSet(sessions) = {1}
      BY <2>1 DEF ToSet
    <2>. QED BY <2>1, <2>2 DEF Init, TableAgrees, CurrentExists
  <1>2. FlushIsScheduled
    <2>1. DOMAIN <<>> = {}
      OBVIOUS
    <2>. QED BY <2>1 DEF Init, FlushIsScheduled
  <1>3. OrderAgrees
    BY DEF Init, OrderAgrees, Ordered
  <1>. QED BY <1>1, <1>2, <1>3

(* Every step keeps the inductive invariant.                               *)
LEMMA StepIInv == IInv /\ [Next]_vars => IInv'
  BY StepTypeOK, StepTable, StepFlush, StepOrder DEF IInv

(* The inductive invariant holds of the sessions.                          *)
LEMMA SpecIInv == Spec => []IInv
  BY InitIInv, StepIInv, PTL DEF Spec

(* Type correctness: current_session is an id that was handed out or could *)
(* be, and what waits to be run is a flush or an input.                    *)
THEOREM SessionsTypeOK == Spec => []TypeOK
  <1>1. IInv => TypeOK
    BY DEF IInv
  <1>. QED BY SpecIInv, <1>1, PTL

(* telnet-session-switch and telnet-session-destroy, in any order, leave   *)
(* current_session on a live session, the table in order and within its    *)
(* capacity, and no hook in the table of a destroyed session.              *)
THEOREM CurrentAlwaysExists == Spec => []CurrentExists
  <1>1. IInv => CurrentExists
    BY DEF IInv, TableAgrees
  <1>. QED BY SpecIInv, <1>1, PTL

(* pending_send_scheduled tells the truth about the runtime's queue: while *)
(* texts wait, exactly one flush_pending_sends is scheduled, and none else.*)
THEOREM FlushAlwaysScheduled == Spec => []FlushIsScheduled
  <1>1. IInv => FlushIsScheduled
    BY DEF IInv
  <1>. QED BY SpecIInv, <1>1, PTL

(* telnet-send sends in the order of its calls and each text once, and so  *)
(* does send-input, although a flush may be older than the texts it takes  *)
(* and hooks queue texts while they run.                                   *)
THEOREM AlwaysSentInOrder == Spec => []SentInOrder
  <1>1. IInv => SentInOrder
    <2> SUFFICES ASSUME IInv, NEW i \in DOMAIN output, NEW j \in DOMAIN output, i < j,
                        origin[output[i].text].via = origin[output[j].text].via
                 PROVE  output[i].text < output[j].text
      BY DEF SentInOrder
    <2>1. /\ DOMAIN output = 1 .. Len(output) /\ output \in Seq(OutputType)
          /\ Ordered(pending_send_buf, commands, output, queued, Via)
      BY DEF IInv, TypeOK, OutputType, OrderAgrees
    <2>2. output[i].text \in Text /\ output[j].text \in Text
      BY <2>1, TextsAreNumbers
    <2>3. Via[output[i].text] = Via[output[j].text]
      BY <2>2 DEF Via
    <2>. QED BY <2>1, <2>3 DEF Ordered
  <1>. QED BY SpecIInv, <1>1, PTL

(* A text that leaves the buffer is sent when the session that queued it   *)
(* is current and the connection it was queued for is up.                  *)
THEOREM AlwaysQueuedIsSent == Spec => QueuedIsSent
  <1>1. TypeOK /\ [Next]_vars =>
          [\A t \in ToSet(pending_send_buf) \ ToSet(pending_send_buf') :
             /\ origin[t].session \in telnet /\ current_session = origin[t].session
             /\ connection # None /\ connection = origin[t].connection
             => \E i \in DOMAIN output' : output'[i].text = t]_vars
    <2> SUFFICES ASSUME TypeOK, Next,
                        NEW t \in ToSet(pending_send_buf), t \notin ToSet(pending_send_buf'),
                        current_session \in telnet, connection # None
                 PROVE  \E i \in DOMAIN output' : output'[i].text = t
      OBVIOUS
    <2>1. pending_send_buf \in Seq(Text) /\ output \in Seq(OutputType)
      BY DEF TypeOK, OutputType
    <2>2. ~UNCHANGED pending_send_buf
      OBVIOUS
    <2>3. ASSUME queued + 1 \in Text, pending_send_buf' = Append(pending_send_buf, queued + 1)
          PROVE  FALSE
      BY <2>1, <2>3, ToSetAppend
    <2>4. RunFlush
      BY <2>2, <2>3 DEF Next, RunCommand, CreateSession, SwitchSession, DestroySession, AddHook,
         Connect, Disconnect, TelnetSend, SendInput, RunInput, Queue, queue
    <2>5. PICK k \in 1 .. Len(pending_send_buf) : pending_send_buf[k] = t
      BY <2>1 DEF ToSet
    <2> DEFINE more == [i \in DOMAIN pending_send_buf |->
                          [text |-> pending_send_buf[i], connection |-> connection]]
    <2>6. output' = output \o more
      BY <2>4 DEF RunFlush, Sent
    <2>7. /\ DOMAIN more = 1 .. Len(pending_send_buf) /\ Len(pending_send_buf) \in Nat
          /\ more[k].text = t
      BY <2>1, <2>5
    <2>8. more \in Seq([text : Text, connection : {connection}])
      <3> DEFINE R == [text : Text, connection : {connection}]
      <3>1. \A i \in 1 .. Len(pending_send_buf) :
              [text |-> pending_send_buf[i], connection |-> connection] \in R
        BY <2>1
      <3> HIDE DEF R
      <3>2. more \in [1 .. Len(pending_send_buf) -> R]
        BY <2>1, <3>1
      <3>. QED BY <2>1, <3>2 DEF R
    <2> HIDE DEF more
    <2>9. Len(output) + k \in DOMAIN (output \o more) /\ (output \o more)[Len(output) + k] = more[k]
      BY <2>1, <2>5, <2>7, <2>8
    <2>. QED BY <2>6, <2>7, <2>9
  <1>2. IInv => TypeOK
    BY DEF IInv
  <1>. QED BY SpecIInv, <1>1, <1>2, PTL DEF QueuedIsSent, Spec
=============================================================================
