---------------------------- MODULE TelnetProofs ----------------------------
(***************************************************************************)
(* Safety of the telnet connection for every server, buffer size, retry    *)
(* count and set of descriptors: its struct and its descriptors, what the  *)
(* receive path makes of the whole stream of a connection, and the copies  *)
(* that the client keeps of the connection's state.                        *)
(***************************************************************************)
EXTENDS Client, TelnetStream, SequenceTheorems, WellFoundedInduction, TLAPS

(* A set that has 0 and the successor of each of its numbers has them all. *)
LEMMA NatSet ==
  ASSUME NEW T, 0 \in T, \A n \in Nat : n \in T => n + 1 \in T
  PROVE  Nat \subseteq T
  <1> DEFINE R == OpToRel(<, Nat)
  <1> SUFFICES ASSUME Nat \ T # {} PROVE FALSE
    OBVIOUS
  <1>1. \A x, y \in Nat : x < y => <<x, y>> \in R
    BY DEF OpToRel
  <1>2. PICK m \in Nat \ T : \A y \in Nat \ T : ~(<<y, m>> \in R)
    <2> HIDE DEF R
    <2>1. IsWellFoundedOn(R, Nat)
      BY NatLessThanWellFounded DEF R
    <2>. QED BY <2>1, WFMin
  <1> HIDE DEF R
  <1>3. m \in Nat /\ m # 0 /\ m - 1 \in Nat /\ m - 1 < m
    OBVIOUS
  <1>4. m - 1 \in T
    <2>1. <<m - 1, m>> \in R
      BY <1>1, <1>3
    <2>. QED BY <1>2, <1>3, <2>1
  <1>. QED BY <1>3, <1>4

(* A function on 0 .. n, with values in D, given by its first value and by *)
(* how each value follows from the one before.                             *)
Steps(G, n, D) == n \in Nat /\ G \in [1 .. n -> [D -> D]]

Follows(f, base, G, n, D) ==
  /\ f \in [0 .. n -> D]
  /\ f[0] = base /\ \A i \in 1 .. n : f[i] = G[i][f[i - 1]]

(* Such a function exists.                                                 *)
LEMMA Recursion ==
  ASSUME NEW D, NEW base \in D, NEW n, NEW G, Steps(G, n, D)
  PROVE  \E f : Follows(f, base, G, n, D)
<1> USE DEF Steps
<1> DEFINE Good(f, m) == f[0] = base /\ \A i \in 1 .. m : f[i] = G[i][f[i - 1]]
           T == {m \in Nat : m <= n => \E f \in [0 .. m -> D] : Good(f, m)}
<1>1. 0 \in T
  <2> DEFINE f == [i \in 0 .. 0 |-> base]
  <2>1. f \in [0 .. 0 -> D] /\ Good(f, 0)
    OBVIOUS
  <2> HIDE DEF f, Good
  <2>2. QED
    BY <2>1
<1>2. \A m \in Nat : m \in T => m + 1 \in T
  <2> SUFFICES ASSUME NEW m \in Nat, m \in T, m + 1 <= n
               PROVE  \E f \in [0 .. m + 1 -> D] : Good(f, m + 1)
    OBVIOUS
  <2> HIDE DEF Good
  <2>1. PICK f \in [0 .. m -> D] : Good(f, m)
    OBVIOUS
  <2> DEFINE g == [i \in 0 .. m + 1 |-> IF i = m + 1 THEN G[m + 1][f[m]] ELSE f[i]]
  <2>2. G[m + 1][f[m]] \in D
    <3>1. m + 1 \in 1 .. n /\ m \in 0 .. m
      OBVIOUS
    <3>2. f[m] \in D /\ G[m + 1] \in [D -> D]
      BY <3>1
    <3>3. QED
      BY <3>2
  <2>3. g \in [0 .. m + 1 -> D]
    BY <2>2
  <2>4. /\ \A i \in 0 .. m : g[i] = f[i]
        /\ g[m + 1] = G[m + 1][f[m]]
    OBVIOUS
  <2> HIDE DEF g
  <2>5. Good(g, m + 1)
    <3>1. g[0] = base
      BY <2>1, <2>4 DEF Good
    <3>2. ASSUME NEW i \in 1 .. m + 1
          PROVE  g[i] = G[i][g[i - 1]]
      <4>1. CASE i = m + 1
        BY <2>4, <4>1
      <4>2. CASE i \in 1 .. m
        <5>1. i - 1 \in 0 .. m /\ i \in 0 .. m
          BY <4>2
        <5>2. QED
          BY <2>1, <2>4, <4>2, <5>1 DEF Good
      <4>3. QED
        BY <4>1, <4>2
    <3>3. QED
      BY <3>1, <3>2 DEF Good
  <2>6. QED
    BY <2>3, <2>5
<1> HIDE DEF T
<1>3. n \in T
  BY <1>1, <1>2, NatSet
<1>4. QED
  BY <1>3 DEF T, Follows

-----------------------------------------------------------------------------
(* What is inductive: the agreement of the state with the call in progress *)
(* says which descriptor a step may close.                                 *)
IInv ==
  /\ TypeOK
  /\ StateAgrees
  /\ FreshStart
  /\ NoLeak
  /\ InPlaceParse

USE PacketsAssumption, BufSizeAssumption, RetriesAssumption,
    DescriptorsAssumption, MaxSentAssumption

(* NoFd is no descriptor. *)
LEMMA NoFdIsNone == NoFd \notin Descriptors
  BY DEF NoFd

(* A call to recv() takes at most BufSize bytes off the front of what has  *)
(* arrived.                                                                *)
LEMMA RecvSplits ==
  ASSUME NEW s \in Seq(Byte), s # <<>>,
         NEW n, n = IF Len(s) < BufSize THEN Len(s) ELSE BufSize
  PROVE  /\ SubSeq(s, 1, n) \in Seq(Byte)
         /\ SubSeq(s, n + 1, Len(s)) \in Seq(Byte)
         /\ Len(SubSeq(s, 1, n)) <= BufSize
  <1>1. n \in 1 .. Len(s) /\ n <= BufSize
    BY EmptySeq
  <1>2. SubSeq(s, 1, n) \in Seq(Byte) /\ Len(SubSeq(s, 1, n)) = n
    BY <1>1, SubSeqProperties
  <1>3. SubSeq(s, n + 1, Len(s)) \in Seq(Byte)
    BY <1>1, SubSeqProperties
  <1>. QED BY <1>1, <1>2, <1>3

(* The initial state satisfies the inductive invariant. *)
LEMMA InitIInv == Init => IInv
  <1> SUFFICES ASSUME Init PROVE IInv
    OBVIOUS
  <1>1. TypeOK
    <2>1. <<>> \in Seq(Byte)
      BY EmptySeq
    <2>2. socket \in Descriptors \cup {NoFd} /\ log_file \in Descriptors \cup {NoFd}
      BY DEF Init
    <2>3. rc \in Int /\ attempt \in Nat /\ sent \in Nat /\ open \subseteq Descriptors
      BY DEF Init
    <2>. QED BY <2>1, <2>2, <2>3 DEF Init, TypeOK, DataStates
  <1>2. NoLeak
    BY DEF Init, NoLeak
  <1>. QED
    BY <1>1, <1>2 DEF Init, IInv, StateAgrees, FreshStart, InPlaceParse

(* telnet_disconnect, and a lost connection, leave an unconnected struct.  *)
LEMMA CloseIInv ==
  ASSUME IInv, CloseConnection, pc' = "idle", rc' \in Int, UNCHANGED frame
  PROVE  IInv'
  <1>1. open' = {} /\ socket' = NoFd /\ log_file' = NoFd
    BY DEF IInv, NoLeak, CloseConnection
  <1>2. TypeOK'
    <2>1. <<>> \in Seq(Byte)
      BY EmptySeq
    <2>. QED BY <1>1, <2>1 DEF IInv, TypeOK, CloseConnection, ResetProtocol,
                               frame, DataStates
  <1>3. NoLeak'
    BY <1>1 DEF NoLeak
  <1>. QED
    BY <1>1, <1>2, <1>3 DEF IInv, StateAgrees, FreshStart, InPlaceParse, CloseConnection,
                          ResetProtocol

(* A connection established on a descriptor that the process holds, or on  *)
(* a new one, in a call that holds nothing else.                           *)
LEMMA EstablishedIInv ==
  ASSUME IInv, NEW fd \in Descriptors, open \subseteq {fd},
         pc \in {"attempt", "select"}, Established(fd),
         UNCHANGED <<data_state, server_echo, frame>>
  PROVE  IInv'
  <1>1. /\ open' = {fd, log_file'} \ {NoFd}
        /\ log_file' \in Descriptors \cup {NoFd}
    BY NoFdIsNone DEF Established, OpenLog
  <1>. QED
    BY <1>1, NoFdIsNone DEF IInv, TypeOK, StateAgrees, FreshStart, NoLeak,
         InPlaceParse, Established, Return, frame, NoFd

(* telnet_connect is called on a struct that is not connected.             *)
LEMMA ConnectCallIInv == ASSUME IInv, socket = NoFd, ConnectCall PROVE IInv'
  BY NoFdIsNone DEF IInv, ConnectCall, TypeOK, StateAgrees, FreshStart, NoLeak,
                    InPlaceParse, Return, network, NoFd

(* Every step of telnet_connect preserves the inductive invariant. *)
LEMMA ConnectIInv == ASSUME IInv, ConnectStep PROVE IInv'
  <1> USE NoFdIsNone DEF IInv
  <1>2. CASE AttemptNoSocket \/ AttemptRefused \/ ConnectGiveUp
    BY <1>2 DEF AttemptNoSocket, AttemptRefused, ConnectGiveUp, ConnectFails,
                TypeOK, StateAgrees, FreshStart, NoLeak, InPlaceParse, Return,
                frame, network, NoFd
  <1>3. CASE AttemptImmediate
    <2>1. PICK fd \in Descriptors \ open : Established(fd)
      BY <1>3 DEF AttemptImmediate
    <2>2. open = {}
      BY <1>3 DEF AttemptImmediate, StateAgrees, FreshStart, NoLeak
    <2>. QED
      BY <1>3, <2>1, <2>2, EstablishedIInv DEF AttemptImmediate
  <1>4. CASE AttemptPending
    <2>1. open = {} /\ log_file = NoFd
      BY <1>4 DEF AttemptPending, StateAgrees, FreshStart, NoLeak
    <2>. QED
      BY <1>4, <2>1 DEF AttemptPending, TypeOK, StateAgrees, FreshStart, NoLeak,
                        InPlaceParse, frame, network, NoFd
  <1>5. CASE SelectConnected
    <2>1. socket \in Descriptors /\ open = {socket}
      BY <1>5 DEF SelectConnected, TypeOK, StateAgrees, FreshStart, NoLeak
    <2>. QED
      BY <1>5, <2>1, EstablishedIInv DEF SelectConnected
  <1>6. CASE SelectRefused
    BY <1>6 DEF SelectRefused, CloseAttempt, ConnectFails, TypeOK, StateAgrees,
                FreshStart, NoLeak, InPlaceParse, Return, frame, network, NoFd
  <1>7. CASE SelectTimeout
    BY <1>7 DEF SelectTimeout, CloseAttempt, CountAttempt, TypeOK, StateAgrees, FreshStart,
                NoLeak, InPlaceParse, network, NoFd
  <1>. QED
    BY <1>2, <1>3, <1>4, <1>5, <1>6, <1>7 DEF ConnectStep

(* One byte of the parse loop: the text grows by no more than the buffer   *)
(* shrinks.                                                                *)
LEMMA ParseByteIInv == ASSUME IInv, ParseByte PROVE IInv'
  <1> DEFINE c == Head(buffer)
  <1>1. /\ pc = "parse" /\ pc' = "parse"
        /\ buffer \in Seq(Byte) /\ buffer # <<>>
        /\ text \in Seq(Byte)
        /\ c \in Byte
        /\ buffer' = Tail(buffer)
    BY HeadTailProperties DEF IInv, TypeOK, ParseByte
  <1>2. buffer' \in Seq(Byte) /\ Len(buffer') = Len(buffer) - 1
    BY <1>1, HeadTailProperties
  <1>3. /\ Append(text, c) \in Seq(Byte)
        /\ Len(Append(text, c)) = Len(text) + 1
    BY <1>1, AppendProperties
  <1>4. text' = text \/ text' = Append(text, c)
    BY <1>1 DEF ParseByte, NormalByte, AfterIAC, OptionByte, LiteralText
  <1>5. text' \in Seq(Byte) /\ Len(text') + Len(buffer') <= BufSize
    <2>1. Len(text) \in Nat /\ Len(buffer) \in Nat
      BY <1>1, LenProperties
    <2>2. Len(text) + Len(buffer) <= BufSize
      BY <1>1 DEF IInv, InPlaceParse
    <2>3. text' \in Seq(Byte) /\ Len(text') <= Len(text) + 1
      <3>1. CASE text' = text
        BY <1>1, <2>1, <3>1
      <3>2. CASE text' = Append(text, c)
        BY <1>3, <2>1, <3>2
      <3>3. QED
        BY <1>4, <3>1, <3>2
    <2>4. Len(text') \in Nat
      BY <2>3, LenProperties
    <2>. QED BY <1>2, <2>1, <2>2, <2>3, <2>4
  <1>6. data_state' \in DataStates /\ server_echo' \in BOOLEAN
    BY DEF IInv, TypeOK, ParseByte, NormalByte, AfterIAC, OptionByte, DataStates,
           StateAfterIAC, EchoAfter
  <1>7. UNCHANGED <<socket, state, log_file, pc, rc, attempt, open, peer, inbox, sent>>
    BY DEF ParseByte, network
  <1>8. TypeOK'
    BY <1>2, <1>5, <1>6, <1>7 DEF IInv, TypeOK
  <1>. QED
    BY <1>1, <1>5, <1>7, <1>8 DEF IInv, StateAgrees, FreshStart, NoLeak, InPlaceParse

(* Every step of telnet_receive preserves the inductive invariant. *)
LEMMA ReceiveIInv == ASSUME IInv, ReceiveCall \/ ReceiveStep PROVE IInv'
  <1>1. CASE ReceiveCall
    BY <1>1 DEF ReceiveCall, IInv, TypeOK, StateAgrees, FreshStart, NoLeak,
                InPlaceParse, struct, frame, network
  <1>2. CASE RecvData
    <2> DEFINE n == IF Len(inbox) < BufSize THEN Len(inbox) ELSE BufSize
    <2>1. /\ inbox \in Seq(Byte) /\ inbox # <<>>
          /\ buffer' = SubSeq(inbox, 1, n)
          /\ inbox' = SubSeq(inbox, n + 1, Len(inbox))
      BY <1>2 DEF RecvData, IInv, TypeOK
    <2> HIDE DEF n
    <2>2. /\ buffer' \in Seq(Byte)
          /\ inbox' \in Seq(Byte)
          /\ Len(buffer') <= BufSize
      BY <2>1, RecvSplits DEF n
    <2>3. text' = <<>> /\ Len(text') = 0 /\ text' \in Seq(Byte)
      BY <1>2, EmptySeq DEF RecvData
    <2>4. /\ pc = "recv" /\ pc' = "parse"
          /\ UNCHANGED <<socket, state, data_state, server_echo, log_file, rc,
                         attempt, open, peer, sent>>
      BY <1>2 DEF RecvData, struct
    <2>5. TypeOK'
      BY <2>2, <2>3, <2>4 DEF IInv, TypeOK
    <2>6. InPlaceParse'
      BY <2>2, <2>3, LenProperties DEF InPlaceParse
    <2>. QED
      BY <2>4, <2>5, <2>6 DEF IInv, StateAgrees, FreshStart, NoLeak
  <1>3. CASE RecvNothing
    BY <1>3 DEF RecvNothing, Return, IInv, TypeOK, StateAgrees, FreshStart, NoLeak,
                InPlaceParse, struct, frame, network
  <1>4. CASE RecvLost
    BY <1>4, CloseIInv DEF RecvLost, Return
  <1>5. CASE ParseByte
    BY <1>5, ParseByteIInv
  <1>6. CASE ParseDone
    <2>1. rc' \in Int /\ pc' \in {"idle", "recv"} /\ pc = "parse"
      BY <1>6, LenProperties DEF ParseDone, Return, IInv, TypeOK
    <2>. QED
      BY <1>6, <2>1 DEF ParseDone, IInv, TypeOK, StateAgrees, FreshStart, NoLeak,
                        InPlaceParse, struct, frame, network
  <1>. QED
    BY <1>1, <1>2, <1>3, <1>4, <1>5, <1>6 DEF ReceiveStep

(* The server's steps touch neither the struct nor the descriptors. *)
LEMMA PeerIInv == ASSUME IInv, Peer PROVE IInv'
  <1>1. CASE PeerSend
    <2>1. PICK p \in Packets : inbox' = inbox \o p /\ sent' = sent + Len(p)
      BY <1>1 DEF PeerSend
    <2>2. inbox' \in Seq(Byte) /\ sent' \in Nat
      BY <2>1, ConcatProperties, LenProperties DEF IInv, TypeOK
    <2>. QED
      BY <1>1, <2>2 DEF PeerSend, IInv, TypeOK, StateAgrees, FreshStart, NoLeak,
                        InPlaceParse, struct, frame
  <1>2. CASE PeerClose
    BY <1>2 DEF PeerClose, IInv, TypeOK, StateAgrees, FreshStart, NoLeak,
                InPlaceParse, struct, frame
  <1>. QED BY <1>1, <1>2 DEF Peer

(* Every step of the connection keeps the inductive invariant.             *)
LEMMA StepIInv == IInv /\ [Next]_vars => IInv'
  <1> SUFFICES ASSUME IInv, [Next]_vars PROVE IInv'
    OBVIOUS
  <1>1. CASE Disconnect
    BY <1>1, CloseIInv DEF Disconnect, IInv, TypeOK
  <1>2. CASE UNCHANGED vars
    BY <1>2 DEF vars, IInv, TypeOK, StateAgrees, FreshStart, NoLeak, InPlaceParse
  <1>. QED
    BY <1>1, <1>2, ConnectCallIInv, ConnectIInv, ReceiveIInv, PeerIInv DEF Next, Call

(* The inductive invariant holds of the connection. *)
THEOREM SpecIInv == Spec => []IInv
  BY InitIInv, StepIInv, PTL DEF Spec

(* Every variable of the connection keeps its type. *)
THEOREM SpecTypeOK == Spec => []TypeOK
  <1>1. IInv => TypeOK BY DEF IInv
  <1>. QED BY <1>1, SpecIInv, PTL

(* Whatever the server and the network do, no descriptor of a failed       *)
(* attempt, a refused or a lost connection, or of its log, is leaked.      *)
THEOREM SpecNoLeak == Spec => []NoLeak
  <1>1. IInv => NoLeak BY DEF IInv
  <1>. QED BY <1>1, SpecIInv, PTL

(* Whatever the last connection did, the next one starts with the parser,  *)
(* the password mode and the log of a fresh struct.                        *)
THEOREM SpecFreshStart == Spec => []FreshStart
  <1>1. IInv => FreshStart BY DEF IInv
  <1>. QED BY <1>1, SpecIInv, PTL

(* The state field never disagrees with the socket or the call in          *)
(* progress.                                                               *)
THEOREM SpecStateAgrees == Spec => []StateAgrees
  <1>1. IInv => StateAgrees BY DEF IInv
  <1>. QED BY <1>1, SpecIInv, PTL

(* The parse loop never writes past the byte it has just read.             *)
THEOREM SpecInPlaceParse == Spec => []InPlaceParse
  <1>1. IInv => InPlaceParse BY DEF IInv
  <1>. QED BY <1>1, SpecIInv, PTL

-----------------------------------------------------------------------------
(* How the parser's state follows from the bytes it reads, and which of    *)
(* them are text.                                                          *)
AfterByte(d, c) ==
  IF d = "NORMAL" THEN IF c = IAC THEN "IAC" ELSE "NORMAL"
  ELSE IF d = "IAC" THEN StateAfterIAC(c) ELSE "NORMAL"

IsText(d, c) == (d = "NORMAL" /\ c # IAC) \/ (d = "IAC" /\ c = IAC)

(* The states f of the parser before and after each byte of s.             *)
Reading(f, from, s) ==
  /\ f[0] = from
  /\ \A i \in 1 .. Len(s) : f[i] = AfterByte(f[i - 1], s[i])

(* A text byte leaves no option unfinished.                                *)
LEMMA AfterText ==
  ASSUME NEW d, NEW c, IsText(d, c)
  PROVE  AfterByte(d, c) = "NORMAL"
BY DEF IsText, AfterByte, StateAfterIAC, IAC, WILL, WONT, DO, DONT

(* The states that wait for the byte of an option.                         *)
VerbStates == {"WILL", "WONT", "DO", "DONT"}

(* What one byte does to the parser.                                       *)
LEMMA ByteFacts ==
  ASSUME NEW d, NEW c, d \in {"NORMAL", "IAC"} \cup VerbStates
  PROVE  /\ AfterByte(d, c) = "NORMAL" <=> \/ d = "NORMAL" /\ c # IAC
                                           \/ d = "IAC" /\ c \notin Verbs
                                           \/ d \in VerbStates
         /\ AfterByte(d, c) = "IAC" <=> d = "NORMAL" /\ c = IAC
         /\ AfterByte(d, c) \in VerbStates <=> d = "IAC" /\ c \in Verbs
         /\ AfterByte(d, c) = "WILL" <=> d = "IAC" /\ c = WILL
         /\ AfterByte(d, c) = "WONT" <=> d = "IAC" /\ c = WONT
         /\ AfterByte(d, c) \in {"NORMAL", "IAC"} \cup VerbStates
BY DEF AfterByte, StateAfterIAC, Verbs, VerbStates, IAC, WILL, WONT, DO, DONT

(* The parser's states on a whole stream, byte by byte.                    *)
LEMMA StatesAre ==
  ASSUME NEW s \in Seq(Byte), NEW f, Reading(f, "NORMAL", s)
  PROVE  /\ f[0] = "NORMAL"
         /\ \A i \in 0 .. Len(s) : f[i] \in {"NORMAL", "IAC"} \cup VerbStates
         /\ \A i \in 1 .. Len(s) :
              /\ f[i] = "NORMAL" <=> \/ f[i - 1] = "NORMAL" /\ s[i] # IAC
                                     \/ f[i - 1] = "IAC" /\ s[i] \notin Verbs
                                     \/ f[i - 1] \in VerbStates
              /\ f[i] = "IAC" <=> f[i - 1] = "NORMAL" /\ s[i] = IAC
              /\ f[i] \in VerbStates <=> f[i - 1] = "IAC" /\ s[i] \in Verbs
              /\ f[i] = "WILL" <=> f[i - 1] = "IAC" /\ s[i] = WILL
              /\ f[i] = "WONT" <=> f[i - 1] = "IAC" /\ s[i] = WONT
<1> DEFINE n == Len(s)
           States == {"NORMAL", "IAC"} \cup VerbStates
           T == {m \in Nat : m <= n => f[m] \in States}
<1>1. n \in Nat /\ f[0] = "NORMAL" /\ \A i \in 1 .. n : f[i] = AfterByte(f[i - 1], s[i])
  BY DEF Reading
<1> HIDE DEF n
<1>2. 0 \in T
  BY <1>1
<1>3. \A m \in Nat : m \in T => m + 1 \in T
  <2> SUFFICES ASSUME NEW m \in Nat, m + 1 <= n, f[m] \in States
               PROVE  f[m + 1] \in States
    BY <1>1
  <2>1. f[m + 1] = AfterByte(f[m], s[m + 1])
    BY <1>1
  <2>2. QED
    BY <2>1, ByteFacts
<1> HIDE DEF T
<1>4. Nat \subseteq T
  BY <1>2, <1>3, NatSet
<1>5. \A i \in 0 .. n : f[i] \in States
  BY <1>1, <1>4 DEF T
<1>6. \A i \in 1 .. n : f[i - 1] \in States /\ f[i] = AfterByte(f[i - 1], s[i])
  BY <1>1, <1>5
<1>7. QED
  BY <1>1, <1>5, <1>6, ByteFacts DEF n

(* A unit begins where the parser is in its normal state: at the first     *)
(* byte, and where another unit ends.                                      *)
LEMMA UnitsFollow ==
  ASSUME NEW s \in Seq(Byte), NEW f, Reading(f, "NORMAL", s), NEW j \in 1 .. Len(s)
  PROVE  f[j - 1] = "NORMAL" <=>
           j = 1 \/ \E k \in 1 .. j - 1 : f[k - 1] = "NORMAL" /\ k + UnitLength(s, k) = j
<1> DEFINE n == Len(s)
<1>1. /\ n \in Nat /\ f[0] = "NORMAL"
      /\ \A i \in 0 .. n : f[i] \in {"NORMAL", "IAC"} \cup VerbStates
      /\ \A i \in 1 .. n :
              /\ f[i] = "NORMAL" <=> \/ f[i - 1] = "NORMAL" /\ s[i] # IAC
                                     \/ f[i - 1] = "IAC" /\ s[i] \notin Verbs
                                     \/ f[i - 1] \in VerbStates
              /\ f[i] = "IAC" <=> f[i - 1] = "NORMAL" /\ s[i] = IAC
              /\ f[i] \in VerbStates <=> f[i - 1] = "IAC" /\ s[i] \in Verbs
  BY StatesAre
<1>2. \A k \in 1 .. n : UnitLength(s, k) = IF s[k] # IAC THEN 1
                                           ELSE IF k < n /\ s[k + 1] \in Verbs THEN 3 ELSE 2
  BY DEF UnitLength
<1>3. "NORMAL" \notin VerbStates /\ "IAC" \notin VerbStates /\ "NORMAL" # "IAC"
  BY DEF VerbStates
<1> HIDE DEF n
<1>4. ASSUME NEW k \in 1 .. j - 1, f[k - 1] = "NORMAL", k + UnitLength(s, k) = j
      PROVE  f[j - 1] = "NORMAL"
  <2>1. k \in 1 .. n /\ j \in 1 .. n /\ k \in Nat
    BY <1>1 DEF n
  <2>2. CASE s[k] # IAC
    <3>1. j - 1 = k
      BY <1>2, <1>4, <2>1, <2>2
    <3>2. QED
      BY <1>1, <1>4, <2>1, <2>2, <3>1
  <2>3. CASE s[k] = IAC /\ k < n /\ s[k + 1] \in Verbs
    <3>1. j = k + 3
      BY <1>2, <1>4, <2>1, <2>3
    <3>2. /\ k + 1 \in 1 .. n /\ k + 2 \in 1 .. n /\ j - 1 = k + 2
          /\ (k + 1) - 1 = k /\ (k + 2) - 1 = k + 1
      BY <1>1, <2>1, <3>1
    <3>3. f[k] = "IAC"
      BY <1>1, <1>4, <2>1, <2>3
    <3>4. f[k + 1] \in VerbStates
      BY <1>1, <2>3, <3>2, <3>3
    <3>5. QED
      BY <1>1, <3>2, <3>4
  <2>4. CASE s[k] = IAC /\ ~(k < n /\ s[k + 1] \in Verbs)
    <3>1. j = k + 2
      BY <1>2, <1>4, <2>1, <2>4
    <3>2. k + 1 \in 1 .. n /\ j - 1 = k + 1 /\ (k + 1) - 1 = k /\ s[k + 1] \notin Verbs
      BY <1>1, <2>1, <2>4, <3>1
    <3>3. f[k] = "IAC"
      BY <1>1, <1>4, <2>1, <2>4
    <3>4. QED
      BY <1>1, <3>2, <3>3
  <2>5. QED
    BY <2>2, <2>3, <2>4
<1>5. ASSUME f[j - 1] = "NORMAL", j # 1
      PROVE  \E k \in 1 .. j - 1 : f[k - 1] = "NORMAL" /\ k + UnitLength(s, k) = j
  <2> DEFINE i == j - 1
  <2>1. i \in 1 .. n /\ j = i + 1 /\ i \in 1 .. j - 1 /\ i \in Nat
    BY <1>1, <1>5 DEF n
  <2> HIDE DEF i
  <2>2. f[i] = "NORMAL"
    BY <1>5 DEF i
  <2>3. CASE f[i - 1] = "NORMAL" /\ s[i] # IAC
    BY <1>2, <2>1, <2>3
  <2>4. CASE f[i - 1] = "IAC" /\ s[i] \notin Verbs
    <3>1. i # 1
      BY <1>1, <1>3, <2>4
    <3>2. i - 1 \in 1 .. n /\ i - 1 \in 1 .. j - 1 /\ i - 1 < n /\ (i - 1) + 1 = i /\ (i - 1) + 2 = j
      BY <1>1, <2>1, <3>1
    <3>3. f[(i - 1) - 1] = "NORMAL" /\ s[i - 1] = IAC
      BY <1>1, <2>4, <3>2
    <3>4. UnitLength(s, i - 1) = 2
      BY <1>2, <2>4, <3>2, <3>3
    <3>5. QED
      BY <3>2, <3>3, <3>4
  <2>5. CASE f[i - 1] \in VerbStates
    <3>1. i # 1
      BY <1>1, <1>3, <2>5
    <3>2. i - 1 \in 1 .. n
      BY <1>1, <2>1, <3>1
    <3>3. f[(i - 1) - 1] = "IAC" /\ s[i - 1] \in Verbs
      BY <1>1, <2>5, <3>2
    <3>4. i # 2
      <4>1. i = 2 => (i - 1) - 1 = 0
        OBVIOUS
      <4>2. QED
        BY <1>1, <1>3, <3>3, <4>1
    <3>5. /\ i - 2 \in 1 .. n /\ i - 2 \in 1 .. j - 1 /\ i - 2 < n
          /\ (i - 2) + 1 = i - 1 /\ (i - 2) + 3 = j /\ (i - 1) - 1 = i - 2
      BY <1>1, <2>1, <3>2, <3>4
    <3>6. f[(i - 2) - 1] = "NORMAL" /\ s[i - 2] = IAC
      BY <1>1, <3>3, <3>5
    <3>7. UnitLength(s, i - 2) = 3
      BY <1>2, <3>3, <3>5, <3>6
    <3>8. QED
      BY <3>5, <3>6, <3>7
  <2>6. QED
    BY <1>1, <2>1, <2>2, <2>3, <2>4, <2>5
<1>6. j = 1 => f[j - 1] = "NORMAL"
  BY <1>1
<1>7. QED
  BY <1>4, <1>5, <1>6

(* UnitStarts is the last value of its recursive function.                 *)
LEMMA StartsFollow ==
  ASSUME NEW s \in Seq(Byte)
  PROVE  \E f \in [0 .. Len(s) -> SUBSET Nat] :
           /\ f[0] = {1}
           /\ \A i \in 1 .. Len(s) :
                f[i] = IF i \in f[i - 1] THEN f[i - 1] \cup {i + UnitLength(s, i)} ELSE f[i - 1]
           /\ UnitStarts(s) = f[Len(s)] \cap 1 .. Len(s)
<1> DEFINE n == Len(s)
           D == SUBSET Nat
           Step(i, S) == IF i \in S THEN S \cup {i + UnitLength(s, i)} ELSE S
           G == [i \in 1 .. n |-> [S \in D |-> Step(i, S)]]
           Good(f) == f = [i \in 0 .. n |-> IF i = 0 THEN {1}
                             ELSE IF i \in f[i - 1] THEN f[i - 1] \cup {i + UnitLength(s, i)}
                             ELSE f[i - 1]]
<1>1. n \in Nat /\ \A i \in 1 .. n : i + UnitLength(s, i) \in Nat
  BY DEF UnitLength
<1>2. \A i \in 1 .. n, S \in D : Step(i, S) \in D
  BY <1>1
<1> HIDE DEF n
<1>3. \E f \in [0 .. n -> D] : Good(f)
  <2>1. {1} \in D
    OBVIOUS
  <2>2. G \in [1 .. n -> [D -> D]] /\ \A i \in 1 .. n, S \in D : G[i][S] = Step(i, S)
    <3> HIDE DEF D, Step
    <3>1. QED
      BY <1>2
  <2> HIDE DEF D, G
  <2>3. Steps(G, n, D)
    BY <1>1, <2>2 DEF Steps
  <2>4. PICK f : Follows(f, {1}, G, n, D)
    BY <2>1, <2>3, Recursion
  <2>5. f \in [0 .. n -> D] /\ f[0] = {1} /\ \A i \in 1 .. n : f[i] = G[i][f[i - 1]]
    BY <2>4 DEF Follows
  <2>6. \A i \in 1 .. n : f[i] = Step(i, f[i - 1])
    <3>1. \A i \in 1 .. n : f[i - 1] \in D
      BY <1>1, <2>5
    <3> HIDE DEF Step
    <3>2. QED
      BY <2>2, <2>5, <3>1
  <2>7. \A i \in 0 .. n : f[i] = IF i = 0 THEN {1} ELSE Step(i, f[i - 1])
    <3> HIDE DEF Step
    <3>1. QED
      BY <1>1, <2>5, <2>6
  <2>8. f = [i \in 0 .. n |-> IF i = 0 THEN {1} ELSE Step(i, f[i - 1])]
    <3> HIDE DEF Step
    <3>1. QED
      BY <2>5, <2>7
  <2>9. Good(f)
    BY Zenon, <2>8
  <2> HIDE DEF Good
  <2>10. QED
    BY <2>5, <2>9
<1> DEFINE starts == CHOOSE f : Good(f)
<1>4. Good(starts)
  <2> HIDE DEF Good
  <2>1. QED
    BY <1>3
<1>5. UnitStarts(s) = starts[n] \cap 1 .. n
  BY Zenon DEF UnitStarts, n
<1> HIDE DEF starts
<1>6. starts[0] = {1}
  BY <1>1, <1>4
<1>7. \A i \in 1 .. n : starts[i] = Step(i, starts[i - 1])
  <2> SUFFICES ASSUME NEW i \in 1 .. n
               PROVE  starts[i] = Step(i, starts[i - 1])
    OBVIOUS
  <2>1. i # 0 /\ i \in 0 .. n
    BY <1>1
  <2>2. QED
    BY Zenon, <1>4, <2>1
<1>8. starts \in [0 .. n -> D]
  <2>1. starts = [i \in 0 .. n |-> starts[i]]
    BY <1>4
  <2>2. \A i \in 0 .. n : starts[i] \in D
    <3> DEFINE T == {m \in Nat : m <= n => starts[m] \in D}
    <3>1. 0 \in T
      BY <1>6
    <3>2. \A m \in Nat : m \in T => m + 1 \in T
      <4> SUFFICES ASSUME NEW m \in Nat, m + 1 <= n, starts[m] \in D
                   PROVE  starts[m + 1] \in D
        BY <1>1
      <4> HIDE DEF D, Step
      <4>1. m + 1 \in 1 .. n /\ (m + 1) - 1 = m
        BY <1>1
      <4>2. QED
        BY <1>2, <1>7, <4>1
    <3> HIDE DEF T
    <3>3. Nat \subseteq T
      BY <3>1, <3>2, NatSet
    <3>4. QED
      BY <1>1, <3>3 DEF T
  <2>3. QED
    BY <2>1, <2>2
<1>9. QED
  BY <1>5, <1>6, <1>7, <1>8 DEF n

(* The texts f of the first bytes of s, of which TextOf is the last.       *)
TextUpto(s, S, f) ==
  /\ f \in [0 .. Len(s) -> Seq(Byte)]
  /\ f[0] = <<>>
  /\ \A i \in 1 .. Len(s) :
       f[i] = IF i \in S THEN f[i - 1] \o UnitText(s, i) ELSE f[i - 1]
  /\ TextOf(s, S) = f[Len(s)]

(* TextOf is the last value of its recursive function.                    *)
LEMMA TextFollows ==
  ASSUME NEW s \in Seq(Byte), NEW S
  PROVE  \E f : TextUpto(s, S, f)
<1> DEFINE n == Len(s)
           D == Seq(Byte)
           unit(i) == UnitText(s, i)
           Step(i, t) == IF i \in S THEN t \o unit(i) ELSE t
           G == [i \in 1 .. n |-> [t \in D |-> Step(i, t)]]
           Good(f) == f = [i \in 0 .. n |-> IF i = 0 THEN <<>>
                             ELSE IF i \in S THEN f[i - 1] \o UnitText(s, i)
                             ELSE f[i - 1]]
<1>1. n \in Nat /\ \A i \in 1 .. n : unit(i) \in D
  <2> SUFFICES ASSUME NEW i \in 1 .. n
               PROVE  unit(i) \in D
    OBVIOUS
  <2>1. s[i] \in Byte
    OBVIOUS
  <2>2. IAC \in Byte
    BY DEF IAC, Byte
  <2>3. <<s[i]>> \in D /\ <<IAC>> \in D /\ <<>> \in D
    BY <2>1, <2>2
  <2>4. QED
    BY <2>3 DEF UnitText
<1> HIDE DEF n, unit
<1>2. \A i \in 1 .. n, t \in D : Step(i, t) \in D
  BY <1>1
<1>3. \E f \in [0 .. n -> D] : Good(f)
  <2>1. <<>> \in D
    OBVIOUS
  <2>2. G \in [1 .. n -> [D -> D]] /\ \A i \in 1 .. n, t \in D : G[i][t] = Step(i, t)
    <3> HIDE DEF D, Step
    <3>1. QED
      BY <1>2
  <2> DEFINE e == <<>>
  <2> HIDE DEF D, G, e
  <2>3. Steps(G, n, D) /\ e \in D
    BY <1>1, <2>1, <2>2 DEF Steps, e
  <2>4. PICK f : Follows(f, e, G, n, D)
    BY <2>3, Recursion
  <2>5. f \in [0 .. n -> D] /\ f[0] = e /\ \A i \in 1 .. n : f[i] = G[i][f[i - 1]]
    BY <2>4 DEF Follows
  <2>6. \A i \in 1 .. n : f[i] = Step(i, f[i - 1])
    <3>1. \A i \in 1 .. n : f[i - 1] \in D
      BY <1>1, <2>5
    <3> HIDE DEF Step
    <3>2. QED
      BY <2>2, <2>5, <3>1
  <2>7. \A i \in 0 .. n : f[i] = IF i = 0 THEN e ELSE Step(i, f[i - 1])
    <3> HIDE DEF Step
    <3>1. QED
      BY <1>1, <2>5, <2>6
  <2>8. f = [i \in 0 .. n |-> IF i = 0 THEN e ELSE Step(i, f[i - 1])]
    <3> HIDE DEF Step
    <3>1. QED
      BY <2>5, <2>7
  <2>9. Good(f)
    BY Zenon, <2>8 DEF e, unit
  <2> HIDE DEF Good
  <2>10. QED
    BY <2>5, <2>9
<1> DEFINE upto == CHOOSE f : Good(f)
<1>4. Good(upto)
  <2> HIDE DEF Good
  <2>1. QED
    BY <1>3
<1>5. TextOf(s, S) = upto[n]
  BY Zenon DEF TextOf, n
<1> HIDE DEF upto
<1>6. upto[0] = <<>>
  BY <1>1, <1>4
<1>7. \A i \in 1 .. n : upto[i] = Step(i, upto[i - 1])
  <2> SUFFICES ASSUME NEW i \in 1 .. n
               PROVE  upto[i] = Step(i, upto[i - 1])
    OBVIOUS
  <2>1. i # 0 /\ i \in 0 .. n
    BY <1>1
  <2>2. QED
    BY Zenon, <1>4, <2>1 DEF unit
<1>8. upto \in [0 .. n -> D]
  <2>1. upto = [i \in 0 .. n |-> upto[i]]
    BY <1>4
  <2>2. \A i \in 0 .. n : upto[i] \in D
    <3> DEFINE T == {m \in Nat : m <= n => upto[m] \in D}
    <3>1. 0 \in T
      <4>1. <<>> \in D
        OBVIOUS
      <4>2. QED
        BY <1>6, <4>1
    <3>2. \A m \in Nat : m \in T => m + 1 \in T
      <4> SUFFICES ASSUME NEW m \in Nat, m + 1 <= n, upto[m] \in D
                   PROVE  upto[m + 1] \in D
        BY <1>1
      <4> HIDE DEF D, Step
      <4>1. m + 1 \in 1 .. n /\ (m + 1) - 1 = m
        BY <1>1
      <4>2. QED
        BY <1>2, <1>7, <4>1
    <3> HIDE DEF T
    <3>3. Nat \subseteq T
      BY <3>1, <3>2, NatSet
    <3>4. QED
      BY <1>1, <3>3 DEF T
  <2>3. QED
    BY <2>1, <2>2
<1>9. TextUpto(s, S, upto)
  BY <1>5, <1>6, <1>7, <1>8 DEF n, unit, TextUpto
<1>10. QED
  BY <1>9

(* Units start where the parser is in its normal state.                    *)
LEMMA StartsAre ==
  ASSUME NEW s \in Seq(Byte), NEW f, Reading(f, "NORMAL", s)
  PROVE  UnitStarts(s) = {i \in 1 .. Len(s) : f[i - 1] = "NORMAL"}
<1> DEFINE n == Len(s)
           N == {i \in 1 .. n : f[i - 1] = "NORMAL"}
           L(k) == UnitLength(s, k)
<1>1. n \in Nat /\ \A k \in 1 .. n : L(k) \in 1 .. 3
  BY DEF UnitLength
<1>2. \A j \in 1 .. n : j \in N <=> j = 1 \/ \E k \in N : k < j /\ k + L(k) = j
  <2> SUFFICES ASSUME NEW j \in 1 .. n
               PROVE  j \in N <=> j = 1 \/ \E k \in N : k < j /\ k + L(k) = j
    OBVIOUS
  <2>1. f[j - 1] = "NORMAL" <=>
           j = 1 \/ \E k \in 1 .. j - 1 : f[k - 1] = "NORMAL" /\ k + L(k) = j
    BY UnitsFollow
  <2> HIDE DEF n, L
  <2>2. \A k : k \in 1 .. j - 1 <=> k \in 1 .. n /\ k < j
    BY <1>1
  <2>3. QED
    BY <2>1, <2>2
<1>3. PICK g \in [0 .. n -> SUBSET Nat] :
        /\ g[0] = {1}
        /\ \A i \in 1 .. n : g[i] = IF i \in g[i - 1] THEN g[i - 1] \cup {i + L(i)} ELSE g[i - 1]
        /\ UnitStarts(s) = g[n] \cap 1 .. n
  BY StartsFollow
<1> HIDE DEF n, L, N
<1> DEFINE Upto(m) == {1} \cup {k + L(k) : k \in {k \in N : k <= m}}
           T == {m \in Nat : m <= n => g[m] = Upto(m)}
<1>4. N \subseteq 1 .. n
  BY DEF N
<1>5. 0 \in T
  <2>1. \A k \in N : k >= 1
    BY <1>1, <1>4
  <2> HIDE DEF T, Upto
  <2>2. \A k \in N : ~(k <= 0)
    BY <1>1, <1>4, <2>1
  <2>3. {k \in N : k <= 0} = {}
    BY <2>2
  <2>4. Upto(0) = {1}
    BY <2>3 DEF Upto
  <2>5. QED
    BY <1>3, <2>4 DEF T
<1>6. ASSUME NEW m \in Nat, m + 1 <= n, g[m] = Upto(m)
      PROVE  g[m + 1] = Upto(m + 1)
  <2> DEFINE j == m + 1
  <2>1. j \in 1 .. n /\ j - 1 = m
    BY <1>1, <1>6
  <2>2. \A k \in N : k < j <=> k <= m
    BY <1>1, <1>4, <1>6
  <2>3. j \in Upto(m) <=> j \in N
    <3>1. j \in N <=> j = 1 \/ \E k \in N : k < j /\ k + L(k) = j
      BY <1>2, <2>1
    <3> HIDE DEF j
    <3>2. QED
      BY <2>2, <3>1
  <2>4. g[j] = IF j \in Upto(m) THEN Upto(m) \cup {j + L(j)} ELSE Upto(m)
    BY <1>3, <1>6, <2>1
  <2>5. \A k \in N : k <= j <=> k <= m \/ k = j
    BY <1>1, <1>4, <1>6
  <2> HIDE DEF j
  <2>6. CASE j \in N
    <3>1. {k \in N : k <= j} = {k \in N : k <= m} \cup {j}
      BY <2>5, <2>6
    <3>2. Upto(j) = Upto(m) \cup {j + L(j)}
      BY <3>1
    <3>3. QED
      BY <2>3, <2>4, <2>6, <3>2 DEF j
  <2>7. CASE j \notin N
    <3>1. {k \in N : k <= j} = {k \in N : k <= m}
      BY <2>5, <2>7
    <3>2. Upto(j) = Upto(m)
      BY <3>1
    <3>3. QED
      BY <2>3, <2>4, <2>7, <3>2 DEF j
  <2>8. QED
    BY <2>6, <2>7
<1> HIDE DEF Upto
<1>7. \A m \in Nat : m \in T => m + 1 \in T
  BY <1>1, <1>6
<1> HIDE DEF T
<1>8. g[n] = Upto(n)
  <2>1. n \in T
    BY <1>1, <1>5, <1>7, NatSet
  <2>2. QED
    BY <1>1, <2>1 DEF T
<1>9. \A j \in 1 .. n : j \in Upto(n) <=> j \in N
  <2> SUFFICES ASSUME NEW j \in 1 .. n
               PROVE  j \in Upto(n) <=> j \in N
    OBVIOUS
  <2>1. \A k \in N : k <= n /\ k \in Nat /\ L(k) \in 1 .. 3
    BY <1>1, <1>4
  <2>2. \A k \in N : k + L(k) = j => k < j
    BY <2>1
  <2>3. j \in Upto(n) <=> j = 1 \/ \E k \in N : k + L(k) = j
    BY <2>1 DEF Upto
  <2>4. QED
    BY <1>2, <2>2, <2>3
<1>10. QED
  BY <1>3, <1>4, <1>8, <1>9 DEF n, N

(* What a prefix of a stream looks like from the stream one byte longer.   *)
LEMMA OneMoreByte ==
  ASSUME NEW s \in Seq(Byte), NEW c \in Byte, NEW f, Reading(f, "NORMAL", Append(s, c))
  PROVE  /\ Append(s, c) \in Seq(Byte)
         /\ Len(Append(s, c)) = Len(s) + 1 /\ Len(s) \in Nat
         /\ \A i \in 1 .. Len(s) : Append(s, c)[i] = s[i]
         /\ Append(s, c)[Len(s) + 1] = c
         /\ Reading(f, "NORMAL", s)
         /\ f[Len(s) + 1] = AfterByte(f[Len(s)], c)
<1> DEFINE n == Len(s)
           t == Append(s, c)
<1>1. /\ t \in Seq(Byte) /\ Len(t) = n + 1 /\ n \in Nat
      /\ \A i \in 1 .. n : t[i] = s[i]
      /\ t[n + 1] = c
  OBVIOUS
<1>2. f[0] = "NORMAL" /\ \A i \in 1 .. Len(t) : f[i] = AfterByte(f[i - 1], t[i])
  BY DEF Reading
<1> HIDE DEF n, t
<1>3. n + 1 \in 1 .. Len(t) /\ (n + 1) - 1 = n /\ \A i \in 1 .. n : i \in 1 .. Len(t)
  BY <1>1
<1>4. f[n + 1] = AfterByte(f[n], c)
  BY <1>1, <1>2, <1>3
<1>5. \A i \in 1 .. n : f[i] = AfterByte(f[i - 1], s[i])
  BY <1>1, <1>2, <1>3
<1>6. QED
  BY <1>1, <1>2, <1>4, <1>5 DEF n, t, Reading

(* One more byte adds itself to the text of a stream when it is text, and  *)
(* nothing otherwise.                                                      *)
LEMMA TextAppend ==
  ASSUME NEW s \in Seq(Byte), NEW c \in Byte, NEW f, Reading(f, "NORMAL", Append(s, c))
  PROVE  TextOf(Append(s, c), UnitStarts(Append(s, c))) =
           IF IsText(f[Len(s)], c) THEN Append(TextOf(s, UnitStarts(s)), c)
           ELSE TextOf(s, UnitStarts(s))
<1> DEFINE n == Len(s)
           t == Append(s, c)
           U == UnitStarts(s)
           V == UnitStarts(t)
           us(i) == UnitText(s, i)
           ut(i) == UnitText(t, i)
<1>1. /\ t \in Seq(Byte) /\ Len(t) = n + 1 /\ n \in Nat
      /\ \A i \in 1 .. n : t[i] = s[i]
      /\ t[n + 1] = c
      /\ Reading(f, "NORMAL", s)
  BY OneMoreByte
<1>2. U = {i \in 1 .. n : f[i - 1] = "NORMAL"}
  BY <1>1, StartsAre
<1>3. V = {i \in 1 .. n + 1 : f[i - 1] = "NORMAL"}
  <2> HIDE DEF t
  <2>1. V = {i \in 1 .. Len(t) : f[i - 1] = "NORMAL"}
    BY <1>1, StartsAre DEF t
  <2>2. QED
    BY <1>1, <2>1
<1>4. PICK u \in [0 .. n + 1 -> Seq(Byte)] :
        /\ u[0] = <<>>
        /\ \A i \in 1 .. n + 1 : u[i] = IF i \in V THEN u[i - 1] \o ut(i) ELSE u[i - 1]
        /\ TextOf(t, V) = u[n + 1]
  <2> HIDE DEF t, V, n
  <2>1. PICK u : TextUpto(t, V, u)
    BY <1>1, TextFollows
  <2>2. QED
    BY <1>1, <2>1 DEF TextUpto
<1>5. PICK v \in [0 .. n -> Seq(Byte)] :
        /\ v[0] = <<>>
        /\ \A i \in 1 .. n : v[i] = IF i \in U THEN v[i - 1] \o us(i) ELSE v[i - 1]
        /\ TextOf(s, U) = v[n]
  <2>1. PICK v : TextUpto(s, U, v)
    BY TextFollows
  <2>2. QED
    BY <2>1 DEF TextUpto
<1>6. \A i \in 1 .. n : i < n => ut(i) = us(i)
  <2> SUFFICES ASSUME NEW i \in 1 .. n, i < n
               PROVE  ut(i) = us(i)
    OBVIOUS
  <2> HIDE DEF n, t
  <2>1. i + 1 \in 1 .. n /\ i < Len(t) /\ i < Len(s) /\ t[i] = s[i] /\ t[i + 1] = s[i + 1]
    BY <1>1 DEF n
  <2>2. QED
    BY <2>1 DEF UnitText
<1>7. n # 0 => /\ us(n) = IF s[n] # IAC THEN <<s[n]>> ELSE <<>>
               /\ ut(n) = IF s[n] # IAC THEN <<s[n]>>
                          ELSE IF c = IAC THEN <<IAC>> ELSE <<>>
  <2> HIDE DEF t
  <2>1. n # 0 => n \in 1 .. n /\ t[n] = s[n] /\ n < Len(t) /\ ~(n < Len(s)) /\ t[n + 1] = c
    BY <1>1
  <2>2. QED
    BY <2>1 DEF UnitText
<1>8. ut(n + 1) = IF c # IAC THEN <<c>> ELSE <<>>
  <2> HIDE DEF t, n
  <2>1. t[n + 1] = c /\ ~(n + 1 < Len(t))
    BY <1>1
  <2>2. QED
    BY <2>1 DEF UnitText
<1>9. \A x \in Seq(Byte) : x \o <<>> = x /\ x \o <<c>> = Append(x, c)
  OBVIOUS
<1>10. /\ f[0] = "NORMAL"
       /\ \A i \in 1 .. n : f[i] = "IAC" <=> f[i - 1] = "NORMAL" /\ s[i] = IAC
       /\ \A i \in 0 .. n : f[i] \in {"NORMAL", "IAC"} \cup VerbStates
  BY <1>1, StatesAre
<1> HIDE DEF n, t, U, V, us, ut
<1>11. \A i \in 1 .. n : i \in V <=> i \in U
  BY <1>1, <1>2, <1>3
<1>12. \A i \in 0 .. n : i < n \/ i = 0 => u[i] = v[i]
  <2> DEFINE T == {m \in Nat : m < n \/ m = 0 => u[m] = v[m]}
  <2>1. 0 \in T
    BY <1>4, <1>5
  <2>2. \A m \in Nat : m \in T => m + 1 \in T
    <3> SUFFICES ASSUME NEW m \in Nat, m \in T
                 PROVE  m + 1 \in T
      OBVIOUS
    <3> SUFFICES ASSUME m + 1 < n
                 PROVE  u[m + 1] = v[m + 1]
      BY <1>1
    <3>0. u[m] = v[m]
      BY <1>1
    <3>1. m + 1 \in 1 .. n /\ m + 1 \in 1 .. n + 1 /\ (m + 1) - 1 = m
      BY <1>1
    <3>2. u[m + 1] = IF m + 1 \in V THEN u[m] \o ut(m + 1) ELSE u[m]
      BY <1>4, <3>1
    <3>3. v[m + 1] = IF m + 1 \in U THEN v[m] \o us(m + 1) ELSE v[m]
      BY <1>5, <3>1
    <3>4. QED
      BY <1>6, <1>11, <3>0, <3>1, <3>2, <3>3
  <2> HIDE DEF T
  <2>3. Nat \subseteq T
    BY <2>1, <2>2, NatSet
  <2>4. QED
    BY <1>1, <2>3 DEF T
<1>13. n # 0 => /\ n \in 1 .. n /\ n \in 1 .. n + 1 /\ n - 1 \in 0 .. n
                /\ u[n - 1] = v[n - 1] /\ v[n - 1] \in Seq(Byte)
  <2> SUFFICES ASSUME n # 0
               PROVE  /\ n \in 1 .. n /\ n \in 1 .. n + 1 /\ n - 1 \in 0 .. n
                      /\ u[n - 1] = v[n - 1] /\ v[n - 1] \in Seq(Byte)
    OBVIOUS
  <2>1. n \in 1 .. n /\ n \in 1 .. n + 1 /\ n - 1 \in 0 .. n /\ n - 1 < n
    BY <1>1
  <2>2. QED
    BY <1>5, <1>12, <2>1
<1>14. n # 0 => /\ v[n] = IF n \in U THEN v[n - 1] \o us(n) ELSE v[n - 1]
                /\ u[n] = IF n \in U THEN v[n - 1] \o ut(n) ELSE v[n - 1]
  BY <1>4, <1>5, <1>11, <1>13
<1>15. n # 0 => (n \in U <=> f[n - 1] = "NORMAL")
  BY <1>2, <1>13
<1>16. f[n] # "IAC" => u[n] = v[n]
  <2>1. CASE n = 0
    BY <1>4, <1>5, <2>1
  <2>2. CASE n # 0
    BY <1>7, <1>10, <1>13, <1>14, <1>15, <2>2
  <2>3. QED
    BY <2>1, <2>2
<1>17. f[n] = "IAC" => u[n] = IF c = IAC THEN Append(v[n], c) ELSE v[n]
  <2>1. CASE n = 0
    BY <1>10, <2>1
  <2>2. ASSUME n # 0, f[n] = "IAC"
        PROVE  u[n] = IF c = IAC THEN Append(v[n], c) ELSE v[n]
    <3>1. n \in U /\ s[n] = IAC
      BY <1>10, <1>13, <1>15, <2>2
    <3>2. us(n) = <<>> /\ ut(n) = IF c = IAC THEN <<c>> ELSE <<>>
      BY <1>7, <2>2, <3>1
    <3>3. v[n] = v[n - 1]
      BY <1>9, <1>13, <1>14, <2>2, <3>1, <3>2
    <3>4. u[n] = v[n - 1] \o ut(n)
      BY <1>14, <2>2, <3>1
    <3>5. QED
      BY <1>9, <1>13, <2>2, <3>2, <3>3, <3>4
  <2>3. QED
    BY <2>1, <2>2
<1>18. u[n + 1] = IF f[n] = "NORMAL" THEN u[n] \o ut(n + 1) ELSE u[n]
  <2>1. n + 1 \in 1 .. n + 1 /\ (n + 1) - 1 = n
    BY <1>1
  <2>2. n + 1 \in V <=> f[n] = "NORMAL"
    BY <1>3, <2>1
  <2>3. QED
    BY <1>4, <2>1, <2>2
<1>19. v[n] \in Seq(Byte)
  BY <1>1, <1>5
<1>20. u[n + 1] = IF IsText(f[n], c) THEN Append(v[n], c) ELSE v[n]
  <2>1. CASE f[n] = "NORMAL"
    BY <1>8, <1>9, <1>16, <1>18, <1>19, <2>1 DEF IsText
  <2>2. CASE f[n] = "IAC"
    BY <1>17, <1>18, <2>2 DEF IsText
  <2>3. CASE f[n] # "NORMAL" /\ f[n] # "IAC"
    BY <1>16, <1>18, <2>3 DEF IsText
  <2>4. QED
    BY <2>1, <2>2, <2>3
<1>21. QED
  BY <1>4, <1>5, <1>20 DEF n, t, U, V

(* What the last option of a stream about ECHO says.                       *)
SaysEcho(s) ==
  \E i \in EchoOptions(s) : s[i + 1] = WILL /\ \A j \in EchoOptions(s) : j <= i

(* One more byte changes it only when it ends an option about ECHO.        *)
LEMMA EchoAppend ==
  ASSUME NEW s \in Seq(Byte), NEW c \in Byte, NEW f, Reading(f, "NORMAL", Append(s, c))
  PROVE  SaysEcho(Append(s, c)) <=>
           IF c = OPT_ECHO /\ f[Len(s)] \in {"WILL", "WONT"} THEN f[Len(s)] = "WILL"
           ELSE SaysEcho(s)
<1> DEFINE n == Len(s)
           t == Append(s, c)
           E == EchoOptions(s)
           H == EchoOptions(t)
           ends == c = OPT_ECHO /\ f[n] \in {"WILL", "WONT"}
<1>1. /\ t \in Seq(Byte) /\ Len(t) = n + 1 /\ n \in Nat
      /\ \A i \in 1 .. n : t[i] = s[i]
      /\ t[n + 1] = c
      /\ Reading(f, "NORMAL", s)
  BY OneMoreByte
<1>2. UnitStarts(s) = {i \in 1 .. n : f[i - 1] = "NORMAL"}
  BY <1>1, StartsAre
<1>3. UnitStarts(t) = {i \in 1 .. n + 1 : f[i - 1] = "NORMAL"}
  <2> HIDE DEF t
  <2>1. UnitStarts(t) = {i \in 1 .. Len(t) : f[i - 1] = "NORMAL"}
    BY <1>1, StartsAre DEF t
  <2>2. QED
    BY <1>1, <2>1
<1>4. /\ f[0] = "NORMAL"
      /\ \A i \in 1 .. n :
              /\ f[i] = "IAC" <=> f[i - 1] = "NORMAL" /\ s[i] = IAC
              /\ f[i] = "WILL" <=> f[i - 1] = "IAC" /\ s[i] = WILL
              /\ f[i] = "WONT" <=> f[i - 1] = "IAC" /\ s[i] = WONT
  BY <1>1, StatesAre
<1>5. \A i : i \in E <=> /\ i \in 1 .. n /\ f[i - 1] = "NORMAL" /\ i + 2 <= n
                         /\ s[i] = IAC /\ s[i + 1] \in {WILL, WONT} /\ s[i + 2] = OPT_ECHO
  BY <1>2 DEF EchoOptions
<1>6. \A i : i \in H <=> /\ i \in 1 .. n + 1 /\ f[i - 1] = "NORMAL" /\ i + 2 <= n + 1
                         /\ t[i] = IAC /\ t[i + 1] \in {WILL, WONT} /\ t[i + 2] = OPT_ECHO
  <2> HIDE DEF t
  <2>1. QED
    BY <1>1, <1>3 DEF EchoOptions
<1> HIDE DEF n, t, E, H
<1>7. \A i : i \in E => i \in H /\ i + 2 <= n /\ i \in 1 .. n /\ t[i + 1] = s[i + 1]
  <2> SUFFICES ASSUME NEW i, i \in E
               PROVE  i \in H /\ i + 2 <= n /\ i \in 1 .. n /\ t[i + 1] = s[i + 1]
    OBVIOUS
  <2>1. i \in 1 .. n /\ i + 1 \in 1 .. n /\ i + 2 \in 1 .. n /\ i \in 1 .. n + 1
        /\ i + 2 <= n /\ i + 2 <= n + 1
    BY <1>1, <1>5
  <2>2. t[i] = s[i] /\ t[i + 1] = s[i + 1] /\ t[i + 2] = s[i + 2]
    BY <1>1, <2>1
  <2>3. QED
    BY <1>5, <1>6, <2>1, <2>2
<1>8. \A i : i \in H => i \in E \/ i = n - 1
  <2> SUFFICES ASSUME NEW i, i \in H, i # n - 1
               PROVE  i \in E
    OBVIOUS
  <2>1. i \in 1 .. n /\ i + 1 \in 1 .. n /\ i + 2 \in 1 .. n /\ i + 2 <= n
    BY <1>1, <1>6
  <2>2. t[i] = s[i] /\ t[i + 1] = s[i + 1] /\ t[i + 2] = s[i + 2]
    BY <1>1, <2>1
  <2>3. QED
    BY <1>5, <1>6, <2>1, <2>2
<1>9. n - 1 \in H <=> ends
  <2>1. ASSUME ends
        PROVE  n - 1 \in H
    <3>1. n # 0
      BY <1>4, <2>1
    <3>2. n \in 1 .. n
      BY <1>1, <3>1
    <3>3. f[n - 1] = "IAC" /\ s[n] \in {WILL, WONT}
      BY <1>4, <2>1, <3>2
    <3>4. n # 1
      BY <1>4, <3>3
    <3>5. /\ n - 1 \in 1 .. n /\ n - 1 \in 1 .. n + 1 /\ (n - 1) + 1 = n
          /\ (n - 1) + 2 = n + 1 /\ (n - 1) + 2 <= n + 1
      BY <1>1, <3>1, <3>4
    <3>6. f[(n - 1) - 1] = "NORMAL" /\ s[n - 1] = IAC
      BY <1>4, <3>3, <3>5
    <3>7. t[n - 1] = IAC /\ t[n] \in {WILL, WONT} /\ t[n + 1] = OPT_ECHO
      BY <1>1, <2>1, <3>2, <3>3, <3>5, <3>6
    <3>8. QED
      BY <1>6, <3>5, <3>6, <3>7
  <2>2. ASSUME n - 1 \in H
        PROVE  ends
    <3>1. /\ n - 1 \in 1 .. n + 1 /\ f[(n - 1) - 1] = "NORMAL"
          /\ t[n - 1] = IAC /\ t[(n - 1) + 1] \in {WILL, WONT} /\ t[(n - 1) + 2] = OPT_ECHO
      BY <1>6, <2>2
    <3>2. n - 1 \in 1 .. n /\ n \in 1 .. n /\ (n - 1) + 1 = n /\ (n - 1) + 2 = n + 1
      BY <1>1, <3>1
    <3>3. s[n - 1] = IAC /\ s[n] \in {WILL, WONT} /\ c = OPT_ECHO
      BY <1>1, <3>1, <3>2
    <3>4. f[n - 1] = "IAC"
      BY <1>4, <3>1, <3>2, <3>3
    <3>5. f[n] \in {"WILL", "WONT"}
      BY <1>4, <3>2, <3>3, <3>4
    <3>6. QED
      BY <3>3, <3>5
  <2>3. QED
    BY <2>1, <2>2
<1>10. SaysEcho(t) <=> \E i \in H : t[i + 1] = WILL /\ \A j \in H : j <= i
  BY Zenon DEF SaysEcho, H
<1>11. SaysEcho(s) <=> \E i \in E : s[i + 1] = WILL /\ \A j \in E : j <= i
  BY Zenon DEF SaysEcho, E
<1>12. CASE ends
  <2>1. n # 0
    BY <1>4, <1>12
  <2>2. n \in 1 .. n /\ (n - 1) + 1 = n
    BY <1>1, <2>1
  <2>3. t[n] = s[n] /\ (f[n] = "WILL" <=> s[n] = WILL)
    <3>1. f[n - 1] = "IAC"
      BY <1>4, <1>12, <2>2
    <3>2. QED
      BY <1>1, <1>4, <2>2, <3>1
  <2>4. n - 1 \in H /\ \A j \in H : j <= n - 1
    BY <1>1, <1>7, <1>8, <1>9, <1>12
  <2>5. \A i \in H : (\A j \in H : j <= i) => i = n - 1
    <3>1. \A i \in H : i \in Int /\ n - 1 \in Int
      BY <1>1, <1>6
    <3>2. QED
      BY <2>4, <3>1
  <2>6. SaysEcho(t) <=> f[n] = "WILL"
    BY <1>10, <2>2, <2>3, <2>4, <2>5
  <2>7. QED
    BY <1>12, <2>6 DEF n, t
<1>13. CASE ~ends
  <2>1. \A i : i \in H <=> i \in E
    BY <1>7, <1>8, <1>9, <1>13
  <2>2. SaysEcho(t) <=> SaysEcho(s)
    BY <1>7, <1>10, <1>11, <2>1
  <2>3. QED
    BY <1>13, <2>2 DEF n, t
<1>14. QED
  BY <1>12, <1>13

-----------------------------------------------------------------------------
(* The state of the parser is the one the whole stream leads to, and what  *)
(* is shown and not yet returned is the text of the call in progress.      *)
ParserFollows ==
  \E f \in [0 .. Len(stream) -> DataStates] :
    Reading(f, "NORMAL", stream) /\ f[Len(stream)] = data_state

ReturnsFollow ==
  IF pc = "parse" THEN shown = returned \o text ELSE shown = returned

SInv ==
  /\ stream \in Seq(Byte) /\ shown \in Seq(Byte) /\ returned \in Seq(Byte)
  /\ ParserFollows
  /\ ReturnsFollow
  /\ ChunkingInvisible
  /\ EchoIsNegotiated

(* The empty stream shows nothing and negotiates nothing.                  *)
LEMMA EmptyStream ==
  /\ TextOf(<<>>, UnitStarts(<<>>)) = <<>>
  /\ ~SaysEcho(<<>>)
  /\ \E f \in [0 .. Len(<<>>) -> DataStates] :
       Reading(f, "NORMAL", <<>>) /\ f[Len(<<>>)] = "NORMAL"
<1> DEFINE e == <<>>
           g == [i \in 0 .. 0 |-> "NORMAL"]
<1>1. e \in Seq(Byte) /\ Len(e) = 0
  OBVIOUS
<1>2. g \in [0 .. 0 -> DataStates] /\ g[0] = "NORMAL"
  BY DEF DataStates
<1>3. PICK f : TextUpto(e, UnitStarts(e), f)
  <2> HIDE DEF e
  <2>1. QED
    BY <1>1, TextFollows
<1>4. TextOf(e, UnitStarts(e)) = e
  <2>1. f[0] = <<>> /\ TextOf(e, UnitStarts(e)) = f[Len(e)]
    BY Zenon, <1>3 DEF TextUpto
  <2>2. QED
    BY <1>1, <2>1
<1> HIDE DEF e, g
<1>5. Reading(g, "NORMAL", e)
  BY <1>1, <1>2 DEF Reading
<1>6. UnitStarts(e) = {}
  <2>1. UnitStarts(e) = {i \in 1 .. Len(e) : g[i - 1] = "NORMAL"}
    BY <1>1, <1>5, StartsAre
  <2>2. 1 .. 0 = {}
    OBVIOUS
  <2>3. QED
    BY <1>1, <2>1, <2>2
<1>7. ~SaysEcho(e)
  BY <1>6 DEF SaysEcho, EchoOptions
<1>8. \E h \in [0 .. Len(e) -> DataStates] : Reading(h, "NORMAL", e) /\ h[Len(e)] = "NORMAL"
  BY <1>1, <1>2, <1>5
<1>9. QED
  BY <1>4, <1>7, <1>8 DEF e

(* The histories of a connection that has sent nothing.                    *)
LEMMA FreshSInv ==
  ASSUME stream = <<>>, shown = <<>>, returned = <<>>,
         data_state = "NORMAL", server_echo = FALSE, pc # "parse"
  PROVE  SInv
<1>1. <<>> \in Seq(Byte)
  OBVIOUS
<1>2. ParserFollows /\ ChunkingInvisible
  BY EmptyStream DEF ParserFollows, ChunkingInvisible
<1>3. EchoIsNegotiated
  <2>1. server_echo <=> SaysEcho(stream)
    BY EmptyStream
  <2>2. QED
    BY Zenon, <2>1 DEF EchoIsNegotiated, SaysEcho
<1>4. QED
  BY <1>1, <1>2, <1>3 DEF SInv, ReturnsFollow

(* The same after a step.                                                  *)
LEMMA FreshSInvNext ==
  ASSUME stream' = <<>>, shown' = <<>>, returned' = <<>>,
         data_state' = "NORMAL", server_echo' = FALSE, pc' # "parse"
  PROVE  SInv'
<1>1. <<>> \in Seq(Byte)
  OBVIOUS
<1>2. ParserFollows' /\ ChunkingInvisible'
  BY EmptyStream DEF ParserFollows, ChunkingInvisible
<1>3. EchoIsNegotiated'
  <2>1. server_echo' <=> SaysEcho(stream')
    BY EmptyStream
  <2>2. QED
    BY Zenon, <2>1 DEF EchoIsNegotiated, SaysEcho
<1>4. QED
  BY <1>1, <1>2, <1>3 DEF SInv, ReturnsFollow

(* The states of the parser on one more byte.                              *)
LEMMA ReadByte ==
  ASSUME NEW s \in Seq(Byte), NEW c \in Byte, NEW d,
         \E f \in [0 .. Len(s) -> DataStates] :
            Reading(f, "NORMAL", s) /\ f[Len(s)] = d
  PROVE  \E f \in [0 .. Len(Append(s, c)) -> DataStates] :
            /\ Reading(f, "NORMAL", Append(s, c))
            /\ f[Len(s)] = d /\ f[Len(Append(s, c))] = AfterByte(d, c)
<1> DEFINE n == Len(s)
           t == Append(s, c)
<1>1. PICK f \in [0 .. n -> DataStates] : Reading(f, "NORMAL", s) /\ f[n] = d
  OBVIOUS
<1> DEFINE g == [i \in 0 .. n + 1 |-> IF i = n + 1 THEN AfterByte(d, c) ELSE f[i]]
<1>2. /\ Len(t) = n + 1 /\ n \in Nat
      /\ \A i \in 1 .. n : t[i] = s[i]
      /\ t[n + 1] = c
  OBVIOUS
<1>3. AfterByte(d, c) \in DataStates
  BY DEF AfterByte, StateAfterIAC, DataStates
<1>4. f[0] = "NORMAL" /\ \A i \in 1 .. n : f[i] = AfterByte(f[i - 1], s[i])
  BY <1>1 DEF Reading
<1> HIDE DEF n, t
<1>5. g \in [0 .. n + 1 -> DataStates]
  BY <1>1, <1>2, <1>3
<1>6. g[n + 1] = AfterByte(d, c) /\ \A i \in 0 .. n : g[i] = f[i]
  BY <1>2
<1> HIDE DEF g
<1>7. \A i \in 1 .. n + 1 : g[i] = AfterByte(g[i - 1], t[i])
  <2> SUFFICES ASSUME NEW i \in 1 .. n + 1
               PROVE  g[i] = AfterByte(g[i - 1], t[i])
    OBVIOUS
  <2>1. CASE i = n + 1
    <3>1. i - 1 = n /\ n \in 0 .. n
      BY <1>2, <2>1
    <3>2. QED
      BY <1>1, <1>2, <1>6, <2>1, <3>1
  <2>2. CASE i # n + 1
    <3>1. i \in 1 .. n /\ i \in 0 .. n /\ i - 1 \in 0 .. n
      BY <1>2, <2>2
    <3>2. QED
      BY <1>2, <1>4, <1>6, <3>1
  <2>3. QED
    BY <2>1, <2>2
<1>8. g[0] = "NORMAL" /\ g[n] = d
  BY <1>1, <1>2, <1>4, <1>6
<1>9. Reading(g, "NORMAL", t)
  BY <1>2, <1>7, <1>8 DEF Reading
<1>10. QED
  BY <1>2, <1>5, <1>6, <1>8, <1>9 DEF n, t

(* What the parse loop does to its text and its state, in one step.        *)
LEMMA ByteParsed ==
  ASSUME TypeOK, ParseByte
  PROVE  /\ buffer' # buffer
         /\ Head(buffer) \in Byte
         /\ data_state' = AfterByte(data_state, Head(buffer))
         /\ server_echo' = EchoAfter(Head(buffer))
         /\ IF IsText(data_state, Head(buffer))
            THEN text' # text /\ text' = Append(text, Head(buffer))
                 /\ text'[Len(text')] = Head(buffer)
            ELSE text' = text
         /\ pc = "parse" /\ pc' = "parse" /\ socket' = socket
<1> DEFINE c == Head(buffer)
<1>1. /\ pc = "parse" /\ pc' = "parse" /\ socket' = socket
      /\ buffer \in Seq(Byte) /\ buffer # <<>> /\ buffer' = Tail(buffer)
      /\ text \in Seq(Byte)
      /\ NormalByte(c) \/ AfterIAC(c) \/ OptionByte(c)
  BY DEF ParseByte, TypeOK
<1>2. c \in Byte /\ buffer' # buffer
  <2>1. c \in Byte /\ Len(Tail(buffer)) = Len(buffer) - 1 /\ Len(buffer) \in Nat
    BY <1>1
  <2>2. Len(buffer) - 1 # Len(buffer)
    BY <2>1
  <2>3. QED
    BY <1>1, <2>1, <2>2
<1>3. \A x \in Byte : /\ Append(text, x) # text
                      /\ Append(text, x)[Len(Append(text, x))] = x
  <2> SUFFICES ASSUME NEW x \in Byte
               PROVE  Append(text, x) # text /\ Append(text, x)[Len(Append(text, x))] = x
    OBVIOUS
  <2>1. Len(Append(text, x)) = Len(text) + 1 /\ Len(text) \in Nat
    BY <1>1
  <2>2. Append(text, x)[Len(text) + 1] = x
    BY <1>1
  <2>3. Len(text) + 1 # Len(text)
    BY <2>1
  <2>4. QED
    BY <2>1, <2>2, <2>3
<1> HIDE DEF c
<1>4. CASE NormalByte(c)
  <2>1. data_state = "NORMAL" /\ server_echo' = server_echo
    BY <1>4 DEF NormalByte
  <2>2. EchoAfter(c) = server_echo
    BY <2>1 DEF EchoAfter
  <2>3. IF c # IAC THEN text' = Append(text, c) /\ data_state' = "NORMAL"
        ELSE text' = text /\ data_state' = "IAC"
    BY <1>4 DEF NormalByte
  <2>4. data_state' = AfterByte(data_state, c)
    BY <2>1, <2>3 DEF AfterByte
  <2>5. IsText(data_state, c) <=> c # IAC
    BY <2>1 DEF IsText
  <2>6. QED
    BY <1>1, <1>2, <1>3, <2>1, <2>2, <2>3, <2>4, <2>5 DEF c
<1>5. CASE AfterIAC(c)
  <2>1. data_state = "IAC" /\ server_echo' = server_echo
    BY <1>5 DEF AfterIAC
  <2>2. EchoAfter(c) = server_echo
    BY <2>1 DEF EchoAfter
  <2>3. data_state' = AfterByte(data_state, c)
    BY <1>5, <2>1 DEF AfterByte, AfterIAC
  <2>4. IsText(data_state, c) <=> c = IAC
    BY <2>1 DEF IsText
  <2>5. text' = IF c = IAC THEN Append(text, c) ELSE text
    BY <1>5 DEF AfterIAC, LiteralText
  <2>6. QED
    BY <1>1, <1>2, <1>3, <2>1, <2>2, <2>3, <2>4, <2>5 DEF c
<1>6. CASE OptionByte(c)
  <2>1. /\ data_state \in {"WILL", "WONT", "DO", "DONT"} /\ data_state' = "NORMAL"
        /\ server_echo' = EchoAfter(c) /\ text' = text
    BY <1>6 DEF OptionByte
  <2>2. data_state' = AfterByte(data_state, c) /\ ~IsText(data_state, c)
    BY <2>1 DEF AfterByte, IsText
  <2>3. QED
    BY <1>1, <1>2, <2>1, <2>2 DEF c
<1>7. QED
  BY <1>1, <1>4, <1>5, <1>6

(* One more byte on the histories.                                         *)
LEMMA ParseSInv ==
  ASSUME TypeOK, SInv, ParseByte, Record, socket' # NoFd
  PROVE  SInv'
<1> DEFINE c == Head(buffer)
           d == data_state
           t == Append(stream, c)
           n == Len(stream)
           shows == IsText(d, c)
<1>1. /\ buffer' # buffer /\ c \in Byte
      /\ data_state' = AfterByte(d, c) /\ server_echo' = EchoAfter(c)
      /\ IF shows THEN text' # text /\ text' = Append(text, c) /\ text'[Len(text')] = c
         ELSE text' = text
      /\ pc = "parse" /\ pc' = "parse"
  BY ByteParsed
<1>2. /\ stream' = t
      /\ shown' = IF shows THEN Append(shown, c) ELSE shown
      /\ returned' = returned
  BY <1>1 DEF Record
<1>3. /\ stream \in Seq(Byte) /\ shown \in Seq(Byte) /\ returned \in Seq(Byte)
      /\ text \in Seq(Byte)
  BY DEF SInv, TypeOK
<1>4. /\ stream' \in Seq(Byte) /\ shown' \in Seq(Byte) /\ returned' \in Seq(Byte)
  BY <1>1, <1>2, <1>3
<1>5. \E f \in [0 .. n -> DataStates] : Reading(f, "NORMAL", stream) /\ f[n] = d
  BY DEF SInv, ParserFollows
<1>6. PICK f \in [0 .. Len(t) -> DataStates] :
         /\ Reading(f, "NORMAL", t)
         /\ f[n] = d /\ f[Len(t)] = AfterByte(d, c)
  BY <1>1, <1>3, <1>5, ReadByte
<1>7. TextOf(t, UnitStarts(t)) = IF shows THEN Append(TextOf(stream, UnitStarts(stream)), c)
                                 ELSE TextOf(stream, UnitStarts(stream))
  BY <1>1, <1>3, <1>6, TextAppend
<1>8. SaysEcho(t) <=> IF c = OPT_ECHO /\ d \in {"WILL", "WONT"} THEN d = "WILL"
                      ELSE SaysEcho(stream)
  BY <1>1, <1>3, <1>6, EchoAppend
<1>9. server_echo <=> SaysEcho(stream)
  BY Zenon DEF SInv, EchoIsNegotiated, SaysEcho
<1>10. server_echo' <=> SaysEcho(stream')
  BY <1>1, <1>2, <1>8, <1>9 DEF EchoAfter
<1>11. ParserFollows'
  BY <1>1, <1>2, <1>6 DEF ParserFollows
<1>12. ReturnsFollow'
  <2>1. shown = returned \o text
    BY <1>1 DEF SInv, ReturnsFollow
  <2>2. Append(returned \o text, c) = returned \o Append(text, c)
    <3> HIDE DEF c
    <3>1. returned \o text \in Seq(Byte) /\ c \in Byte /\ <<c>> \in Seq(Byte)
      BY <1>1, <1>3
    <3>2. /\ Append(returned \o text, c) = (returned \o text) \o <<c>>
          /\ Append(text, c) = text \o <<c>>
      BY <1>3, <3>1, AppendIsConcat
    <3>3. (returned \o text) \o <<c>> = returned \o (text \o <<c>>)
      BY <1>3, <3>1, ConcatAssociative
    <3>4. QED
      BY <3>2, <3>3
  <2>3. shown' = returned' \o text'
    BY <1>1, <1>2, <2>1, <2>2
  <2>4. QED
    BY <1>1, <2>3 DEF ReturnsFollow
<1>13. ChunkingInvisible'
  <2>1. shown = TextOf(stream, UnitStarts(stream))
    BY Zenon DEF SInv, ChunkingInvisible
  <2>2. shown' = TextOf(stream', UnitStarts(stream'))
    BY <1>2, <1>7, <2>1
  <2>3. QED
    BY Zenon, <2>2 DEF ChunkingInvisible
<1>14. EchoIsNegotiated'
  BY Zenon, <1>10 DEF EchoIsNegotiated, SaysEcho
<1>15. QED
  BY <1>4, <1>11, <1>12, <1>13, <1>14 DEF SInv

(* A step that parses nothing on a connection that goes on.                *)
LEMMA QuietSInv ==
  ASSUME SInv, UNCHANGED <<stream, shown, data_state, server_echo>>,
         returned' \in Seq(Byte), ReturnsFollow'
  PROVE  SInv'
BY DEF SInv, ParserFollows, ChunkingInvisible, EchoIsNegotiated

(* Every step of the connection keeps the histories true.                  *)
LEMMA StepSInv ==
  ASSUME IInv, IInv', SInv, [SNext]_svars
  PROVE  SInv'
<1>1. CASE UNCHANGED svars
  BY <1>1 DEF svars, vars, SInv, ParserFollows, ReturnsFollow, ChunkingInvisible,
              EchoIsNegotiated
<1>2. CASE SNext /\ socket' = NoFd
  <2>1. stream' = <<>> /\ shown' = <<>> /\ returned' = <<>>
    BY <1>2 DEF SNext, Record
  <2>2. data_state' = "NORMAL" /\ server_echo' = FALSE /\ pc' # "parse"
    BY <1>2 DEF IInv, FreshStart, StateAgrees, TypeOK
  <2>3. QED
    BY <2>1, <2>2, FreshSInvNext
<1>3. CASE SNext /\ socket' # NoFd
  <2>1. Next /\ Record
    BY <1>3 DEF SNext
  <2>2. /\ stream \in Seq(Byte) /\ shown \in Seq(Byte) /\ returned \in Seq(Byte)
        /\ text \in Seq(Byte)
    BY DEF SInv, IInv, TypeOK
  <2>3. CASE ParseByte
    BY <1>3, <2>1, <2>3, ParseSInv DEF IInv
  <2>4. CASE ParseDone
    <3>1. /\ pc = "parse" /\ UNCHANGED <<data_state, server_echo, buffer, text>>
          /\ (pc' = "idle") \/ (text = <<>> /\ pc' = "recv")
      BY <2>4 DEF ParseDone, Return, struct, frame
    <3>2. /\ UNCHANGED <<stream, shown>>
          /\ returned' = IF pc' = "idle" THEN returned \o text ELSE returned
      BY <1>3, <2>1, <3>1 DEF Record
    <3>3. shown = returned \o text
      BY <3>1 DEF SInv, ReturnsFollow
    <3>4. returned \o <<>> = returned /\ returned \o text \in Seq(Byte)
      BY <2>2
    <3>5. returned' = shown'
      BY <3>1, <3>2, <3>3, <3>4
    <3>6. returned' \in Seq(Byte) /\ ReturnsFollow'
      BY <2>2, <3>1, <3>2, <3>5 DEF ReturnsFollow
    <3>7. QED
      BY <3>1, <3>2, <3>6, QuietSInv
  <2>5. CASE RecvData
    <3>1. /\ pc = "recv" /\ pc' = "parse" /\ text' = <<>>
          /\ UNCHANGED <<data_state, server_echo>>
      BY <2>5 DEF RecvData, struct
    <3>2. UNCHANGED <<stream, shown, returned>>
      BY <1>3, <2>1, <3>1 DEF Record
    <3>3. shown = returned
      BY <3>1 DEF SInv, ReturnsFollow
    <3>4. returned \o <<>> = returned
      BY <2>2
    <3>5. ReturnsFollow'
      BY <3>1, <3>2, <3>3, <3>4 DEF ReturnsFollow
    <3>6. QED
      BY <2>2, <3>1, <3>2, <3>5, QuietSInv
  <2>6. CASE Peer
    <3>1. UNCHANGED <<data_state, server_echo, pc, text, buffer>>
      BY <2>6 DEF Peer, PeerSend, PeerClose, struct, frame
    <3>2. ~(pc = "parse" /\ pc' = "idle")
      BY <3>1
    <3>3. UNCHANGED <<stream, shown, returned>>
      BY <1>3, <2>1, <3>1, <3>2 DEF Record
    <3>4. ReturnsFollow'
      BY <3>1, <3>3 DEF SInv, ReturnsFollow
    <3>5. QED
      BY <2>2, <3>1, <3>3, <3>4, QuietSInv
  <2>7. CASE Disconnect \/ RecvLost
    BY <1>3, <2>7 DEF Disconnect, RecvLost, CloseConnection
  <2>8. CASE ReceiveCall \/ ConnectCall \/ ConnectStep \/ RecvNothing
    <3>1. pc # "parse" /\ pc' # "parse" /\ UNCHANGED <<data_state, server_echo>>
      <4>1. CASE ReceiveCall \/ ConnectCall \/ RecvNothing
        BY <4>1 DEF ReceiveCall, ConnectCall, RecvNothing, Return, struct
      <4>2. CASE AttemptNoSocket \/ AttemptRefused \/ ConnectGiveUp \/ SelectRefused
        BY <4>2 DEF AttemptNoSocket, AttemptRefused, ConnectGiveUp, SelectRefused,
                    ConnectFails, Return
      <4>3. CASE AttemptImmediate \/ SelectConnected
        BY <4>3 DEF AttemptImmediate, SelectConnected, Established, Return
      <4>4. CASE AttemptPending \/ SelectTimeout
        BY <4>4 DEF AttemptPending, SelectTimeout
      <4>5. QED
        BY <2>8, <4>1, <4>2, <4>3, <4>4 DEF ConnectStep
    <3>2. UNCHANGED <<stream, shown, returned>>
      BY <1>3, <2>1, <3>1 DEF Record
    <3>3. ReturnsFollow'
      BY <3>1, <3>2 DEF SInv, ReturnsFollow
    <3>4. QED
      BY <2>2, <3>1, <3>2, <3>3, QuietSInv
  <2>9. QED
    BY <2>1, <2>3, <2>4, <2>5, <2>6, <2>7, <2>8 DEF Next, Call, ReceiveStep
<1>4. QED
  BY <1>1, <1>2, <1>3

(* However recv() cuts what the server sends, for every stream, buffer     *)
(* size and instant: the text is that of the whole stream, server_echo is  *)
(* what was last negotiated, and all of the text is returned in order.     *)
THEOREM AlwaysParsedAsSent == SSpec => []ParsedAsSent
<1>1. SInit => IInv /\ SInv
  <2> SUFFICES ASSUME SInit
               PROVE  IInv /\ SInv
    OBVIOUS
  <2>1. IInv
    BY InitIInv DEF SInit
  <2>2. SInv
    BY FreshSInv DEF SInit, Init
  <2>3. QED
    BY <2>1, <2>2
<1>2. IInv /\ [SNext]_svars => IInv'
  <2>1. [SNext]_svars => [Next]_vars
    BY DEF SNext, svars
  <2>2. QED
    BY <2>1, StepIInv
<1>3. IInv /\ SInv /\ [SNext]_svars => (IInv /\ SInv)'
  BY <1>2, StepSInv
<1>4. IInv /\ SInv => ParsedAsSent
  <2> SUFFICES ASSUME SInv
               PROVE  ParsedAsSent
    OBVIOUS
  <2>1. NothingLost
    BY DEF SInv, ReturnsFollow, NothingLost
  <2>2. QED
    BY <2>1 DEF SInv, ParsedAsSent
<1>5. QED
  BY <1>1, <1>3, <1>4, PTL DEF SSpec

(***************************************************************************)
(* The client's copies of the connection's state, for every server, buffer *)
(* size, retry count and set of descriptors.                               *)
(***************************************************************************)

(* What the client knows at each point of its event loop: in which calls   *)
(* it can be, and what the value they return says of the connection.       *)
ControlAgrees ==
  /\ calling = "loop" =>
       /\ pc = "idle"
       /\ g_connected <=> state = "CONNECTED"
  /\ calling = "handle" =>
       /\ g_connected
       /\ pc \in {"idle", "recv", "parse"}
       /\ state = "CONNECTED" <=> ~(pc = "idle" /\ rc < 0)
  /\ calling = "connect" =>
       pc = "idle" /\ ~g_connected /\ state = "DISCONNECTED"
  /\ calling = "connecting" =>
       /\ ~g_connected
       /\ pc \in {"idle", "attempt", "select"}
       /\ pc = "idle" => (rc = 0 <=> state = "CONNECTED")
  /\ calling = "exited" => pc = "idle" /\ state = "DISCONNECTED"

(* Password mode without a connection exists only inside :connect, when    *)
(* the connection it disconnected had it.                                  *)
MaskAgrees ==
  ~g_connected /\ calling # "exited" =>
    (g_server_echo => calling \in {"connect", "connecting"} /\ was_connected)

CInv ==
  /\ IInv
  /\ ClientTypeOK
  /\ ControlAgrees
  /\ MaskAgrees

(* The strengthened invariant at the start of the program.                 *)
LEMMA InitCInv == ClientInit => CInv
  <1> SUFFICES ASSUME ClientInit PROVE CInv
    OBVIOUS
  <1>1. IInv /\ TypeOK
    BY InitIInv DEF ClientInit, IInv
  <1>2. ClientTypeOK
    BY <1>1 DEF ClientInit, ClientTypeOK
  <1>3. ControlAgrees /\ MaskAgrees
    BY DEF ClientInit, Init, ControlAgrees, MaskAgrees
  <1>. QED BY <1>1, <1>2, <1>3 DEF CInv

(* A step of the client is a legal step of the connection, or none.        *)
LEMMA ClientStepLegal == CInv /\ [ClientNext]_cvars => [Next]_vars
  <1> SUFFICES ASSUME CInv, [ClientNext]_cvars PROVE [Next]_vars
    OBVIOUS
  <1>1. CASE TelnetReady \/ HandleText
    BY <1>1 DEF TelnetReady, HandleText, Next, Call
  <1>2. CASE HandleLost \/ HandleNothing \/ SubmitText \/ SubmitUnknown
             \/ ConnectReturns \/ CommandQuit
    BY <1>2 DEF HandleLost, HandleNothing, SubmitText, SubmitUnknown,
                ConnectReturns, CommandQuit
  <1>3. CASE CommandDisconnect \/ CommandConnect \/ Exit
    BY <1>3 DEF CommandDisconnect, CommandConnect, DisconnectFirst, Exit, Cleanup,
                Next, Call
  <1>4. CASE CallConnect
    <2>1. socket = NoFd
      BY <1>4 DEF CallConnect, CInv, ControlAgrees, IInv, StateAgrees
    <2>. QED BY <1>4, <2>1 DEF CallConnect, Next, Call
  <1>5. CASE Running \/ Server
    BY <1>5 DEF Running, Server, Next
  <1>6. CASE UNCHANGED cvars
    BY <1>6 DEF cvars
  <1>. QED
    BY <1>1, <1>2, <1>3, <1>4, <1>5, <1>6 DEF ClientNext, Handle, Submit

(* Every step of the event loop keeps its variables' types.                *)
LEMMA StepClientTypeOK == CInv /\ [ClientNext]_cvars => ClientTypeOK'
  <1> SUFFICES ASSUME CInv, [ClientNext]_cvars PROVE ClientTypeOK'
    OBVIOUS
  <1>1. TypeOK'
    BY ClientStepLegal, StepIInv DEF CInv, IInv
  <1>2. server_echo \in BOOLEAN /\ ClientTypeOK
    BY DEF CInv, IInv, TypeOK
  <1> USE DEF ClientTypeOK
  <1>3. CASE TelnetReady \/ Handle
    BY <1>1, <1>2, <1>3 DEF TelnetReady, Handle, HandleLost, HandleNothing, HandleText,
                      ShowLost, EchoNow
  <1>4. CASE SubmitText \/ SubmitUnknown
    BY <1>1, <1>2, <1>4 DEF SubmitText, SubmitUnknown, Shows, RecordedIn, EchoedIn, Places
  <1>5. CASE CommandDisconnect \/ CommandConnect \/ CommandQuit \/ Exit
    BY <1>1, <1>2, <1>5 DEF CommandDisconnect, CommandConnect, CommandQuit, Exit, AfterCommand
  <1>6. CASE CallConnect \/ ConnectReturns
    BY <1>1, <1>2, <1>6 DEF CallConnect, ConnectReturns, AfterCommand
  <1>7. CASE Running \/ Server \/ UNCHANGED cvars
    BY <1>1, <1>2, <1>7 DEF Running, Server, client, cvars
  <1>. QED
    BY <1>3, <1>4, <1>5, <1>6, <1>7 DEF ClientNext, Submit

(* Every step keeps the loop's place in step with the call it made, and    *)
(* its copy of server_echo off when there is no connection.                *)
LEMMA StepControl == CInv /\ [ClientNext]_cvars => ControlAgrees' /\ MaskAgrees'
  <1> SUFFICES ASSUME CInv, [ClientNext]_cvars PROVE ControlAgrees' /\ MaskAgrees'
    OBVIOUS
  <1> USE DEF CInv, ControlAgrees, MaskAgrees
  <1>1. /\ StateAgrees
        /\ calling \in {"loop", "handle", "connect", "connecting", "exited"}
        /\ pc \in {"idle", "attempt", "select", "recv", "parse"}
        /\ rc \in Int /\ Len(text) \in Nat
    BY LenProperties DEF IInv, TypeOK, ClientTypeOK
  <1>2. CASE TelnetReady \/ HandleText
    BY <1>1, <1>2 DEF TelnetReady, HandleText, ReceiveCall, struct, StateAgrees
  <1>3. CASE HandleLost \/ HandleNothing
    BY <1>1, <1>3 DEF HandleLost, HandleNothing, ShowLost, vars, StateAgrees
  <1>4. CASE SubmitText \/ SubmitUnknown \/ CommandQuit
    BY <1>1, <1>4 DEF SubmitText, SubmitUnknown, CommandQuit, vars
  <1>5. CASE CommandDisconnect
    BY <1>1, <1>5 DEF CommandDisconnect, AfterCommand, Disconnect, CloseConnection, StateAgrees
  <1>6. CASE CommandConnect
    <2>1. pc' = "idle" /\ state' = "DISCONNECTED"
      <3>1. CASE g_connected
        BY <1>1, <1>6, <3>1 DEF CommandConnect, DisconnectFirst, Disconnect, CloseConnection
      <3>2. CASE ~g_connected
        BY <1>1, <1>6, <3>2 DEF CommandConnect, DisconnectFirst, vars, StateAgrees, IInv, TypeOK
      <3>. QED BY <3>1, <3>2
    <2>. QED BY <1>1, <1>6, <2>1 DEF CommandConnect, ClientTypeOK
  <1>7. CASE CallConnect
    BY <1>1, <1>7 DEF CallConnect, ConnectCall, Return, StateAgrees
  <1>8. CASE ConnectReturns
    BY <1>1, <1>8 DEF ConnectReturns, AfterCommand, vars, StateAgrees
  <1>9. CASE Exit
    <2>1. pc' = "idle" /\ state' = "DISCONNECTED"
      <3>1. CASE socket # NoFd
        BY <1>1, <1>9, <3>1 DEF Exit, Cleanup, Disconnect, CloseConnection
      <3>2. CASE socket = NoFd
        BY <1>1, <1>9, <3>2 DEF Exit, Cleanup, vars, StateAgrees, IInv, TypeOK
      <3>. QED BY <3>1, <3>2
    <2>. QED BY <1>9, <2>1 DEF Exit
  <1>10. CASE Running
    <2>1. CASE ConnectStep
      <3>1. calling = "connecting"
        BY <1>1, <2>1 DEF ConnectStep, AttemptNoSocket, AttemptImmediate, AttemptRefused,
             AttemptPending, SelectConnected, SelectRefused, SelectTimeout, ConnectGiveUp
      <3>2. \/ pc' \in {"attempt", "select"}
            \/ pc' = "idle" /\ (rc' = 0 <=> state' = "CONNECTED")
        <4>1. CASE AttemptImmediate \/ SelectConnected
          <5>1. PICK fd : Established(fd)
            BY <4>1 DEF AttemptImmediate, SelectConnected
          <5>. QED BY <5>1 DEF Established, Return
        <4>2. CASE AttemptNoSocket \/ AttemptRefused \/ SelectRefused \/ ConnectGiveUp
          BY <4>2 DEF AttemptNoSocket, AttemptRefused, SelectRefused, ConnectGiveUp,
                      ConnectFails, Return
        <4>3. CASE AttemptPending \/ SelectTimeout
          BY <4>3 DEF AttemptPending, SelectTimeout
        <4>. QED BY <2>1, <4>1, <4>2, <4>3 DEF ConnectStep
      <3>. QED BY <1>10, <3>1, <3>2 DEF Running, client
    <2>2. CASE ReceiveStep
      <3>1. UNCHANGED client
        BY <1>10 DEF Running
      <3>2. pc \in {"recv", "parse"} /\ state = "CONNECTED"
        BY <1>1, <2>2 DEF StateAgrees, ReceiveStep, RecvData, RecvNothing, RecvLost,
             ParseByte, ParseDone
      <3>3. calling = "handle"
        BY <1>1, <3>2
      <3>4. pc' \in {"idle", "recv", "parse"}
        BY <2>2 DEF ReceiveStep, RecvData, RecvNothing, RecvLost, ParseByte, ParseDone, Return
      <3>5. CASE RecvLost
        BY <1>1, <3>1, <3>3, <3>5 DEF client, RecvLost, CloseConnection, Return
      <3>6. CASE ~RecvLost
        <4>1. state' = state
          BY <2>2, <3>6 DEF ReceiveStep, RecvData, RecvNothing, ParseByte, ParseDone, struct
        <4>2. ~(pc' = "idle" /\ rc' < 0)
          <5>1. CASE RecvNothing
            BY <5>1 DEF RecvNothing, Return
          <5>2. CASE ParseDone
            BY <1>1, <3>2, <5>2 DEF ParseDone, Return
          <5>3. CASE RecvData \/ ParseByte
            BY <3>2, <5>3 DEF RecvData, ParseByte
          <5>. QED BY <2>2, <3>6, <5>1, <5>2, <5>3 DEF ReceiveStep
        <4>. QED BY <1>1, <3>1, <3>2, <3>3, <3>4, <4>1, <4>2 DEF client
      <3>. QED BY <3>5, <3>6
    <2>. QED BY <1>10, <2>1, <2>2 DEF Running
  <1>11. CASE Server \/ UNCHANGED cvars
    BY <1>1, <1>11 DEF Server, Peer, PeerSend, PeerClose, client, cvars, vars, struct
  <1>. QED
    BY <1>2, <1>3, <1>4, <1>5, <1>6, <1>7, <1>8, <1>9, <1>10, <1>11
       DEF ClientNext, Handle, Submit

(* Every step keeps the strengthened invariant.                            *)
LEMMA StepCInv == CInv /\ [ClientNext]_cvars => CInv'
  <1> SUFFICES ASSUME CInv, [ClientNext]_cvars PROVE CInv'
    OBVIOUS
  <1>1. IInv'
    BY ClientStepLegal, StepIInv DEF CInv
  <1>. QED BY <1>1, StepClientTypeOK, StepControl DEF CInv

(* The client's inductive invariant. *)
THEOREM ClientCInv == ClientSpec => []CInv
  BY InitCInv, StepCInv, PTL DEF ClientSpec

(* The program uses the telnet calls as they are meant to be used: never   *)
(* two at a time, never a connect over a connection.                       *)
THEOREM ClientCallsLegal == ClientSpec => CallsLegal
  <1>1. ClientInit => Init
    BY DEF ClientInit
  <1>. QED BY <1>1, ClientCInv, ClientStepLegal, PTL DEF ClientSpec, CallsLegal, Spec

(* Between events g_connected is never stale. *)
THEOREM ClientConnectedAgrees == ClientSpec => []ConnectedAgrees
  <1>1. CInv => ConnectedAgrees
    BY DEF CInv, ControlAgrees, ConnectedAgrees
  <1>. QED BY <1>1, ClientCInv, PTL

(* Between events the user's typing is hidden only while connected. *)
THEOREM ClientNoMask == ClientSpec => []NoMaskWithoutConnection
  <1>1. CInv => NoMaskWithoutConnection
    BY DEF CInv, MaskAgrees, NoMaskWithoutConnection
  <1>. QED BY <1>1, ClientCInv, PTL

(* Both copies of the connection's state hold at every event.              *)
THEOREM ClientCopiesAgree == ClientSpec => []CopiesAgree
  BY ClientConnectedAgrees, ClientNoMask, PTL DEF CopiesAgree

(* The program leaks no descriptor while it runs, and holds none at exit.  *)
THEOREM ClientReleases == ClientSpec => [](NoLeak /\ ExitReleases)
  <1>1. CInv => NoLeak /\ ExitReleases
    BY NoFdIsNone DEF CInv, ControlAgrees, IInv, NoLeak, ExitReleases, StateAgrees, FreshStart
  <1>. QED BY <1>1, ClientCInv, PTL

-----------------------------------------------------------------------------
(* Password mode.                                                          *)
(*                                                                         *)
(* The last byte of s is text; without a byte, no option is unfinished.    *)
EndsInText(from, s) ==
  \E f \in [0 .. Len(s) -> DataStates] :
    /\ Reading(f, from, s)
    /\ IF s = <<>> THEN from = "NORMAL" ELSE IsText(f[Len(s) - 1], s[Len(s)])

(* What a theorem below assumes of the server: whatever options it writes  *)
(* in one piece, text comes behind them, as in a prompt.                   *)
PromptsOnly == \A p \in Packets : EndsInText("NORMAL", p)

(* What is left after one byte still ends in text.                         *)
LEMMA ReadOne ==
  ASSUME NEW s \in Seq(Byte), s # <<>>, NEW from, EndsInText(from, s)
  PROVE  /\ EndsInText(AfterByte(from, s[1]), Tail(s))
         /\ Tail(s) = <<>> => IsText(from, s[1])
<1> DEFINE n == Len(s)
           t == Tail(s)
<1>1. /\ n \in Nat /\ n # 0 /\ Len(t) = n - 1 /\ t \in Seq(Byte)
      /\ \A i \in 1 .. n - 1 : t[i] = s[i + 1]
  OBVIOUS
<1>2. PICK f \in [0 .. n -> DataStates] : Reading(f, from, s) /\ IsText(f[n - 1], s[n])
  BY DEF EndsInText
<1>3. /\ f \in [0 .. n -> DataStates] /\ f[0] = from
      /\ \A i \in 1 .. n : f[i] = AfterByte(f[i - 1], s[i])
  BY <1>2 DEF Reading
<1> HIDE DEF n, t
<1> DEFINE g == [i \in 0 .. n - 1 |-> f[i + 1]]
<1>4. f[1] = AfterByte(from, s[1])
  BY <1>1, <1>3
<1>5. g \in [0 .. n - 1 -> DataStates] /\ g[0] = f[1]
  BY <1>1, <1>3
<1>6. ASSUME NEW i \in 1 .. n - 1
      PROVE  g[i] = AfterByte(g[i - 1], t[i])
  <2>1. i + 1 \in 1 .. n /\ i \in 0 .. n - 1 /\ i - 1 \in 0 .. n - 1 /\ (i + 1) - 1 = i
    BY <1>1
  <2>2. f[i + 1] = AfterByte(f[i], s[i + 1])
    BY <1>3, <2>1
  <2>3. g[i] = f[i + 1] /\ g[i - 1] = f[i] /\ t[i] = s[i + 1]
    BY <1>1, <2>1
  <2>4. QED
    BY <2>2, <2>3
<1>7. n - 1 # 0 => g[n - 2] = f[n - 1] /\ t[n - 1] = s[n]
  BY <1>1
<1>8. t = <<>> <=> n - 1 = 0
  BY <1>1
<1> HIDE DEF g
<1>9. Reading(g, AfterByte(from, s[1]), t)
  BY <1>1, <1>4, <1>5, <1>6 DEF Reading
<1>10. CASE n - 1 = 0
  <2>1. IsText(from, s[1])
    BY <1>1, <1>2, <1>3, <1>10
  <2>2. AfterByte(from, s[1]) = "NORMAL"
    BY <2>1, AfterText
  <2>3. QED
    BY <1>1, <1>5, <1>8, <1>9, <1>10, <2>1, <2>2 DEF EndsInText, t
<1>11. CASE n - 1 # 0
  <2>1. Len(t) - 1 = n - 2 /\ Len(t) = n - 1 /\ t # <<>>
    BY <1>1, <1>8, <1>11
  <2>2. IsText(g[Len(t) - 1], t[Len(t)])
    BY <1>2, <1>7, <1>11, <2>1
  <2>3. QED
    BY <1>5, <1>9, <2>1, <2>2 DEF EndsInText, t
<1>12. QED
  BY <1>10, <1>11

(* More of what ends in text ends in text.                                 *)
LEMMA ReadMore ==
  ASSUME NEW s \in Seq(Byte), NEW p \in Seq(Byte), NEW from,
         EndsInText(from, s), EndsInText("NORMAL", p)
  PROVE  EndsInText(from, s \o p)
<1> DEFINE m == Len(s)
           n == Len(p)
           b == s \o p
<1>1. m \in Nat /\ n \in Nat /\ (s = <<>> <=> m = 0) /\ (p = <<>> <=> n = 0)
  OBVIOUS
<1>2. /\ b \in Seq(Byte) /\ Len(b) = m + n
      /\ \A i \in 1 .. m : b[i] = s[i]
      /\ \A i \in 1 .. n : b[m + i] = p[i]
  OBVIOUS
<1>3. PICK f \in [0 .. m -> DataStates] :
         Reading(f, from, s) /\ IF s = <<>> THEN from = "NORMAL" ELSE IsText(f[m - 1], s[m])
  BY DEF EndsInText
<1>4. PICK h \in [0 .. n -> DataStates] :
         Reading(h, "NORMAL", p) /\ (p # <<>> => IsText(h[n - 1], p[n]))
  BY DEF EndsInText
<1>5. /\ f \in [0 .. m -> DataStates] /\ f[0] = from
      /\ \A i \in 1 .. m : f[i] = AfterByte(f[i - 1], s[i])
  BY <1>3 DEF Reading
<1>6. /\ h \in [0 .. n -> DataStates] /\ h[0] = "NORMAL"
      /\ \A i \in 1 .. n : h[i] = AfterByte(h[i - 1], p[i])
  BY <1>4 DEF Reading
<1> HIDE DEF m, n, b
<1>7. f[m] = "NORMAL"
  <2>1. CASE m = 0
    BY <1>1, <1>3, <1>5, <2>1
  <2>2. CASE m # 0
    <3>1. IsText(f[m - 1], s[m]) /\ f[m] = AfterByte(f[m - 1], s[m])
      BY <1>1, <1>3, <1>5, <2>2
    <3>2. QED
      BY <3>1, AfterText
  <2>3. QED
    BY <2>1, <2>2
<1> DEFINE g == [i \in 0 .. m + n |-> IF i <= m THEN f[i] ELSE h[i - m]]
<1>8. g \in [0 .. m + n -> DataStates] /\ g[0] = from
  BY <1>1, <1>5, <1>6
<1>9. /\ \A i \in 0 .. m : g[i] = f[i]
      /\ \A i \in 0 .. n : g[m + i] = h[i]
  <2>1. \A i \in 0 .. m : g[i] = f[i]
    BY <1>1
  <2>2. ASSUME NEW i \in 0 .. n PROVE g[m + i] = h[i]
    <3>1. m + i \in 0 .. m + n /\ (m + i) - m = i /\ (m + i <= m <=> i = 0)
      BY <1>1
    <3>2. QED
      BY <1>1, <1>6, <1>7, <3>1
  <2>3. QED
    BY <2>1, <2>2
<1> HIDE DEF g
<1>10. ASSUME NEW i \in 1 .. m + n
       PROVE  g[i] = AfterByte(g[i - 1], b[i])
  <2>1. CASE i <= m
    <3>1. i \in 1 .. m /\ i \in 0 .. m /\ i - 1 \in 0 .. m
      BY <1>1, <2>1
    <3>2. QED
      BY <1>2, <1>5, <1>9, <3>1
  <2>2. CASE ~(i <= m)
    <3> DEFINE j == i - m
    <3>1. j \in 1 .. n /\ j \in 0 .. n /\ j - 1 \in 0 .. n /\ m + j = i /\ m + (j - 1) = i - 1
      BY <1>1, <2>2
    <3> HIDE DEF j
    <3>2. g[m + j] = h[j] /\ g[m + (j - 1)] = h[j - 1] /\ b[m + j] = p[j]
      BY <1>2, <1>9, <3>1
    <3>3. h[j] = AfterByte(h[j - 1], p[j])
      BY <1>6, <3>1
    <3>4. QED
      BY <3>1, <3>2, <3>3
  <2>3. QED
    BY <2>1, <2>2
<1>11. Reading(g, from, b)
  BY <1>2, <1>8, <1>10 DEF Reading
<1>12. CASE n = 0
  <2>1. m + n = m /\ (b = <<>> <=> m = 0)
    BY <1>1, <1>2, <1>12
  <2>2. m # 0 => m - 1 \in 0 .. m /\ m \in 1 .. m
    BY <1>1
  <2>3. IF b = <<>> THEN from = "NORMAL" ELSE IsText(g[Len(b) - 1], b[Len(b)])
    BY <1>1, <1>2, <1>3, <1>9, <2>1, <2>2
  <2>4. QED
    BY <1>2, <1>8, <1>11, <2>3 DEF EndsInText, b
<1>13. CASE n # 0
  <2>1. /\ n \in 1 .. n /\ n - 1 \in 0 .. n /\ m + (n - 1) = (m + n) - 1
        /\ p # <<>> /\ m + n # 0
    BY <1>1, <1>13
  <2>2. b # <<>>
    BY <1>2, <2>1
  <2>3. g[Len(b) - 1] = h[n - 1] /\ b[Len(b)] = p[n]
    BY <1>2, <1>9, <2>1
  <2>4. IsText(g[Len(b) - 1], b[Len(b)])
    BY <1>4, <2>1, <2>3
  <2>5. QED
    BY <1>2, <1>8, <1>11, <2>2, <2>4 DEF EndsInText, b
<1>14. QED
  BY <1>12, <1>13

(* What was received and is not parsed yet.                                *)
Rest == buffer \o inbox

(* Outside the receive calls the copy knows of every password prompt.      *)
(* Inside, either it does, or the call has text to return and the copy is  *)
(* refreshed, or more is to be read, and what is read ends in text.        *)
CopyFollows ==
  \/ server_echo => g_server_echo
  \/ /\ calling = "handle"
     /\ \/ pc = "idle" /\ rc > 0
        \/ pc = "parse" /\ text # <<>>
        \/ pc \in {"recv", "parse"} /\ Rest # <<>>

SecretInv ==
  /\ pc # "parse" => buffer = <<>>
  /\ EndsInText(data_state, Rest)
  /\ CopyFollows
  /\ calling = "connecting" => ~server_echo
  /\ SecretHidden

(* Nothing to be read is read at once.                                     *)
LEMMA ReadNothing == EndsInText("NORMAL", <<>> \o <<>>)
<1> DEFINE e == <<>>
           f == [i \in 0 .. 0 |-> "NORMAL"]
<1>1. e \o e = <<>> /\ Len(e) = 0
  OBVIOUS
<1>2. f \in [0 .. 0 -> DataStates] /\ f[0] = "NORMAL"
  BY DEF DataStates
<1> HIDE DEF f
<1>3. Reading(f, "NORMAL", e)
  BY <1>1, <1>2 DEF Reading
<1>4. QED
  BY <1>1, <1>2, <1>3 DEF EndsInText

(* The parser and the copy at the start.                                   *)
LEMMA InitSecret == ClientInit => SecretInv
BY ReadNothing DEF ClientInit, Init, SecretInv, CopyFollows, SecretHidden, Rest

(* A connection that ends, or begins, has nothing to be read.              *)
LEMMA FreshSecret ==
  ASSUME IInv, SecretInv, pc # "parse", buffer' = buffer, inbox' = <<>>,
         data_state' = "NORMAL", ~server_echo', pc' # "parse", exposed' = exposed
  PROVE  SecretInv'
<1>1. buffer' = <<>> /\ inbox' = <<>>
  BY DEF SecretInv
<1>2. EndsInText(data_state', Rest')
  BY <1>1, ReadNothing DEF Rest
<1>3. QED
  BY <1>1, <1>2 DEF SecretInv, CopyFollows, SecretHidden

(* The parser reads a byte.                                                *)
LEMMA ParseSecret ==
  ASSUME IInv, SecretInv, ParseByte, UNCHANGED client, calling = "handle"
  PROVE  SecretInv'
<1> DEFINE c == Head(buffer)
           s == Rest
<1>1. /\ pc = "parse" /\ pc' = "parse" /\ buffer # <<>> /\ buffer' = Tail(buffer)
      /\ inbox' = inbox
      /\ NormalByte(c) \/ AfterIAC(c) \/ OptionByte(c)
  BY DEF ParseByte, network
<1>2. /\ buffer \in Seq(Byte) /\ inbox \in Seq(Byte) /\ text \in Seq(Byte)
      /\ data_state \in DataStates
  BY DEF IInv, TypeOK
<1>3. s \in Seq(Byte) /\ s # <<>> /\ s[1] = c /\ Tail(s) = Tail(buffer) \o inbox
  BY <1>1, <1>2 DEF Rest
<1>4. Rest' = Tail(s)
  BY <1>1, <1>3 DEF Rest
<1>5. EndsInText(data_state, s)
  BY DEF SecretInv
<1> HIDE DEF s, c
<1>6. /\ EndsInText(AfterByte(data_state, c), Tail(s))
      /\ Tail(s) = <<>> => IsText(data_state, c)
  BY <1>3, <1>5, ReadOne
<1>7. data_state' = AfterByte(data_state, c)
  BY <1>1, <1>2 DEF NormalByte, AfterIAC, OptionByte, AfterByte, DataStates
<1>8. IsText(data_state, c) => text' = Append(text, c) /\ server_echo' = server_echo
  BY <1>1 DEF NormalByte, AfterIAC, OptionByte, IsText, LiteralText
<1>9. ~IsText(data_state, c) => text' = text
  BY <1>1 DEF NormalByte, AfterIAC, OptionByte, IsText, LiteralText
<1>10. Append(text, c) # <<>>
  BY <1>2
<1>11. CopyFollows'
  <2>1. CASE IsText(data_state, c)
    BY <1>1, <1>8, <1>10, <2>1 DEF CopyFollows, client
  <2>2. CASE ~IsText(data_state, c)
    BY <1>1, <1>4, <1>6, <2>2 DEF CopyFollows, client
  <2>3. QED
    BY <2>1, <2>2
<1>12. EndsInText(data_state', Rest')
  BY <1>4, <1>6, <1>7
<1>13. QED
  BY <1>1, <1>11, <1>12 DEF SecretInv, SecretHidden, client

(* The rest of telnet_receive.                                             *)
LEMMA ReceiveSecret ==
  ASSUME IInv, SecretInv, ReceiveStep, UNCHANGED client, calling = "handle"
  PROVE  SecretInv'
<1>1. CASE RecvData
  <2> DEFINE n == IF Len(inbox) < BufSize THEN Len(inbox) ELSE BufSize
  <2>1. /\ pc = "recv" /\ pc' = "parse" /\ inbox # <<>>
        /\ buffer' = SubSeq(inbox, 1, n) /\ inbox' = SubSeq(inbox, n + 1, Len(inbox))
        /\ server_echo' = server_echo /\ data_state' = data_state
    BY <1>1 DEF RecvData, struct
  <2>2. inbox \in Seq(Byte)
    BY DEF IInv, TypeOK
  <2>3. n \in 1 .. Len(inbox)
    <3>1. Len(inbox) \in Nat /\ Len(inbox) # 0
      BY <2>1, <2>2
    <3>2. QED
      BY <3>1, BufSizeAssumption
  <2>4. buffer = <<>>
    BY <2>1 DEF SecretInv
  <2>5. Rest' = inbox /\ Rest = inbox
    <3>1. <<>> \o inbox = inbox
      BY <2>2
    <3> HIDE DEF n
    <3>2. SubSeq(inbox, 1, n) \o SubSeq(inbox, n + 1, Len(inbox)) = inbox
      BY <2>2, <2>3
    <3>3. QED
      BY <2>1, <2>4, <3>1, <3>2 DEF Rest
  <2>6. CopyFollows'
    BY <2>1, <2>5 DEF CopyFollows, client
  <2>7. QED
    BY <2>1, <2>5, <2>6 DEF SecretInv, SecretHidden, client
<1>2. CASE RecvNothing
  <2>1. /\ pc = "recv" /\ pc' = "idle" /\ inbox = <<>>
        /\ buffer' = buffer /\ inbox' = inbox /\ text' = text
        /\ server_echo' = server_echo /\ data_state' = data_state
    BY <1>2 DEF RecvNothing, Return, struct, frame, network
  <2>2. Rest = <<>> /\ Rest' = Rest
    BY <2>1 DEF SecretInv, Rest
  <2>3. CopyFollows'
    BY <2>1, <2>2 DEF SecretInv, CopyFollows, client
  <2>4. QED
    BY <2>1, <2>2, <2>3 DEF SecretInv, SecretHidden, client
<1>3. CASE RecvLost
  BY <1>3, FreshSecret DEF RecvLost, CloseConnection, ResetProtocol, Return, frame, client
<1>4. CASE ParseByte
  BY <1>4, ParseSecret
<1>5. CASE ParseDone
  <2>1. /\ pc = "parse" /\ buffer = <<>>
        /\ buffer' = buffer /\ inbox' = inbox /\ text' = text
        /\ server_echo' = server_echo /\ data_state' = data_state
        /\ \/ text # <<>> /\ pc' = "idle" /\ rc' = Len(text)
           \/ text = <<>> /\ pc' = "recv"
    BY <1>5 DEF ParseDone, Return, struct, frame, network
  <2>2. Rest' = Rest
    BY <2>1 DEF Rest
  <2>3. text # <<>> => Len(text) > 0
    BY DEF IInv, TypeOK
  <2>4. CopyFollows'
    <3>1. CASE text # <<>>
      BY <2>1, <2>3, <3>1 DEF CopyFollows, client
    <3>2. CASE text = <<>>
      BY <2>1, <2>2, <3>2 DEF SecretInv, CopyFollows, client
    <3>3. QED
      BY <3>1, <3>2
  <2>5. QED
    BY <2>1, <2>2, <2>4 DEF SecretInv, SecretHidden, client
<1>6. QED
  BY <1>1, <1>2, <1>3, <1>4, <1>5 DEF ReceiveStep

(* Steps of telnet_connect.                                                *)
LEMMA ConnectSecret ==
  ASSUME IInv, SecretInv, ConnectStep, UNCHANGED client
  PROVE  SecretInv'
<1>1. ~server_echo /\ data_state = "NORMAL" /\ pc # "parse"
  <2>1. pc \in {"attempt", "select"}
    BY DEF ConnectStep, AttemptNoSocket, AttemptImmediate, AttemptRefused, AttemptPending,
           SelectConnected, SelectRefused, SelectTimeout, ConnectGiveUp
  <2>2. QED
    BY <2>1 DEF IInv, FreshStart
<1>2. CASE AttemptImmediate \/ SelectConnected
  <2>1. PICK fd : Established(fd)
    BY <1>2 DEF AttemptImmediate, SelectConnected
  <2>2. buffer' = buffer /\ server_echo' = server_echo /\ data_state' = data_state
    BY <1>2 DEF AttemptImmediate, SelectConnected, frame
  <2>3. QED
    BY <1>1, <2>1, <2>2, FreshSecret DEF Established, Return, client
<1>3. CASE ~(AttemptImmediate \/ SelectConnected)
  <2>1. /\ buffer' = buffer /\ inbox' = inbox /\ pc' # "parse"
        /\ server_echo' = server_echo /\ data_state' = data_state
    BY <1>3 DEF ConnectStep, AttemptNoSocket, AttemptRefused, AttemptPending, SelectRefused,
         SelectTimeout, ConnectGiveUp, ConnectFails, Return, frame, network
  <2>2. Rest' = Rest
    BY <2>1 DEF Rest
  <2>3. CopyFollows'
    BY <1>1, <2>1 DEF CopyFollows
  <2>4. QED
    BY <1>1, <2>1, <2>2, <2>3 DEF SecretInv, SecretHidden, client
<1>4. QED
  BY <1>2, <1>3

(* The server writes a packet, or ends the connection.                     *)
LEMMA PeerSecret ==
  ASSUME PromptsOnly, IInv, SecretInv, Peer, UNCHANGED client
  PROVE  SecretInv'
<1>1. /\ UNCHANGED struct /\ UNCHANGED frame /\ pc' = pc /\ rc' = rc
  BY DEF Peer, PeerSend, PeerClose
<1>2. buffer \in Seq(Byte) /\ inbox \in Seq(Byte)
  BY DEF IInv, TypeOK
<1>3. CASE PeerSend
  <2>1. PICK p \in Packets : inbox' = inbox \o p
    BY <1>3 DEF PeerSend
  <2>2. p \in Seq(Byte) /\ EndsInText("NORMAL", p)
    BY PacketsAssumption DEF PromptsOnly
  <2> DEFINE s == Rest
  <2>3. s \in Seq(Byte)
    BY <1>2 DEF Rest
  <2>4. Rest' = s \o p
    BY <1>1, <1>2, <2>1, <2>2 DEF Rest, frame
  <2>5. EndsInText(data_state, s)
    BY DEF SecretInv
  <2> HIDE DEF s
  <2>6. EndsInText(data_state, s \o p)
    BY <2>2, <2>3, <2>5, ReadMore
  <2>7. s # <<>> => s \o p # <<>>
    BY <2>2, <2>3
  <2>8. CopyFollows'
    BY <1>1, <2>4, <2>7 DEF SecretInv, CopyFollows, client, struct, frame, s
  <2>9. QED
    BY <1>1, <2>4, <2>6, <2>8 DEF SecretInv, SecretHidden, client, struct, frame
<1>4. CASE PeerClose
  <2>1. inbox' = inbox
    BY <1>4 DEF PeerClose
  <2>2. Rest' = Rest
    BY <1>1, <2>1 DEF Rest, frame
  <2>3. CopyFollows'
    BY <1>1, <2>2 DEF SecretInv, CopyFollows, client, struct, frame
  <2>4. QED
    BY <1>1, <2>2, <2>3 DEF SecretInv, SecretHidden, client, struct, frame
<1>5. QED
  BY <1>3, <1>4 DEF Peer

(* No step of the program or the server shows what is typed in password    *)
(* mode.                                                                   *)
LEMMA StepSecret == PromptsOnly /\ CInv /\ SecretInv /\ [ClientNext]_cvars => SecretInv'
<1> SUFFICES ASSUME PromptsOnly, CInv, SecretInv, [ClientNext]_cvars PROVE SecretInv'
  OBVIOUS
<1>1. IInv /\ StateAgrees /\ FreshStart /\ ControlAgrees /\ TypeOK
  BY DEF CInv, IInv
<1>2. /\ pc # "parse" => buffer = <<>>
      /\ EndsInText(data_state, Rest)
      /\ CopyFollows
      /\ calling = "connecting" => ~server_echo
      /\ SecretHidden
  BY DEF SecretInv
<1>3. CASE TelnetReady \/ HandleText
  <2>1. /\ UNCHANGED struct /\ UNCHANGED frame /\ UNCHANGED network
        /\ pc = "idle" /\ pc' = "recv" /\ exposed' = exposed /\ calling' = "handle"
        /\ \/ calling = "loop" /\ g_server_echo' = g_server_echo
           \/ g_server_echo' = server_echo
    BY <1>3 DEF TelnetReady, HandleText, ReceiveCall, EchoNow
  <2>2. Rest' = Rest
    BY <2>1 DEF Rest, frame, network
  <2>3. CopyFollows'
    BY <1>2, <2>1 DEF CopyFollows, struct
  <2>4. QED
    BY <1>2, <2>1, <2>2, <2>3 DEF SecretInv, SecretHidden, struct, frame
<1>4. CASE \/ HandleLost \/ HandleNothing \/ ConnectReturns
             \/ SubmitText \/ SubmitUnknown \/ CommandQuit
  <2>1. UNCHANGED vars /\ pc = "idle" /\ calling' = "loop" /\ CopyFollows' /\ SecretHidden'
    <3>1. CASE HandleLost
      <4>1. UNCHANGED vars /\ ~server_echo
        BY <1>1, <3>1 DEF HandleLost, ControlAgrees, StateAgrees, FreshStart
      <4>2. QED
        BY <1>2, <3>1, <4>1 DEF HandleLost, vars, CopyFollows, SecretHidden
    <3>2. CASE HandleNothing
      BY <1>2, <3>2 DEF HandleNothing, vars, CopyFollows, SecretHidden
    <3>3. CASE ConnectReturns
      BY <1>2, <3>3 DEF ConnectReturns, vars, CopyFollows, SecretHidden
    <3>4. CASE CommandQuit
      BY <1>1, <1>2, <3>4 DEF CommandQuit, vars, CopyFollows, SecretHidden, ControlAgrees
    <3>5. CASE SubmitText \/ SubmitUnknown
      <4>1. /\ UNCHANGED vars /\ UNCHANGED <<g_server_echo, calling>> /\ calling = "loop"
            /\ Shows(RecordedIn \cup EchoedIn) \/ Shows(RecordedIn \cup {"message"})
        BY <3>5 DEF SubmitText, SubmitUnknown
      <4>2. server_echo => g_server_echo
        BY <1>2, <4>1 DEF CopyFollows
      <4>3. SecretHidden'
        BY <1>2, <4>1, <4>2 DEF Shows, RecordedIn, EchoedIn, SecretHidden
      <4>4. QED
        BY <1>1, <4>1, <4>2, <4>3 DEF vars, CopyFollows, ControlAgrees
    <3>6. QED
      BY <1>4, <3>1, <3>2, <3>3, <3>4, <3>5
  <2>2. Rest' = Rest
    BY <2>1 DEF Rest, vars
  <2>3. QED
    BY <1>2, <2>1, <2>2 DEF SecretInv, vars
<1>5. CASE CommandDisconnect
  <2>1. /\ CloseConnection /\ UNCHANGED frame /\ pc = "idle" /\ pc' = "idle"
        /\ exposed' = exposed
    BY <1>5 DEF CommandDisconnect, Disconnect
  <2>2. QED
    BY <1>1, <2>1, FreshSecret DEF CloseConnection, ResetProtocol, frame
<1>6. CASE CommandConnect \/ Exit
  <2>1. /\ \/ CloseConnection /\ UNCHANGED frame /\ pc = "idle" /\ pc' = "idle"
           \/ UNCHANGED vars
        /\ exposed' = exposed /\ calling = "loop" /\ calling' # "connecting"
        /\ g_server_echo' = g_server_echo
    BY <1>6 DEF CommandConnect, DisconnectFirst, Exit, Cleanup, Disconnect
  <2>2. CASE CloseConnection /\ UNCHANGED frame /\ pc = "idle" /\ pc' = "idle"
    BY <1>1, <2>1, <2>2, FreshSecret DEF CloseConnection, ResetProtocol, frame
  <2>3. CASE UNCHANGED vars
    <3>1. Rest' = Rest
      BY <2>3 DEF Rest, vars
    <3>2. CopyFollows'
      BY <1>2, <2>1, <2>3 DEF CopyFollows, vars
    <3>3. QED
      BY <1>2, <2>1, <2>3, <3>1, <3>2 DEF SecretInv, SecretHidden, vars
  <2>4. QED
    BY <2>1, <2>2, <2>3
<1>7. CASE CallConnect
  <2>1. ~server_echo
    BY <1>1, <1>7 DEF CallConnect, ControlAgrees, StateAgrees, FreshStart
  <2>2. /\ buffer' = buffer /\ inbox' = inbox /\ server_echo' = server_echo
        /\ data_state' = data_state /\ exposed' = exposed /\ pc = "idle" /\ pc' # "parse"
    BY <1>7 DEF CallConnect, ConnectCall, Return, network
  <2>3. Rest' = Rest
    BY <2>2 DEF Rest
  <2>4. QED
    BY <1>2, <2>1, <2>2, <2>3 DEF SecretInv, SecretHidden, CopyFollows
<1>8. CASE Running
  <2>1. CASE ConnectStep
    BY <1>1, <1>8, <2>1, ConnectSecret DEF Running
  <2>2. CASE ReceiveStep
    <3>1. pc \in {"recv", "parse"}
      BY <2>2 DEF ReceiveStep, RecvData, RecvNothing, RecvLost, ParseByte, ParseDone
    <3>2. calling = "handle"
      BY <1>1, <3>1 DEF CInv, ControlAgrees, ClientTypeOK
    <3>3. QED
      BY <1>1, <1>8, <2>2, <3>2, ReceiveSecret DEF Running
  <2>3. QED
    BY <1>8, <2>1, <2>2 DEF Running
<1>9. CASE Server
  BY <1>1, <1>9, PeerSecret DEF Server
<1>10. CASE UNCHANGED cvars
  <2>1. Rest' = Rest
    BY <1>10 DEF Rest, cvars, vars
  <2>2. CopyFollows'
    BY <1>2, <1>10, <2>1 DEF CopyFollows, cvars, vars, client
  <2>3. QED
    BY <1>2, <1>10, <2>1, <2>2 DEF SecretInv, SecretHidden, cvars, vars, client
<1>11. QED
  BY <1>3, <1>4, <1>5, <1>6, <1>7, <1>8, <1>9, <1>10 DEF ClientNext, Handle, Submit

(* What the user types while the server has its echo turned on is neither  *)
(* remembered nor shown, however recv() cuts what the server writes and    *)
(* wherever a connection is lost, replaced or ended: as long as text comes *)
(* behind every option the server writes in one piece.                     *)
THEOREM SecretAlwaysHidden ==
  ASSUME PromptsOnly
  PROVE  ClientSpec => []SecretHidden
<1>1. ClientInit => CInv /\ SecretInv
  BY InitCInv, InitSecret
<1>2. (CInv /\ SecretInv) /\ [ClientNext]_cvars => (CInv /\ SecretInv)'
  BY StepCInv, StepSecret
<1>3. CInv /\ SecretInv => SecretHidden
  BY DEF SecretInv
<1>4. QED
  BY <1>1, <1>2, <1>3, PTL DEF ClientSpec
=============================================================================
