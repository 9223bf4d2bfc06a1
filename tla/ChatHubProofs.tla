---------------------------- MODULE ChatHubProofs ----------------------------
(***************************************************************************)
(* Proofs about the chat hub, for any number of connections, orders and    *)
(* messages and any size of the buffers.                                   *)
(*                                                                         *)
(* First: nobody sends on a closed channel.  The reason is the hub's lock: *)
(* while a broadcast is inside, nobody leaves a room, and a channel is     *)
(* closed only when its connection leaves.                                 *)
(***************************************************************************)
EXTENDS ChatHub, SequenceTheorems, TLAPS

Broadcasting == {"sending", "notifying"}
HandingOn == {"broadcast", "sending", "notify", "notifying"}

(* A reader that is handing a message on has one. *)
HasMessage ==
  \A c \in Conns : pc[c] \in HandingOn => c \in Clients /\ current[c] \in Messages

(* Whom a broadcast has yet to come to is still in its room. *)
TargetsAreMembers ==
  \A c \in Conns : /\ targets[c] # {} => pc[c] \in Broadcasting
                   /\ \A d \in targets[c] : Registered(d)

(* Who is in a room is between Register and Unregister, in its own room. *)
MembersAreConnected ==
  /\ \A c \in Conns : Registered(c) => pc[c] \notin {"away", "register", "closing", "gone"}
  /\ \A o \in Orders : \A c \in rooms[o] : Room[c] = o

(* A channel is closed by the Unregister of its connection. *)
ClosedHaveLeft == \A c \in closed : pc[c] \in {"closing", "gone"}

IInv == TypeOK /\ HasMessage /\ TargetsAreMembers /\ MembersAreConnected /\ ClosedHaveLeft

(* The invariant implies the property: members are not closed. *)
LEMMA Safe ==
  ASSUME IInv PROVE NoSendAfterClose
<1>1. \A c \in Conns : Registered(c) => c \notin closed
  BY DEF IInv, MembersAreConnected, ClosedHaveLeft
<1>2. \A c \in Conns : targets[c] \subseteq Conns
  BY DEF IInv, TypeOK
<1>3. \A c \in Conns : targets[c] \cap closed = {}
  BY <1>1, <1>2 DEF IInv, TargetsAreMembers
<1>4. \A c \in Conns : At(c, "unregister") => c \notin closed
  BY DEF IInv, ClosedHaveLeft, At
<1> QED BY <1>1, <1>3, <1>4 DEF NoSendAfterClose

(* A reader moves from one pc to another; nothing else changes that the      *)
(* invariant relates to the pc.                                              *)
LEMMA MoveStep ==
  ASSUME IInv, NEW c \in Conns, NEW p \in PCs, Goto(c, p),
         UNCHANGED <<hub, closed, targets, current>>,
         p \in HandingOn => pc[c] \in HandingOn,
         targets[c] # {} => p \in Broadcasting,
         Registered(c) => p \notin {"away", "register", "closing", "gone"},
         c \in closed => p \in {"closing", "gone"}
  PROVE  /\ pc' \in [Conns -> PCs]
         /\ HasMessage' /\ TargetsAreMembers' /\ MembersAreConnected' /\ ClosedHaveLeft'
<1>1. pc' \in [Conns -> PCs] /\ \A d \in Conns : pc'[d] = IF d = c THEN p ELSE pc[d]
  BY DEF IInv, TypeOK, Goto
<1>2. UNCHANGED <<rooms, admins, closed, targets, current>>
  BY DEF hub
<1>3. \A d \in Conns : Registered(d)' = Registered(d)
  BY <1>2 DEF Registered
<1>4. HasMessage'
  BY <1>1, <1>2 DEF IInv, HasMessage
<1>5. TargetsAreMembers'
  BY <1>1, <1>2, <1>3 DEF IInv, TypeOK, TargetsAreMembers
<1>6. MembersAreConnected'
  BY <1>1, <1>2, <1>3 DEF IInv, MembersAreConnected
<1>7. ClosedHaveLeft'
  BY <1>1, <1>2 DEF IInv, TypeOK, ClosedHaveLeft
<1> QED BY <1>1, <1>4, <1>5, <1>6, <1>7

(* What a broadcast reads under the lock: every member is registered. *)
LEMMA Members ==
  ASSUME IInv
  PROVE  /\ \A o \in Orders : \A d \in rooms[o] : d \in Conns /\ Registered(d)
         /\ \A d \in admins : d \in Conns /\ Registered(d)
  BY ChatHubAssumption DEF IInv, TypeOK, MembersAreConnected, Registered, Conns, ChatHubAssumption

(* A broadcast starts with the members of its room, or the admins. *)
LEMMA BeginStep ==
  ASSUME IInv, NEW c \in Conns, BeginBroadcast(c) \/ BeginNotify(c) PROVE IInv'
<1> DEFINE Starts(p, T) == /\ pc[c] \in HandingOn /\ Goto(c, p)
                           /\ targets' = [targets EXCEPT ![c] = T]
                           /\ \A d \in T : Registered(d)
<1>1. PICK p \in Broadcasting, T \in SUBSET Conns : Starts(p, T)
  <2>1. CASE BeginBroadcast(c)
    <3>1. pc[c] = "broadcast" /\ c \in Clients
      BY <2>1 DEF BeginBroadcast, At, IInv, HasMessage, HandingOn
    <3>2. Room[c] \in Orders
      BY <3>1, ChatHubAssumption DEF ChatHubAssumption
    <3>3. rooms[Room[c]] \in SUBSET Conns /\ "sending" \in Broadcasting
      BY <3>2, Members DEF Broadcasting
    <3>4. Starts("sending", rooms[Room[c]])
      BY <2>1, <3>1, <3>2, Members DEF BeginBroadcast, HandingOn
    <3> QED BY <3>3, <3>4
  <2>2. CASE BeginNotify(c)
    <3>1. admins \in SUBSET Conns /\ "notifying" \in Broadcasting
      BY Members DEF Broadcasting
    <3>2. Starts("notifying", admins)
      BY <2>2, Members DEF BeginNotify, At, HandingOn
    <3> QED BY <3>1, <3>2
  <2> QED BY <2>1, <2>2
<1>2. UNCHANGED <<writer, rooms, admins, send, closed, stored, current, received, history,
                  caughtUp, missed>>
  BY DEF BeginBroadcast, BeginNotify, hub, channels, http
<1>3. /\ pc' \in [Conns -> PCs] /\ \A d \in Conns : pc'[d] = IF d = c THEN p ELSE pc[d]
      /\ targets' \in [Conns -> SUBSET Conns]
      /\ \A d \in Conns : targets'[d] = IF d = c THEN T ELSE targets[d]
  BY <1>1 DEF IInv, TypeOK, Goto, PCs, Broadcasting
<1>4. \A d \in Conns : Registered(d)' = Registered(d)
  BY <1>2 DEF Registered
<1>5. TypeOK'
  BY <1>2, <1>3 DEF IInv, TypeOK
<1>6. HasMessage'
  BY <1>1, <1>2, <1>3 DEF IInv, HasMessage
<1>7. TargetsAreMembers'
  BY <1>1, <1>3, <1>4 DEF IInv, TypeOK, TargetsAreMembers
<1>8. MembersAreConnected'
  BY <1>1, <1>2, <1>3, <1>4 DEF IInv, MembersAreConnected, Broadcasting
<1>9. ClosedHaveLeft'
  BY <1>1, <1>2, <1>3 DEF IInv, TypeOK, ClosedHaveLeft, HandingOn
<1> QED BY <1>5, <1>6, <1>7, <1>8, <1>9 DEF IInv

(* A broadcast sends to one member, or drops the message. *)
LEMMA SendToStep ==
  ASSUME IInv, NEW c \in Conns, NEW d \in Conns, SendTo(c, d) PROVE IInv'
<1>1. UNCHANGED <<pc, writer, rooms, admins, closed, stored, current, received, history, caughtUp>>
  BY DEF SendTo, hub, http
<1>2. current[c] \in Messages
  BY DEF SendTo, IInv, HasMessage, HandingOn
<1>3. /\ targets' \in [Conns -> SUBSET Conns]
      /\ \A e \in Conns : targets'[e] \subseteq targets[e]
  BY DEF SendTo, IInv, TypeOK
<1>4. send' \in [Conns -> Seq(Messages)] /\ \A e \in Conns : Len(send'[e]) <= BufferSize
  <2>1. CASE Len(send[d]) < BufferSize
    <3>1. send[d] \in Seq(Messages) /\ BufferSize \in Nat
      BY ChatHubAssumption DEF IInv, TypeOK, ChatHubAssumption
    <3>2. Append(send[d], current[c]) \in Seq(Messages)
          /\ Len(Append(send[d], current[c])) = Len(send[d]) + 1 /\ Len(send[d]) \in Nat
      BY <1>2, <3>1
    <3>3. send' = [send EXCEPT ![d] = Append(send[d], current[c])]
      BY <2>1 DEF SendTo
    <3>4. \A e \in Conns : send'[e] = IF e = d THEN Append(send[d], current[c]) ELSE send[e]
      BY <3>3 DEF IInv, TypeOK
    <3>5. Len(Append(send[d], current[c])) <= BufferSize
      BY <2>1, <3>1, <3>2
    <3>6. send' \in [Conns -> Seq(Messages)]
      BY <3>2, <3>3 DEF IInv, TypeOK
    <3> QED BY <3>4, <3>5, <3>6 DEF IInv, TypeOK
  <2>2. CASE ~(Len(send[d]) < BufferSize)
    BY <2>2 DEF SendTo, IInv, TypeOK
  <2> QED BY <2>1, <2>2
<1>5. missed' \subseteq Conns \X Messages
  BY <1>2 DEF SendTo, IInv, TypeOK
<1>6. TypeOK'
  BY <1>1, <1>3, <1>4, <1>5 DEF IInv, TypeOK
<1>7. \A e \in Conns : Registered(e)' = Registered(e)
  BY <1>1 DEF Registered
<1>8. TargetsAreMembers'
  BY <1>1, <1>3, <1>7 DEF IInv, TypeOK, TargetsAreMembers
<1>9. HasMessage' /\ MembersAreConnected' /\ ClosedHaveLeft'
  BY <1>1, <1>7 DEF IInv, HasMessage, MembersAreConnected, ClosedHaveLeft
<1> QED BY <1>6, <1>8, <1>9 DEF IInv

(* Register and RegisterAdmin: who was outside comes in, with an open channel. *)
LEMMA RegisterStep ==
  ASSUME IInv, NEW c \in Conns, Register(c) \/ RegisterAdmin(c) PROVE IInv'
<1>1. /\ pc[c] = "register" /\ Goto(c, "reading") /\ writer' = [writer EXCEPT ![c] = "running"]
      /\ UNCHANGED <<send, closed, targets, stored, current, received, history, caughtUp, missed>>
  BY DEF Register, RegisterAdmin, At, channels, http
<1>2. pc' \in [Conns -> PCs] /\ \A d \in Conns : pc'[d] = IF d = c THEN "reading" ELSE pc[d]
  BY <1>1 DEF IInv, TypeOK, Goto, PCs
<1>3. /\ rooms' \in [Orders -> SUBSET Clients] /\ admins' \subseteq Admins
      /\ \A o \in Orders : \A d \in rooms'[o] : Room[d] = o
      /\ \A d \in Conns : d # c => Registered(d)' = Registered(d)
  <2>1. ASSUME Register(c)
        PROVE  /\ rooms' \in [Orders -> SUBSET Clients] /\ admins' \subseteq Admins
               /\ \A o \in Orders : \A d \in rooms'[o] : Room[d] = o
               /\ \A d \in Conns : d # c => Registered(d)' = Registered(d)
    <3>1. c \in Clients /\ Room[c] \in Orders
      BY <2>1, ChatHubAssumption DEF Register, ChatHubAssumption
    <3>2. /\ rooms' \in [Orders -> SUBSET Clients] /\ admins' = admins
          /\ \A o \in Orders : rooms'[o] = IF o = Room[c] THEN rooms[o] \cup {c} ELSE rooms[o]
      BY <2>1, <3>1 DEF Register, IInv, TypeOK
    <3>3. \A d \in Conns : d # c => Registered(d)' = Registered(d)
      BY <3>2, ChatHubAssumption DEF Registered, Conns, ChatHubAssumption
    <3>4. \A o \in Orders : \A d \in rooms'[o] : Room[d] = o
      BY <3>2 DEF IInv, MembersAreConnected
    <3>5. admins' \subseteq Admins
      BY <3>2 DEF IInv, TypeOK
    <3> QED BY <3>2, <3>3, <3>4, <3>5
  <2>2. ASSUME RegisterAdmin(c)
        PROVE  /\ rooms' \in [Orders -> SUBSET Clients] /\ admins' \subseteq Admins
               /\ \A o \in Orders : \A d \in rooms'[o] : Room[d] = o
               /\ \A d \in Conns : d # c => Registered(d)' = Registered(d)
    BY <2>2 DEF RegisterAdmin, Registered, IInv, TypeOK, MembersAreConnected
  <2> QED BY <2>1, <2>2
<1>4. TypeOK'
  BY <1>1, <1>2, <1>3 DEF IInv, TypeOK
<1>5. c \notin closed /\ targets[c] = {} /\ ~Registered(c)
  BY <1>1 DEF IInv, ClosedHaveLeft, TargetsAreMembers, MembersAreConnected, Broadcasting
<1>6. HasMessage' /\ ClosedHaveLeft'
  BY <1>1, <1>2, <1>5 DEF IInv, TypeOK, HasMessage, HandingOn, ClosedHaveLeft
<1>7. TargetsAreMembers'
  BY <1>1, <1>2, <1>3, <1>5 DEF IInv, TypeOK, TargetsAreMembers
<1>8. MembersAreConnected'
  BY <1>2, <1>3 DEF IInv, MembersAreConnected
<1> QED BY <1>4, <1>6, <1>7, <1>8 DEF IInv

(* Unregister and UnregisterAdmin: the lock is free, so no broadcast has     *)
(* anybody left to come to, and whoever leaves is in no room afterwards.     *)
LEMMA UnregisterStep ==
  ASSUME IInv, NEW c \in Conns, Unregister(c) \/ UnregisterAdmin(c) PROVE IInv'
<1>1. /\ pc[c] = "unregister" /\ Goto(c, "closing") /\ MayLock /\ closed' \subseteq closed \cup {c}
      /\ UNCHANGED <<writer, send, targets, stored, current, received, history, caughtUp, missed>>
  BY DEF Unregister, UnregisterAdmin, At, http
<1>2. pc' \in [Conns -> PCs] /\ \A d \in Conns : pc'[d] = IF d = c THEN "closing" ELSE pc[d]
  BY <1>1 DEF IInv, TypeOK, Goto, PCs
<1>3. /\ rooms' \in [Orders -> SUBSET Clients] /\ admins' \subseteq Admins
      /\ \A o \in Orders : \A d \in rooms'[o] : Room[d] = o
      /\ \A d \in Conns : Registered(d)' => Registered(d) /\ d # c
  <2>1. ASSUME Unregister(c)
        PROVE  /\ rooms' \in [Orders -> SUBSET Clients] /\ admins' \subseteq Admins
               /\ \A o \in Orders : \A d \in rooms'[o] : Room[d] = o
               /\ \A d \in Conns : Registered(d)' => Registered(d) /\ d # c
    <3>1. c \in Clients /\ c \notin Admins /\ Room[c] \in Orders
      BY <2>1, ChatHubAssumption DEF Unregister, ChatHubAssumption
    <3>2. /\ rooms' \in [Orders -> SUBSET Clients] /\ admins' = admins
          /\ \A o \in Orders : rooms'[o] = IF o = Room[c] THEN rooms[o] \ {c} ELSE rooms[o]
      BY <2>1, <3>1 DEF Unregister, IInv, TypeOK
    <3>3. \A d \in Conns : Registered(d)' => Registered(d) /\ d # c
      BY <3>1, <3>2, ChatHubAssumption DEF Registered, Conns, ChatHubAssumption
    <3> QED BY <3>2, <3>3 DEF IInv, TypeOK, MembersAreConnected
  <2>2. ASSUME UnregisterAdmin(c)
        PROVE  /\ rooms' \in [Orders -> SUBSET Clients] /\ admins' \subseteq Admins
               /\ \A o \in Orders : \A d \in rooms'[o] : Room[d] = o
               /\ \A d \in Conns : Registered(d)' => Registered(d) /\ d # c
    BY <2>2 DEF UnregisterAdmin, Registered, IInv, TypeOK, MembersAreConnected
  <2> QED BY <2>1, <2>2
<1>4. TypeOK'
  BY <1>1, <1>2, <1>3 DEF IInv, TypeOK
<1>5. \A d \in Conns : targets[d] = {}
  BY <1>1 DEF IInv, TargetsAreMembers, MayLock, Broadcasting
<1>6. HasMessage' /\ TargetsAreMembers' /\ ClosedHaveLeft'
  BY <1>1, <1>2, <1>5 DEF IInv, TypeOK, HasMessage, HandingOn, TargetsAreMembers, ClosedHaveLeft
<1>7. MembersAreConnected'
  BY <1>2, <1>3 DEF IInv, MembersAreConnected
<1> QED BY <1>4, <1>6, <1>7 DEF IInv

(* A message comes in and is stored. *)
LEMMA ReceiveStep ==
  ASSUME IInv, NEW c \in Conns, Receive(c) PROVE IInv'
<1>1. /\ c \in Clients /\ pc[c] = "reading" /\ Goto(c, "broadcast")
      /\ stored' = Append(stored, c) /\ Len(stored) < MaxMessages
      /\ current' = [current EXCEPT ![c] = Len(stored) + 1]
      /\ UNCHANGED <<writer, rooms, admins, send, closed, targets, received, history,
                     caughtUp, missed>>
  BY DEF Receive, At, hub, channels, http
<1>2. pc' \in [Conns -> PCs] /\ \A d \in Conns : pc'[d] = IF d = c THEN "broadcast" ELSE pc[d]
  BY <1>1 DEF IInv, TypeOK, Goto, PCs
<1>3. /\ stored \in Seq(Clients) /\ Len(stored) \in Nat /\ MaxMessages \in Nat
      /\ stored' \in Seq(Clients) /\ Len(stored') = Len(stored) + 1
  BY <1>1, ChatHubAssumption DEF IInv, TypeOK, ChatHubAssumption
<1>4. Len(stored) + 1 \in Messages /\ Len(stored) + 1 \in 0 .. MaxMessages
      /\ Len(stored') <= MaxMessages
  BY <1>1, <1>3 DEF Messages
<1>5. /\ current' \in [Conns -> 0 .. MaxMessages]
      /\ \A d \in Conns : current'[d] = IF d = c THEN Len(stored) + 1 ELSE current[d]
  BY <1>1, <1>4 DEF IInv, TypeOK
<1>6. TypeOK'
  BY <1>1, <1>2, <1>3, <1>4, <1>5 DEF IInv, TypeOK
<1>7. HasMessage'
  BY <1>1, <1>2, <1>4, <1>5 DEF IInv, HasMessage
<1>8. \A d \in Conns : Registered(d)' = Registered(d)
  BY <1>1 DEF Registered
<1>9. TargetsAreMembers' /\ MembersAreConnected' /\ ClosedHaveLeft'
  BY <1>1, <1>2, <1>8 DEF IInv, TypeOK, TargetsAreMembers, MembersAreConnected, ClosedHaveLeft,
     Broadcasting
<1> QED BY <1>6, <1>7, <1>9 DEF IInv

(* Steps of a reader that only move it on. *)
LEMMA QuietReaderStep ==
  ASSUME IInv, NEW c \in Conns,
         Connect(c) \/ EndBroadcast(c) \/ EndNotify(c) \/ Disconnect(c) \/ CloseConn(c)
  PROVE  IInv'
<1>1. UNCHANGED <<writer, rooms, admins, send, closed, targets, stored, current, received,
                  history, caughtUp, missed>>
  BY DEF Connect, EndBroadcast, EndNotify, Disconnect, CloseConn, hub, channels, http
<1>2. PICK p \in PCs :
        /\ Goto(c, p)
        /\ p \in HandingOn => pc[c] \in HandingOn
        /\ targets[c] # {} => p \in Broadcasting
        /\ Registered(c) => p \notin {"away", "register", "closing", "gone"}
        /\ c \in closed => p \in {"closing", "gone"}
  BY DEF Connect, EndBroadcast, EndNotify, Disconnect, CloseConn, At, PCs, HandingOn,
     Broadcasting, IInv, TargetsAreMembers, MembersAreConnected, ClosedHaveLeft
<1>3. /\ pc' \in [Conns -> PCs]
      /\ HasMessage' /\ TargetsAreMembers' /\ MembersAreConnected' /\ ClosedHaveLeft'
  BY <1>1, <1>2, MoveStep DEF hub
<1>4. TypeOK'
  BY <1>1, <1>3 DEF IInv, TypeOK
<1> QED BY <1>3, <1>4 DEF IInv

(* Steps that leave pc, the rooms, the targets and the closed channels alone. *)
LEMMA SideStep ==
  ASSUME IInv, TypeOK', UNCHANGED <<pc, hub, closed, targets, current>> PROVE IInv'
<1>1. \A d \in Conns : Registered(d)' = Registered(d)
  BY DEF Registered, hub
<1> QED BY <1>1 DEF IInv, TypeOK, hub, HasMessage, TargetsAreMembers,
                   MembersAreConnected, ClosedHaveLeft

(* The peer fetches the history. *)
LEMMA FetchHistoryStep ==
  ASSUME IInv, NEW c \in Conns, FetchHistory(c) PROVE IInv'
<1>1. Len(stored) \in 0 .. MaxMessages /\ c \in Clients
  <2>1. stored \in Seq(Clients) /\ Len(stored) <= MaxMessages /\ MaxMessages \in Nat
    BY ChatHubAssumption DEF IInv, TypeOK, ChatHubAssumption
  <2>2. c \in Clients
    BY ChatHubAssumption DEF FetchHistory, ChatHubAssumption
  <2> QED BY <2>1, <2>2
<1>2. history' \in [Clients -> 0 .. MaxMessages] /\ caughtUp' \subseteq Clients
  BY <1>1 DEF FetchHistory, IInv, TypeOK
<1>3. TypeOK'
  BY <1>2 DEF FetchHistory, IInv, TypeOK, hub, channels
<1> QED BY <1>3, SideStep DEF FetchHistory, channels

(* The writer goroutine takes a message off the channel, or ends. *)
LEMMA WriterStep ==
  ASSUME IInv, NEW c \in Conns, Writer(c) PROVE IInv'
<1>1. UNCHANGED <<pc, rooms, admins, closed, targets, stored, current, history, caughtUp,
                  missed>>
  BY DEF Writer, Write, WriteFails, WriterEnds, hub, channels, http
<1>2. writer' \in [Conns -> {"none", "running", "done"}]
  BY DEF Writer, Write, WriteFails, WriterEnds, IInv, TypeOK
<1>3. send[c] \in Seq(Messages) /\ received[c] \in Seq(Messages) /\ BufferSize \in Nat
      /\ Len(send[c]) \in Nat /\ Len(send[c]) <= BufferSize
  BY ChatHubAssumption DEF IInv, TypeOK, ChatHubAssumption
<1>4. send[c] # <<>> => /\ Tail(send[c]) \in Seq(Messages) /\ Head(send[c]) \in Messages
                        /\ Len(Tail(send[c])) = Len(send[c]) - 1
  BY <1>3
<1>5. send[c] # <<>> => Len(Tail(send[c])) <= BufferSize
  BY <1>3, <1>4
<1>6. send[c] # <<>> => Append(received[c], Head(send[c])) \in Seq(Messages)
  BY <1>3, <1>4
<1>7. send' \in [Conns -> Seq(Messages)] /\ \A d \in Conns : Len(send'[d]) <= BufferSize
  <2>1. CASE send' = [send EXCEPT ![c] = Tail(send[c])] /\ send[c] # <<>>
    <3>1. \A d \in Conns : send'[d] = IF d = c THEN Tail(send[c]) ELSE send[d]
      BY <2>1 DEF IInv, TypeOK
    <3> QED BY <1>4, <1>5, <2>1, <3>1 DEF IInv, TypeOK
  <2>2. CASE send' = send
    BY <2>2 DEF IInv, TypeOK
  <2> QED BY <2>1, <2>2 DEF Writer, Write, WriteFails, WriterEnds, channels
<1>8. received' \in [Conns -> Seq(Messages)]
  BY <1>6 DEF Writer, Write, WriteFails, WriterEnds, IInv, TypeOK
<1>9. TypeOK'
  BY <1>1, <1>2, <1>7, <1>8 DEF IInv, TypeOK
<1> QED BY <1>1, <1>9, SideStep DEF hub

-----------------------------------------------------------------------------
(* Nobody is connected at first. *)
LEMMA InitIInv == Init => IInv
<1> SUFFICES ASSUME Init PROVE IInv
  OBVIOUS
<1>1. TypeOK
  <2>1. 0 \in 0 .. MaxMessages /\ 0 <= BufferSize
    BY ChatHubAssumption DEF ChatHubAssumption
  <2>2. Len(<<>>) = 0 /\ <<>> \in Seq(Messages) /\ <<>> \in Seq(Clients)
    OBVIOUS
  <2>3. 0 <= MaxMessages
    BY ChatHubAssumption DEF ChatHubAssumption
  <2> QED BY <2>1, <2>2, <2>3 DEF Init, TypeOK, PCs
<1>2. \A c \in Conns : ~Registered(c)
  BY ChatHubAssumption DEF Init, Registered, Conns, ChatHubAssumption
<1> QED BY <1>1, <1>2 DEF Init, IInv, HasMessage, HandingOn, TargetsAreMembers,
           MembersAreConnected, ClosedHaveLeft

(* Every step of a reader, a peer or a writer preserves the invariant. *)
LEMMA NextIInv == IInv /\ [Next]_vars => IInv'
<1> SUFFICES ASSUME IInv, [Next]_vars PROVE IInv'
  OBVIOUS
<1>1. ASSUME NEW c \in Conns, Reader(c) PROVE IInv'
  BY <1>1, RegisterStep, UnregisterStep, BeginStep, SendToStep, QuietReaderStep DEF Reader
<1>2. ASSUME NEW c \in Conns, Peer(c) PROVE IInv'
  BY <1>2, ReceiveStep, QuietReaderStep, FetchHistoryStep DEF Peer
<1>3. CASE UNCHANGED vars
  <2>1. TypeOK'
    BY <1>3 DEF vars, hub, channels, http, IInv, TypeOK
  <2> QED BY <1>3, <2>1, SideStep DEF vars, channels
<1> QED BY <1>1, <1>2, <1>3, WriterStep DEF Next

(* The inductive invariant holds in every reachable state. *)
THEOREM InductiveInvariant == Spec => []IInv
  BY InitIInv, NextIInv, PTL DEF Spec

(* The variables keep their types; a buffer never holds more than it can. *)
THEOREM TypeCorrect == Spec => []TypeOK
<1>1. IInv => TypeOK
  BY DEF IInv
<1> QED BY <1>1, InductiveInvariant, PTL

(* No broadcast sends on a closed channel and no channel is closed twice. *)
THEOREM ClosedChannelsStaySilent == Spec => []NoSendAfterClose
<1>1. IInv => NoSendAfterClose
  BY Safe
<1> QED BY <1>1, InductiveInvariant, PTL

-----------------------------------------------------------------------------
(***************************************************************************)
(* What the hub delivers: only what belongs to the room and in order       *)
(* (DeliveryIsSound), and all of it to a client that fetched the history   *)
(* once it was in the room (NothingMissed).                                *)
(*                                                                         *)
(* The argument follows one message from the reader that stored it to each *)
(* connection it is meant for.  Until the broadcast has come to a          *)
(* connection, that connection has only older messages of the same sender  *)
(* (NotYetSent): a reader hands on one message at a time, so its messages  *)
(* cannot overtake each other, whatever the other readers do.              *)
(***************************************************************************)

(* A reader hands on the message it has stored itself. *)
HandsOnItsOwn ==
  \A c \in Conns : pc[c] \in HandingOn =>
    current[c] \in 1 .. Len(stored) /\ stored[current[c]] = c

(* A broadcast goes to the sender's room, a notification to admins, and only  *)
(* traders' messages are notified.                                          *)
TargetsFit ==
  \A c \in Conns :
    /\ pc[c] = "sending" => \A d \in targets[c] : d \notin Admins /\ Room[d] = Room[c]
    /\ pc[c] = "notifying" => targets[c] \subseteq Admins
    /\ pc[c] \in {"notify", "notifying"} => c \in Traders

(* The message c is handing on has not come to d yet. *)
Unsent(c, d) ==
  \/ pc[c] = "broadcast"
  \/ pc[c] \in Broadcasting /\ d \in targets[c]
  \/ pc[c] \in {"sending", "notify"} /\ d \in Admins

NotYetSent ==
  \A c, d \in Conns : Unsent(c, d) =>
    \A i \in 1 .. Len(Delivered(d)) : stored[Delivered(d)[i]] = c => Delivered(d)[i] < current[c]

DeliveryInv == HandsOnItsOwn /\ TargetsFit /\ NotYetSent /\ DeliveryIsSound

(* A connection is used once, so who is caught up has been in the room.     *)
CaughtUpHaveJoined == \A c \in caughtUp : pc[c] \notin {"away", "register"}

-----------------------------------------------------------------------------
(* Sequences of deliveries *)

(* What DeliveryIsSound says of one connection, for any sequence q *)
SoundFor(c, q) ==
  /\ \A i \in 1 .. Len(q) :
       /\ q[i] <= Len(stored)
       /\ IF c \in Admins THEN stored[q[i]] \in Traders ELSE Room[stored[q[i]]] = Room[c]
  /\ \A i, j \in 1 .. Len(q) : i < j /\ stored[q[i]] = stored[q[j]] => q[i] < q[j]

(* All of the messages of sender s in q are older than m. *)
OlderIn(q, s, m) == \A i \in 1 .. Len(q) : stored[q[i]] = s => q[i] < m

(* Sending one more message, writing one, losing one *)
LEMMA Sequences ==
  ASSUME NEW S, NEW r \in Seq(S), NEW s \in Seq(S), NEW x \in S
  PROVE  /\ r \o s \in Seq(S) /\ Len(r \o s) = Len(r) + Len(s)
         /\ r \o Append(s, x) = Append(r \o s, x)
         /\ s # <<>> => Append(r, Head(s)) \o Tail(s) = r \o s
<1>1. r \o s \in Seq(S) /\ Len(r \o s) = Len(r) + Len(s)
  OBVIOUS
<1>2. r \o Append(s, x) = Append(r \o s, x)
  OBVIOUS
<1>3. s # <<>> => Append(r, Head(s)) \o Tail(s) = r \o s
  OBVIOUS
<1> QED BY <1>1, <1>2, <1>3

(* A sequence without one of its elements: where the others are *)
LEMMA Dropped ==
  ASSUME NEW S, NEW r \in Seq(S), NEW s \in Seq(S), s # <<>>
  PROVE  /\ r \o Tail(s) \in Seq(S) /\ Len(r \o Tail(s)) = Len(r \o s) - 1
         /\ \A i \in 1 .. Len(r \o Tail(s)) :
              (r \o Tail(s))[i] = (r \o s)[IF i <= Len(r) THEN i ELSE i + 1]
<1>1. /\ Tail(s) \in Seq(S) /\ Len(Tail(s)) = Len(s) - 1 /\ Len(s) \in Nat /\ Len(r) \in Nat
      /\ \A i \in 1 .. Len(Tail(s)) : Tail(s)[i] = s[i + 1]
  OBVIOUS
<1>2. \A t \in Seq(S) : /\ r \o t \in Seq(S) /\ Len(r \o t) = Len(r) + Len(t)
                        /\ \A i \in 1 .. Len(r) + Len(t) :
                             (r \o t)[i] = IF i <= Len(r) THEN r[i] ELSE t[i - Len(r)]
  OBVIOUS
<1>3. r \o Tail(s) \in Seq(S) /\ Len(r \o Tail(s)) = Len(r \o s) - 1
  BY <1>1, <1>2
<1>4. ASSUME NEW i \in 1 .. Len(r \o Tail(s))
      PROVE  (r \o Tail(s))[i] = (r \o s)[IF i <= Len(r) THEN i ELSE i + 1]
  <2>1. i \in 1 .. Len(r) + Len(Tail(s)) /\ i \in Int
    BY <1>1, <1>2, <1>4
  <2>2. CASE i <= Len(r)
    <3>1. (r \o Tail(s))[i] = r[i]
      BY <1>1, <1>2, <2>1, <2>2
    <3>2. i \in 1 .. Len(r) + Len(s)
      BY <1>1, <2>1
    <3> QED BY <1>2, <2>2, <3>1, <3>2
  <2>3. CASE ~(i <= Len(r))
    <3>1. (r \o Tail(s))[i] = Tail(s)[i - Len(r)]
      BY <1>1, <1>2, <2>1, <2>3
    <3>2. i - Len(r) \in 1 .. Len(Tail(s)) /\ i + 1 \in 1 .. Len(r) + Len(s)
          /\ ~(i + 1 <= Len(r)) /\ (i - Len(r)) + 1 = (i + 1) - Len(r)
      BY <1>1, <2>1, <2>3
    <3>3. Tail(s)[i - Len(r)] = s[(i + 1) - Len(r)]
      BY <1>1, <3>2
    <3>4. (r \o s)[i + 1] = s[(i + 1) - Len(r)]
      BY <1>2, <3>2
    <3> QED BY <2>3, <3>1, <3>3, <3>4
  <2> QED BY <2>2, <2>3
<1> QED BY <1>3, <1>4

(* Losing a message leaves the rest in order.                               *)
LEMMA SoundAfterDrop ==
  ASSUME NEW c, NEW r \in Seq(Messages), NEW s \in Seq(Messages), s # <<>>
  PROVE  /\ SoundFor(c, r \o s) => SoundFor(c, r \o Tail(s))
         /\ \A b, m : OlderIn(r \o s, b, m) => OlderIn(r \o Tail(s), b, m)
<1> DEFINE q == r \o s
           t == r \o Tail(s)
           at(i) == IF i <= Len(r) THEN i ELSE i + 1
<1>1. Len(q) \in Nat /\ Len(t) = Len(q) - 1 /\ Len(r) \in Nat
  BY Dropped, Sequences, ConcatProperties
<1>2. \A i \in 1 .. Len(t) : t[i] = q[at(i)] /\ at(i) \in 1 .. Len(q)
  <2>1. \A i \in 1 .. Len(t) : t[i] = q[at(i)]
    BY Dropped
  <2>2. \A i \in 1 .. Len(t) : at(i) \in 1 .. Len(q)
    BY <1>1
  <2> QED BY <2>1, <2>2
<1>3. \A i, j \in 1 .. Len(t) : i < j => at(i) < at(j)
  BY <1>1
<1> HIDE DEF q, t, at
<1>4. SoundFor(c, q) => SoundFor(c, t)
  BY <1>2, <1>3 DEF SoundFor
<1>5. \A b, m : OlderIn(q, b, m) => OlderIn(t, b, m)
  BY <1>2 DEF OlderIn
<1> QED BY <1>4, <1>5 DEF q, t

(* A message newer than the sender's earlier ones may be added.             *)
LEMMA SoundAfterSend ==
  ASSUME NEW c, NEW q \in Seq(Messages), NEW m \in Messages, SoundFor(c, q),
         m <= Len(stored), OlderIn(q, stored[m], m),
         IF c \in Admins THEN stored[m] \in Traders ELSE Room[stored[m]] = Room[c]
  PROVE  /\ SoundFor(c, Append(q, m))
         /\ \A b, n : OlderIn(q, b, n) /\ b # stored[m] => OlderIn(Append(q, m), b, n)
<1> DEFINE t == Append(q, m)
<1>1. /\ Len(q) \in Nat /\ Len(t) = Len(q) + 1 /\ t[Len(q) + 1] = m
      /\ \A i \in 1 .. Len(q) : t[i] = q[i]
  OBVIOUS
<1>2. \A i \in 1 .. Len(t) : i \in 1 .. Len(q) \/ i = Len(q) + 1
  BY <1>1
<1> HIDE DEF t
<1>3. ASSUME NEW i \in 1 .. Len(t), NEW j \in 1 .. Len(t), i < j, stored[t[i]] = stored[t[j]]
      PROVE  t[i] < t[j]
  <2>1. i \in 1 .. Len(q)
    BY <1>1, <1>2, <1>3
  <2>2. CASE j \in 1 .. Len(q)
    BY <1>1, <1>3, <2>1, <2>2 DEF SoundFor
  <2>3. CASE j = Len(q) + 1
    BY <1>1, <1>3, <2>1, <2>3 DEF OlderIn
  <2> QED BY <1>2, <2>2, <2>3
<1>4. SoundFor(c, t)
  BY <1>1, <1>2, <1>3 DEF SoundFor
<1>5. \A b, n : OlderIn(q, b, n) /\ b # stored[m] => OlderIn(t, b, n)
  BY <1>1, <1>2 DEF OlderIn
<1> QED BY <1>4, <1>5 DEF t

-----------------------------------------------------------------------------
(* The invariant in terms of SoundFor and OlderIn *)

LEMMA DeliveryForms ==
  /\ DeliveryIsSound <=> \A c \in Conns : SoundFor(c, Delivered(c))
  /\ NotYetSent <=> \A c, d \in Conns : Unsent(c, d) => OlderIn(Delivered(d), c, current[c])
  BY DEF DeliveryIsSound, NotYetSent, SoundFor, OlderIn

LEMMA DeliveredType ==
  ASSUME IInv
  PROVE  \A c \in Conns : /\ send[c] \in Seq(Messages) /\ received[c] \in Seq(Messages)
                          /\ Delivered(c) \in Seq(Messages)
<1>1. \A c \in Conns : send[c] \in Seq(Messages) /\ received[c] \in Seq(Messages)
  BY DEF IInv, TypeOK
<1> QED BY <1>1, ConcatProperties DEF Delivered

(* A step that stores, sends and writes nothing, and after which no more is *)
(* unsent than before.                                                      *)
LEMMA QuietStep ==
  ASSUME DeliveryInv, UNCHANGED <<send, received, stored, current>>,
         \A c \in Conns : pc'[c] \in HandingOn => pc[c] \in HandingOn,
         TargetsFit',
         \A c, d \in Conns : Unsent(c, d)' => Unsent(c, d)
  PROVE  DeliveryInv'
<1>1. \A c \in Conns : Delivered(c)' = Delivered(c)
  BY DEF Delivered
<1>2. HandsOnItsOwn'
  BY DEF DeliveryInv, HandsOnItsOwn
<1>3. NotYetSent'
  BY <1>1 DEF DeliveryInv, NotYetSent
<1>4. DeliveryIsSound'
  BY <1>1 DEF DeliveryInv, DeliveryIsSound
<1> QED BY <1>2, <1>3, <1>4 DEF DeliveryInv

(* A reader that moves to where it hands nothing on *)
LEMMA IdleMove ==
  ASSUME IInv, DeliveryInv, NEW c \in Conns, NEW p \in PCs \ HandingOn, Goto(c, p),
         UNCHANGED <<send, received, stored, current, targets>>
  PROVE  DeliveryInv'
<1>1. \A d \in Conns : pc'[d] = IF d = c THEN p ELSE pc[d]
  BY DEF IInv, TypeOK, Goto
<1>2. \A d \in Conns : pc'[d] \in HandingOn => pc'[d] = pc[d]
  BY <1>1
<1>3. TargetsFit'
  BY <1>2 DEF DeliveryInv, TargetsFit, HandingOn
<1>4. \A b, d \in Conns : Unsent(b, d)' => Unsent(b, d)
  BY <1>2 DEF Unsent, HandingOn, Broadcasting
<1> QED BY <1>2, <1>3, <1>4, QuietStep

(* A broadcast begins: to the members of the room only. *)
LEMMA BeginBroadcastDelivers ==
  ASSUME IInv, DeliveryInv, NEW c \in Conns, BeginBroadcast(c)
  PROVE  DeliveryInv'
<1>1. c \in Clients /\ Room[c] \in Orders
  BY ChatHubAssumption DEF BeginBroadcast, At, IInv, HasMessage, HandingOn, ChatHubAssumption
<1>2. UNCHANGED <<send, received, stored, current>>
  BY DEF BeginBroadcast, channels
<1>3. \A d \in Conns : pc'[d] = IF d = c THEN "sending" ELSE pc[d]
  BY DEF IInv, TypeOK, BeginBroadcast, Goto
<1>4. \A d \in Conns : targets'[d] = IF d = c THEN rooms[Room[c]] ELSE targets[d]
  BY DEF IInv, TypeOK, BeginBroadcast
<1>5. \A d \in rooms[Room[c]] : d \notin Admins /\ Room[d] = Room[c]
  BY <1>1, ChatHubAssumption DEF IInv, TypeOK, MembersAreConnected, ChatHubAssumption
<1>6. TargetsFit'
  BY <1>3, <1>4, <1>5 DEF DeliveryInv, TargetsFit
<1>7. \A b, d \in Conns : Unsent(b, d)' => Unsent(b, d)
  BY <1>3, <1>4 DEF Unsent, Broadcasting, BeginBroadcast, At
<1>8. \A d \in Conns : pc'[d] \in HandingOn => pc[d] \in HandingOn
  BY <1>3 DEF HandingOn, BeginBroadcast, At
<1> QED BY <1>2, <1>6, <1>7, <1>8, QuietStep

(* A notification begins: to admins only. *)
LEMMA BeginNotifyDelivers ==
  ASSUME IInv, DeliveryInv, NEW c \in Conns, BeginNotify(c)
  PROVE  DeliveryInv'
<1>1. UNCHANGED <<send, received, stored, current>> /\ pc[c] = "notify"
  BY DEF BeginNotify, channels, At
<1>2. \A d \in Conns : pc'[d] = IF d = c THEN "notifying" ELSE pc[d]
  BY DEF IInv, TypeOK, BeginNotify, Goto
<1>3. \A d \in Conns : targets'[d] = IF d = c THEN admins ELSE targets[d]
  BY DEF IInv, TypeOK, BeginNotify
<1>4. admins \subseteq Admins
  BY DEF IInv, TypeOK
<1>5. TargetsFit'
  BY <1>1, <1>2, <1>3, <1>4 DEF DeliveryInv, TargetsFit
<1>6. \A b, d \in Conns : Unsent(b, d)' => Unsent(b, d)
  BY <1>1, <1>2, <1>3, <1>4 DEF Unsent, Broadcasting
<1>7. \A d \in Conns : pc'[d] \in HandingOn => pc[d] \in HandingOn
  BY <1>1, <1>2 DEF HandingOn
<1> QED BY <1>1, <1>5, <1>6, <1>7, QuietStep

(* A broadcast ends; a trader's is followed by a notification. *)
LEMMA EndBroadcastDelivers ==
  ASSUME IInv, DeliveryInv, NEW c \in Conns, EndBroadcast(c)
  PROVE  DeliveryInv'
<1>1. UNCHANGED <<send, received, stored, current, targets>> /\ pc[c] = "sending"
  BY DEF EndBroadcast, channels, At
<1>2. CASE c \in Traders
  <2>1. \A d \in Conns : pc'[d] = IF d = c THEN "notify" ELSE pc[d]
    BY <1>2 DEF IInv, TypeOK, EndBroadcast, Goto
  <2>2. TargetsFit'
    BY <1>1, <1>2, <2>1 DEF DeliveryInv, TargetsFit
  <2>3. \A b, d \in Conns : Unsent(b, d)' => Unsent(b, d)
    BY <1>1, <2>1 DEF Unsent, Broadcasting
  <2>4. \A d \in Conns : pc'[d] \in HandingOn => pc[d] \in HandingOn
    BY <1>1, <2>1 DEF HandingOn
  <2> QED BY <1>1, <2>2, <2>3, <2>4, QuietStep
<1>3. CASE c \notin Traders
  <2>1. Goto(c, "reading") /\ "reading" \in PCs \ HandingOn
    BY <1>3 DEF EndBroadcast, PCs, HandingOn
  <2> QED BY <1>1, <2>1, IdleMove
<1> QED BY <1>2, <1>3

(* The select of a broadcast: the message follows the sender's earlier ones, *)
(* and the sender has nothing left for this connection.                      *)
LEMMA SendToDelivers ==
  ASSUME IInv, DeliveryInv, NEW c \in Conns, NEW d \in Conns, SendTo(c, d)
  PROVE  DeliveryInv'
<1>1. UNCHANGED <<pc, received, stored, current>>
  BY DEF SendTo
<1>2. \A e \in Conns : targets'[e] = IF e = c THEN targets[c] \ {d} ELSE targets[e]
  BY DEF IInv, TypeOK, SendTo
<1>3. TargetsFit'
  BY <1>1, <1>2 DEF DeliveryInv, TargetsFit
<1>4. \A b, e \in Conns : Unsent(b, e)' => Unsent(b, e)
  BY <1>1, <1>2 DEF Unsent
<1>5. CASE ~(Len(send[d]) < BufferSize)
  <2>1. UNCHANGED send
    BY <1>5 DEF SendTo
  <2> QED BY <1>1, <1>3, <1>4, <2>1, QuietStep
<1>6. CASE Len(send[d]) < BufferSize
  <2>1. PICK m : m = current[c]
    OBVIOUS
  <2>2. pc[c] \in Broadcasting /\ pc[c] \in HandingOn /\ d \in targets[c]
    BY DEF SendTo, Broadcasting, HandingOn
  <2>3. m \in 1 .. Len(stored) /\ stored[m] = c /\ m \in Messages
    BY <2>1, <2>2 DEF DeliveryInv, HandsOnItsOwn, IInv, HasMessage
  <2>4. IF d \in Admins THEN c \in Traders ELSE Room[c] = Room[d]
    BY <2>2 DEF DeliveryInv, TargetsFit, Broadcasting
  <2>5. Unsent(c, d) /\ ~Unsent(c, d)'
    BY <1>1, <1>2, <2>2 DEF Unsent, Broadcasting, DeliveryInv, TargetsFit
  <2>6. \A e \in Conns : send'[e] = IF e = d THEN Append(send[d], m) ELSE send[e]
    BY <1>6, <2>1 DEF SendTo, IInv, TypeOK
  <2>7. \A e \in Conns : Delivered(e)' = IF e = d THEN Append(Delivered(d), m) ELSE Delivered(e)
    <3>1. PICK r \in Seq(Messages), t \in Seq(Messages) : r = received[d] /\ t = send[d]
      BY DeliveredType
    <3>2. r \o Append(t, m) = Append(r \o t, m)
      BY <2>3, Sequences
    <3> QED BY <1>1, <2>6, <3>1, <3>2 DEF Delivered
  <2>8. PICK q \in Seq(Messages) : q = Delivered(d)
    BY DeliveredType
  <2>9. SoundFor(d, q) /\ OlderIn(q, c, m)
    BY <2>1, <2>5, <2>8, DeliveryForms DEF DeliveryInv
  <2>10. /\ SoundFor(d, Append(q, m))
         /\ \A b, n : OlderIn(q, b, n) /\ b # c => OlderIn(Append(q, m), b, n)
    BY <2>3, <2>4, <2>9, SoundAfterSend
  <2>11. HandsOnItsOwn'
    BY <1>1 DEF DeliveryInv, HandsOnItsOwn
  <2>12. NotYetSent'
    <3>1. ASSUME NEW b \in Conns, NEW e \in Conns, Unsent(b, e)'
          PROVE  OlderIn(Delivered(e)', b, current[b])
      <4>1. OlderIn(Delivered(e), b, current[b])
        BY <1>4, <3>1, DeliveryForms DEF DeliveryInv
      <4>2. CASE e # d
        BY <2>7, <4>1, <4>2
      <4>3. CASE e = d
        <5>1. b # c
          BY <2>5, <3>1, <4>3
        <5> QED BY <2>7, <2>8, <2>10, <4>1, <4>3, <5>1
      <4> QED BY <4>2, <4>3
    <3>2. \A b, e \in Conns : Unsent(b, e)' => OlderIn(Delivered(e)', b, current[b])
      BY <3>1
    <3> QED BY <1>1, <3>2 DEF NotYetSent, OlderIn
  <2>13. DeliveryIsSound'
    <3>1. \A e \in Conns : SoundFor(e, Delivered(e)')
      BY <2>7, <2>8, <2>10, DeliveryForms DEF DeliveryInv
    <3> QED BY <1>1, <3>1 DEF DeliveryIsSound, SoundFor
  <2> QED BY <1>3, <2>11, <2>12, <2>13 DEF DeliveryInv
<1> QED BY <1>5, <1>6

(* The writer takes a message to its peer: it stays delivered. *)
LEMMA WriteDelivers ==
  ASSUME IInv, DeliveryInv, NEW c \in Conns, Write(c)
  PROVE  DeliveryInv' /\ \A d \in Conns : Delivered(d)' = Delivered(d)
<1>1. UNCHANGED <<pc, targets, stored, current>> /\ send[c] # <<>>
  BY DEF Write
<1>2. \A d \in Conns : send'[d] = IF d = c THEN Tail(send[c]) ELSE send[d]
  BY DEF Write, IInv, TypeOK
<1>3. \A d \in Conns :
        received'[d] = IF d = c THEN Append(received[c], Head(send[c])) ELSE received[d]
  BY DEF Write, IInv, TypeOK
<1>4. Head(send[c]) \in Messages
  BY <1>1, DeliveredType
<1>5. Append(received[c], Head(send[c])) \o Tail(send[c]) = received[c] \o send[c]
  <2>1. PICK r \in Seq(Messages), t \in Seq(Messages) : r = received[c] /\ t = send[c]
    BY DeliveredType
  <2>2. t # <<>> /\ Head(t) \in Messages
    BY <1>1, <1>4, <2>1
  <2>3. Append(r, Head(t)) \o Tail(t) = r \o t
    BY <2>2, Sequences
  <2> QED BY <2>1, <2>3
<1>6. \A d \in Conns : Delivered(d)' = Delivered(d)
  BY <1>2, <1>3, <1>5 DEF Delivered
<1>7. HandsOnItsOwn' /\ TargetsFit'
  BY <1>1 DEF DeliveryInv, HandsOnItsOwn, TargetsFit
<1>8. \A b, d \in Conns : Unsent(b, d)' <=> Unsent(b, d)
  BY <1>1 DEF Unsent
<1>9. NotYetSent' /\ DeliveryIsSound'
  BY <1>1, <1>6, <1>8 DEF DeliveryInv, NotYetSent, DeliveryIsSound
<1> QED BY <1>6, <1>7, <1>9 DEF DeliveryInv

(* The socket breaks: the message is lost, the rest stays in order. *)
LEMMA WriteFailsDelivers ==
  ASSUME IInv, DeliveryInv, NEW c \in Conns, WriteFails(c)
  PROVE  DeliveryInv'
<1>1. UNCHANGED <<pc, targets, stored, current, received>> /\ send[c] # <<>>
  BY DEF WriteFails
<1>2. \A d \in Conns : send'[d] = IF d = c THEN Tail(send[c]) ELSE send[d]
  BY DEF WriteFails, IInv, TypeOK
<1>3. \A d \in Conns :
        Delivered(d)' = IF d = c THEN received[c] \o Tail(send[c]) ELSE Delivered(d)
  BY <1>1, <1>2 DEF Delivered
<1>4. /\ SoundFor(c, Delivered(c)) => SoundFor(c, received[c] \o Tail(send[c]))
      /\ \A b, m : OlderIn(Delivered(c), b, m) => OlderIn(received[c] \o Tail(send[c]), b, m)
  BY <1>1, DeliveredType, SoundAfterDrop DEF Delivered
<1>5. HandsOnItsOwn' /\ TargetsFit'
  BY <1>1 DEF DeliveryInv, HandsOnItsOwn, TargetsFit
<1>6. \A b, d \in Conns : Unsent(b, d)' => OlderIn(Delivered(d)', b, current[b])
  <2>1. \A b, d \in Conns : Unsent(b, d)' <=> Unsent(b, d)
    BY <1>1 DEF Unsent
  <2> QED BY <1>3, <1>4, <2>1, DeliveryForms DEF DeliveryInv
<1>7. \A d \in Conns : SoundFor(d, Delivered(d)')
  BY <1>3, <1>4, DeliveryForms DEF DeliveryInv
<1>8. NotYetSent' /\ DeliveryIsSound'
  BY <1>1, <1>6, <1>7 DEF NotYetSent, OlderIn, DeliveryIsSound, SoundFor
<1> QED BY <1>5, <1>8 DEF DeliveryInv

(* A message is stored: it is newer than everything delivered. *)
LEMMA ReceiveDelivers ==
  ASSUME IInv, DeliveryInv, NEW c \in Conns, Receive(c)
  PROVE  DeliveryInv'
<1>1. UNCHANGED <<send, received, targets>> /\ c \in Clients /\ stored \in Seq(Clients)
  BY DEF Receive, channels, IInv, TypeOK
<1>2. \A d \in Conns : pc'[d] = IF d = c THEN "broadcast" ELSE pc[d]
  BY DEF Receive, Goto, IInv, TypeOK
<1>3. \A d \in Conns : current'[d] = IF d = c THEN Len(stored) + 1 ELSE current[d]
  BY DEF Receive, IInv, TypeOK
<1>4. /\ Len(stored) \in Nat /\ Len(stored') = Len(stored) + 1 /\ stored'[Len(stored) + 1] = c
      /\ \A i \in 1 .. Len(stored) : stored'[i] = stored[i]
  BY <1>1 DEF Receive
<1>5. \A d \in Conns : Delivered(d)' = Delivered(d)
  BY <1>1 DEF Delivered
<1>6. \A d \in Conns : \A i \in 1 .. Len(Delivered(d)) :
        /\ Delivered(d)[i] \in 1 .. Len(stored)
        /\ stored'[Delivered(d)[i]] = stored[Delivered(d)[i]]
  <2>1. \A d \in Conns : \A i \in 1 .. Len(Delivered(d)) :
          Delivered(d)[i] \in Messages /\ Delivered(d)[i] <= Len(stored)
    BY DeliveredType DEF DeliveryInv, DeliveryIsSound
  <2>2. \A m \in Messages : m <= Len(stored) => m \in 1 .. Len(stored)
    BY <1>4, ChatHubAssumption DEF Messages, ChatHubAssumption
  <2> QED BY <1>4, <2>1, <2>2
<1>7. HandsOnItsOwn'
  <2>1. \A d \in Conns : d # c /\ pc'[d] \in HandingOn =>
          current[d] \in 1 .. Len(stored) /\ stored[current[d]] = d
    BY <1>2 DEF DeliveryInv, HandsOnItsOwn
  <2>2. \A d \in Conns : d # c /\ pc'[d] \in HandingOn =>
          current'[d] \in 1 .. Len(stored') /\ stored'[current'[d]] = d
    BY <1>3, <1>4, <2>1
  <2>3. current'[c] \in 1 .. Len(stored') /\ stored'[current'[c]] = c
    BY <1>3, <1>4
  <2> QED BY <2>2, <2>3 DEF HandsOnItsOwn
<1>8. TargetsFit'
  BY <1>1, <1>2 DEF DeliveryInv, TargetsFit
<1>9. NotYetSent'
  <2>1. ASSUME NEW b \in Conns, NEW d \in Conns, Unsent(b, d)',
               NEW i \in 1 .. Len(Delivered(d)), stored'[Delivered(d)[i]] = b
        PROVE  Delivered(d)[i] < current'[b]
    <3>1. CASE b = c
      BY <1>3, <1>4, <1>6, <3>1
    <3>2. CASE b # c
      <4>1. Unsent(b, d) /\ current'[b] = current[b] /\ stored[Delivered(d)[i]] = b
        BY <1>1, <1>2, <1>3, <1>6, <2>1, <3>2 DEF Unsent
      <4> QED BY <4>1 DEF DeliveryInv, NotYetSent
    <3> QED BY <3>1, <3>2
  <2> QED BY <1>5, <2>1 DEF NotYetSent
<1>10. DeliveryIsSound'
  <2>1. ASSUME NEW d \in Conns PROVE SoundFor(d, Delivered(d))'
    <3>1. SoundFor(d, Delivered(d))
      BY DeliveryForms DEF DeliveryInv
    <3>2. \A i \in 1 .. Len(Delivered(d)) : Delivered(d)[i] <= Len(stored')
      BY <1>4, <1>6
    <3> QED BY <1>5, <1>6, <3>1, <3>2 DEF SoundFor
  <2> QED BY <2>1 DEF DeliveryIsSound, SoundFor
<1> QED BY <1>7, <1>8, <1>9, <1>10 DEF DeliveryInv

LEMMA InitDelivery == Init => DeliveryInv
<1> SUFFICES ASSUME Init PROVE DeliveryInv
  OBVIOUS
<1>1. \A c \in Conns : pc[c] = "away" /\ Len(Delivered(c)) = 0
  <2>1. Len(<<>> \o <<>>) = 0
    OBVIOUS
  <2> QED BY <2>1 DEF Init, Delivered
<1>2. HandsOnItsOwn /\ TargetsFit
  BY <1>1 DEF HandsOnItsOwn, TargetsFit, HandingOn
<1>3. NotYetSent /\ DeliveryIsSound
  BY <1>1 DEF NotYetSent, DeliveryIsSound
<1> QED BY <1>2, <1>3 DEF DeliveryInv

LEMMA NextDelivery == IInv /\ DeliveryInv /\ [Next]_vars => DeliveryInv'
<1> SUFFICES ASSUME IInv, DeliveryInv, [Next]_vars PROVE DeliveryInv'
  OBVIOUS
<1>1. CASE UNCHANGED vars
  <2>1. UNCHANGED <<pc, targets, send, received, stored, current>>
    BY <1>1 DEF vars, channels
  <2>2. TargetsFit' /\ \A b, d \in Conns : Unsent(b, d)' => Unsent(b, d)
    BY <2>1 DEF DeliveryInv, TargetsFit, Unsent
  <2> QED BY <2>1, <2>2, QuietStep
<1>2. ASSUME NEW c \in Conns, Reader(c) \/ Peer(c) \/ Writer(c) PROVE DeliveryInv'
  <2>1. CASE Connect(c) \/ Register(c) \/ RegisterAdmin(c) \/ Unregister(c) \/ UnregisterAdmin(c)
             \/ CloseConn(c) \/ EndNotify(c) \/ Disconnect(c)
    <3>1. UNCHANGED <<send, received, stored, current, targets>>
      BY <2>1 DEF Connect, Register, RegisterAdmin, Unregister, UnregisterAdmin, CloseConn, EndNotify,
                  Disconnect, channels
    <3>2. \E p \in PCs \ HandingOn : Goto(c, p)
      BY <2>1 DEF Connect, Register, RegisterAdmin, Unregister, UnregisterAdmin, CloseConn, EndNotify,
                  Disconnect, PCs, HandingOn
    <3> QED BY <3>1, <3>2, IdleMove
  <2>2. CASE FetchHistory(c) \/ WriterEnds(c)
    <3>1. UNCHANGED <<pc, targets, send, received, stored, current>>
      BY <2>2 DEF FetchHistory, WriterEnds, channels
    <3>2. TargetsFit' /\ \A b, d \in Conns : Unsent(b, d)' => Unsent(b, d)
      BY <3>1 DEF DeliveryInv, TargetsFit, Unsent
    <3> QED BY <3>1, <3>2, QuietStep
  <2>3. CASE BeginBroadcast(c)
    BY <2>3, BeginBroadcastDelivers
  <2>4. CASE EndBroadcast(c)
    BY <2>4, EndBroadcastDelivers
  <2>5. CASE BeginNotify(c)
    BY <2>5, BeginNotifyDelivers
  <2>6. CASE \E d \in Conns : SendTo(c, d)
    BY <2>6, SendToDelivers
  <2>7. CASE Receive(c)
    BY <2>7, ReceiveDelivers
  <2>8. CASE Write(c)
    BY <2>8, WriteDelivers
  <2>9. CASE WriteFails(c)
    BY <2>9, WriteFailsDelivers
  <2> QED BY <1>2, <2>1, <2>2, <2>3, <2>4, <2>5, <2>6, <2>7, <2>8, <2>9 DEF Reader, Peer, Writer
<1> QED BY <1>1, <1>2 DEF Next

(* A connection receives only what belongs to its room (an admin: what       *)
(* traders sent), each message at most once, and one sender's messages in    *)
(* the order they were stored, however the broadcasts of others overlap.     *)
THEOREM DeliveriesAreSound == Spec => []DeliveryIsSound
<1>1. DeliveryInv => DeliveryIsSound
  BY DEF DeliveryInv
<1> QED BY <1>1, InitDelivery, NextDelivery, InductiveInvariant, PTL DEF Spec

-----------------------------------------------------------------------------
(* No gap after catching up *)

(* Message m is one that client c is owed: it fetched in the room, before m. *)
Owed(c, m) ==
  /\ c \in caughtUp /\ Registered(c) /\ writer[c] = "running"
  /\ m \in history[c] + 1 .. Len(stored) /\ Room[stored[m]] = Room[c]

Handed(c, m) == \E i \in DOMAIN Delivered(c) : Delivered(c)[i] = m

Accounted(c, m) == Handed(c, m) \/ OnItsWay(m, c) \/ <<c, m>> \in missed

GapInv == CaughtUpHaveJoined /\ NothingMissed

LEMMA GapForm == NothingMissed <=> \A c, m : Owed(c, m) => Accounted(c, m)
  BY DEF NothingMissed, Owed, Accounted, Handed

LEMMA OwedToClients ==
  ASSUME IInv, NEW c, NEW m, Owed(c, m)
  PROVE  c \in Clients /\ c \in Conns /\ c \notin Admins /\ m \in 1 .. Len(stored)
<1>1. c \in Clients /\ c \in Conns /\ c \notin Admins
  BY ChatHubAssumption DEF Owed, IInv, TypeOK, Conns, ChatHubAssumption
<1>2. history[c] \in Nat /\ Len(stored) \in Nat
  BY <1>1, ChatHubAssumption DEF IInv, TypeOK, ChatHubAssumption
<1> QED BY <1>1, <1>2 DEF Owed

(* A step after which nothing new is owed, and no account is withdrawn *)
LEMMA NothingNewOwed ==
  ASSUME IInv, GapInv,
         \A c \in Clients : c \in caughtUp' /\ pc'[c] \in {"away", "register"} =>
                            c \in caughtUp /\ pc[c] \in {"away", "register"},
         IInv',
         \A c \in Clients : \A m : Owed(c, m)' => Owed(c, m),
         \A c \in Clients : \A m : Owed(c, m) /\ Owed(c, m)' /\ Accounted(c, m) => Accounted(c, m)'
  PROVE  GapInv'
<1>1. caughtUp' \subseteq Clients
  BY DEF IInv, TypeOK
<1>2. CaughtUpHaveJoined'
  BY <1>1 DEF GapInv, CaughtUpHaveJoined
<1>3. \A c, m : Owed(c, m)' => Accounted(c, m)'
  BY <1>1, GapForm DEF GapInv, Owed
<1>4. NothingMissed'
  BY <1>3 DEF NothingMissed, Owed, Accounted, Handed
<1> QED BY <1>2, <1>4 DEF GapInv

(* A reader's move that ends no broadcast with somebody still to come to *)
LEMMA MoveOwesNothing ==
  ASSUME IInv, IInv', GapInv, NEW c \in Conns, NEW p \in PCs, Goto(c, p),
         UNCHANGED <<send, received, stored, current, missed, history, caughtUp>>,
         \A d \in Conns : d # c => targets'[d] = targets[d],
         c \in caughtUp => p \notin {"away", "register"},
         \A d \in Clients : d \in caughtUp /\ Registered(d)' => Registered(d),
         \A d \in Clients : d \in caughtUp => writer'[d] = writer[d],
         \A d \in Clients, m \in 1 .. Len(stored) :
           Owed(d, m) /\ stored[m] = c =>
             \/ ~At(c, "broadcast") /\ ~(At(c, "sending") /\ d \in targets[c])
             \/ p = "sending" /\ d \in targets'[c]
  PROVE  GapInv'
<1>1. \A d \in Conns : pc'[d] = IF d = c THEN p ELSE pc[d]
  BY DEF IInv, TypeOK, Goto
<1>2. \A d \in Conns : Delivered(d)' = Delivered(d)
  BY DEF Delivered
<1>3. \A d \in Clients : \A m : Owed(d, m)' => Owed(d, m)
  BY DEF Owed
<1>4. ASSUME NEW d \in Clients, NEW m, Owed(d, m), Accounted(d, m) PROVE Accounted(d, m)'
  <2>1. d \in Conns /\ m \in 1 .. Len(stored) /\ stored[m] \in Conns
    BY <1>4, OwedToClients, ChatHubAssumption DEF IInv, TypeOK, Conns, ChatHubAssumption
  <2>2. CASE Handed(d, m)
    BY <1>2, <2>1, <2>2 DEF Accounted, Handed
  <2>3. CASE OnItsWay(m, d)
    <3>1. CASE stored[m] = c
      BY <1>1, <1>4, <2>1, <2>3, <3>1 DEF Accounted, OnItsWay, At
    <3>2. CASE stored[m] # c
      BY <1>1, <2>1, <2>3, <3>2 DEF Accounted, OnItsWay, At
    <3> QED BY <3>1, <3>2
  <2>4. CASE <<d, m>> \in missed
    BY <2>4 DEF Accounted
  <2> QED BY <1>4, <2>2, <2>3, <2>4 DEF Accounted
<1>5. \A d \in Clients : d \in caughtUp' /\ pc'[d] \in {"away", "register"} =>
                           d \in caughtUp /\ pc[d] \in {"away", "register"}
  BY <1>1, ChatHubAssumption DEF Conns, ChatHubAssumption
<1> QED BY <1>3, <1>4, <1>5, NothingNewOwed

(* A broadcast begins with every member of the room still to come to. *)
LEMMA BeginBroadcastOwesNothing ==
  ASSUME IInv, IInv', GapInv, NEW c \in Conns, BeginBroadcast(c)
  PROVE  GapInv'
<1>1. /\ UNCHANGED <<send, received, stored, current, missed, history, caughtUp, rooms, admins, writer>>
      /\ Goto(c, "sending") /\ "sending" \in PCs
  BY DEF BeginBroadcast, channels, hub, http, PCs
<1>2. \A d \in Conns : targets'[d] = IF d = c THEN rooms[Room[c]] ELSE targets[d]
  BY DEF IInv, TypeOK, BeginBroadcast
<1>3. \A d \in Conns : Registered(d)' = Registered(d)
  BY <1>1 DEF Registered
<1>4. ASSUME NEW d \in Clients, NEW m, Owed(d, m), stored[m] = c PROVE d \in targets'[c]
  <2>1. d \in rooms[Room[d]] /\ Room[c] = Room[d]
    BY <1>4, OwedToClients DEF Owed, Registered
  <2> QED BY <1>2, <2>1
<1> QED BY <1>1, <1>2, <1>3, <1>4, MoveOwesNothing DEF Conns

(* A broadcast ends with nobody left to come to; the other moves are of     *)
(* readers that broadcast nothing.                                          *)
LEMMA OtherMoveOwesNothing ==
  ASSUME IInv, IInv', GapInv, NEW c \in Conns,
         \/ Connect(c) \/ Register(c) \/ RegisterAdmin(c) \/ Unregister(c) \/ UnregisterAdmin(c)
         \/ CloseConn(c) \/ BeginNotify(c) \/ EndBroadcast(c) \/ EndNotify(c) \/ Disconnect(c)
  PROVE  GapInv'
<1>1. UNCHANGED <<send, received, stored, current, missed, history, caughtUp>>
  BY DEF Connect, Register, RegisterAdmin, Unregister, UnregisterAdmin, CloseConn, BeginNotify,
         EndBroadcast, EndNotify, Disconnect, channels, http
<1>2. PICK p \in PCs : Goto(c, p) /\ (p \in {"away", "register"} => At(c, "away"))
  <2>1. CASE EndBroadcast(c)
    BY <2>1 DEF EndBroadcast, PCs
  <2>2. CASE ~EndBroadcast(c)
    BY <2>2 DEF Connect, Register, RegisterAdmin, Unregister, UnregisterAdmin, CloseConn, BeginNotify,
         EndNotify, Disconnect, PCs
  <2> QED BY <2>1, <2>2
<1>3. \A d \in Conns : d # c => targets'[d] = targets[d]
  BY DEF Connect, Register, RegisterAdmin, Unregister, UnregisterAdmin, CloseConn, BeginNotify,
         EndBroadcast, EndNotify, Disconnect, IInv, TypeOK
<1>4. c \in caughtUp => ~At(c, "away") /\ ~At(c, "register")
  BY DEF GapInv, CaughtUpHaveJoined, At
<1>5. ~At(c, "broadcast") /\ (At(c, "sending") => targets[c] = {})
  BY DEF Connect, Register, RegisterAdmin, Unregister, UnregisterAdmin, CloseConn, BeginNotify,
         EndBroadcast, EndNotify, Disconnect, At
<1>6. \A d \in Clients : d \in caughtUp => /\ Registered(d)' => Registered(d)
                                          /\ writer'[d] = writer[d]
  <2>1. \A d \in Clients : d \in Conns /\ d \notin Admins /\ Room[d] \in Orders
    BY ChatHubAssumption DEF Conns, ChatHubAssumption
  <2>2. CASE Register(c)
    <3>1. \A d \in Clients : d # c /\ d \in rooms'[Room[d]] => d \in rooms[Room[d]]
      BY <2>1, <2>2 DEF Register, IInv, TypeOK
    <3>2. \A d \in Clients : d # c => writer'[d] = writer[d]
      BY <2>1, <2>2 DEF Register, IInv, TypeOK
    <3> QED BY <1>4, <2>1, <2>2, <3>1, <3>2 DEF Register, Registered
  <2>3. CASE RegisterAdmin(c)
    <3>1. \A d \in Clients : writer'[d] = writer[d]
      BY <2>1, <2>3 DEF RegisterAdmin, IInv, TypeOK
    <3> QED BY <2>1, <2>3, <3>1 DEF RegisterAdmin, Registered
  <2>4. CASE Unregister(c)
    <3>1. \A d \in Clients : d \in rooms'[Room[d]] => d \in rooms[Room[d]]
      BY <2>1, <2>4 DEF Unregister, IInv, TypeOK
    <3> QED BY <2>1, <2>4, <3>1 DEF Unregister, Registered
  <2>5. CASE UnregisterAdmin(c)
    BY <2>1, <2>5 DEF UnregisterAdmin, Registered
  <2>6. CASE ~(Register(c) \/ RegisterAdmin(c) \/ Unregister(c) \/ UnregisterAdmin(c))
    <3>1. UNCHANGED <<rooms, admins, writer>>
      BY <2>6 DEF Connect, CloseConn, BeginNotify, EndBroadcast, EndNotify, Disconnect, hub
    <3> QED BY <3>1 DEF Registered
  <2> QED BY <2>2, <2>3, <2>4, <2>5, <2>6
<1> QED BY <1>1, <1>2, <1>3, <1>4, <1>5, <1>6, MoveOwesNothing DEF At

(* The select of a broadcast: the message is handed over, or missed. *)
LEMMA SendToOwesNothing ==
  ASSUME IInv, IInv', GapInv, NEW c \in Conns, NEW d \in Conns, SendTo(c, d)
  PROVE  GapInv'
<1>1. UNCHANGED <<pc, writer, rooms, admins, received, stored, current, history, caughtUp>>
  BY DEF SendTo, hub, http
<1>2. \A e \in Conns : targets'[e] = IF e = c THEN targets[c] \ {d} ELSE targets[e]
  BY DEF IInv, TypeOK, SendTo
<1>3. \A e \in Clients : \A m : Owed(e, m)' => Owed(e, m)
  BY <1>1 DEF Owed, Registered
<1>4. PICK x \in Messages : x = current[c]
  BY DEF SendTo, IInv, HasMessage, HandingOn
<1>5. \A e \in Conns : \A m : Handed(e, m) => Handed(e, m)'
  <2>1. CASE Len(send[d]) < BufferSize
    <3>1. \A e \in Conns : send'[e] = IF e = d THEN Append(send[d], x) ELSE send[e]
      BY <1>4, <2>1 DEF SendTo, IInv, TypeOK
    <3>2. PICK r \in Seq(Messages), t \in Seq(Messages) : r = received[d] /\ t = send[d]
      BY DeliveredType
    <3>3. r \o Append(t, x) = Append(r \o t, x) /\ r \o t \in Seq(Messages)
      BY Sequences
    <3>4. PICK q \in Seq(Messages) : q = r \o t
      BY <3>3
    <3>5. Delivered(d) = q /\ Delivered(d)' = Append(q, x)
      BY <1>1, <3>1, <3>2, <3>3, <3>4 DEF Delivered
    <3>6. \A i \in DOMAIN q : i \in DOMAIN Append(q, x) /\ Append(q, x)[i] = q[i]
      OBVIOUS
    <3>7. \A m : Handed(d, m) => Handed(d, m)'
      BY <3>5, <3>6 DEF Handed
    <3>8. \A e \in Conns : e # d => Delivered(e)' = Delivered(e)
      BY <1>1, <3>1 DEF Delivered
    <3> QED BY <3>7, <3>8 DEF Handed
  <2>2. CASE ~(Len(send[d]) < BufferSize)
    BY <1>1, <2>2 DEF SendTo, Handed, Delivered
  <2> QED BY <2>1, <2>2
<1>6. Handed(d, x)' \/ <<d, x>> \in missed'
  <2>1. CASE Len(send[d]) < BufferSize
    <3>1. send'[d] = Append(send[d], x)
      BY <1>4, <2>1 DEF SendTo, IInv, TypeOK
    <3>2. PICK r \in Seq(Messages), t \in Seq(Messages) : r = received[d] /\ t = send[d]
      BY DeliveredType
    <3>3. r \o Append(t, x) = Append(r \o t, x) /\ r \o t \in Seq(Messages)
      BY Sequences
    <3>4. PICK q \in Seq(Messages) : q = r \o t
      BY <3>3
    <3>5. Delivered(d)' = Append(q, x)
      BY <1>1, <3>1, <3>2, <3>3, <3>4 DEF Delivered
    <3>6. Len(q) + 1 \in DOMAIN Append(q, x) /\ Append(q, x)[Len(q) + 1] = x
      OBVIOUS
    <3> QED BY <3>5, <3>6 DEF Handed
  <2>2. CASE ~(Len(send[d]) < BufferSize)
    BY <1>4, <2>2 DEF SendTo
  <2> QED BY <2>1, <2>2
<1>7. missed \subseteq missed'
  BY DEF SendTo
<1>8. ASSUME NEW e \in Clients, NEW m, Owed(e, m), Accounted(e, m) PROVE Accounted(e, m)'
  <2>1. e \in Conns
    BY DEF Conns
  <2>2. CASE Handed(e, m)
    BY <1>5, <2>1, <2>2 DEF Accounted
  <2>3. CASE OnItsWay(m, e)
    <3>1. CASE stored[m] = c /\ e = d
      <4>1. current[c] = m
        BY <2>3, <3>1 DEF OnItsWay
      <4> QED BY <1>4, <1>6, <3>1, <4>1 DEF Accounted
    <3>2. CASE ~(stored[m] = c /\ e = d)
      <4>1. stored[m] \in Conns
        <5>1. m \in 1 .. Len(stored) /\ stored \in Seq(Clients)
          BY <1>8, OwedToClients DEF IInv, TypeOK
        <5> QED BY <5>1 DEF Conns
      <4>2. OnItsWay(m, e)'
        BY <1>1, <1>2, <2>3, <3>2, <4>1 DEF OnItsWay, At
      <4> QED BY <4>2 DEF Accounted
    <3> QED BY <3>1, <3>2
  <2>4. CASE <<e, m>> \in missed
    BY <1>7, <2>4 DEF Accounted
  <2> QED BY <1>8, <2>2, <2>3, <2>4 DEF Accounted
<1> QED BY <1>1, <1>3, <1>8, NothingNewOwed

(* A message is stored: it is on its way to everybody in the room. *)
LEMMA ReceiveOwesNothing ==
  ASSUME IInv, IInv', GapInv, NEW c \in Conns, Receive(c)
  PROVE  GapInv'
<1>1. /\ UNCHANGED <<writer, rooms, admins, send, received, targets, history, caughtUp, missed>>
      /\ c \in Clients /\ stored \in Seq(Clients) /\ pc[c] = "reading"
  BY DEF Receive, channels, hub, http, At, IInv, TypeOK
<1>2. \A d \in Conns : pc'[d] = IF d = c THEN "broadcast" ELSE pc[d]
  BY DEF Receive, Goto, IInv, TypeOK
<1>3. \A d \in Conns : current'[d] = IF d = c THEN Len(stored) + 1 ELSE current[d]
  BY DEF Receive, IInv, TypeOK
<1>4. /\ Len(stored) \in Nat /\ Len(stored') = Len(stored) + 1 /\ stored'[Len(stored) + 1] = c
      /\ \A i \in 1 .. Len(stored) : stored'[i] = stored[i]
  BY <1>1 DEF Receive
<1>5. ASSUME NEW d \in Clients, NEW m, Owed(d, m)' PROVE Accounted(d, m)'
  <2>1. history[d] \in Nat /\ history'[d] = history[d]
    BY <1>1, ChatHubAssumption DEF IInv, TypeOK, ChatHubAssumption
  <2>2. m \in history[d] + 1 .. Len(stored) + 1
    BY <1>4, <1>5, <2>1 DEF Owed
  <2>3. CASE m = Len(stored) + 1
    <3>1. OnItsWay(m, d)'
      BY <1>1, <1>2, <1>3, <1>4, <2>3 DEF OnItsWay, At
    <3> QED BY <3>1 DEF Accounted
  <2>4. CASE m # Len(stored) + 1
    <3>1. m \in 1 .. Len(stored) /\ m \in history[d] + 1 .. Len(stored)
      BY <1>4, <2>1, <2>2, <2>4
    <3>2. stored'[m] = stored[m] /\ stored[m] \in Conns
      BY <1>1, <1>4, <3>1 DEF Conns
    <3>3. Owed(d, m)
      BY <1>1, <1>5, <3>1, <3>2 DEF Owed, Registered
    <3>4. Accounted(d, m)
      BY <3>3, GapForm DEF GapInv
    <3>5. OnItsWay(m, d) => OnItsWay(m, d)'
      BY <1>1, <1>2, <1>3, <3>2 DEF OnItsWay, At
    <3>6. Handed(d, m) => Handed(d, m)'
      BY <1>1 DEF Handed, Delivered
    <3> QED BY <1>1, <3>4, <3>5, <3>6 DEF Accounted
  <2> QED BY <2>3, <2>4
<1>6. caughtUp' \subseteq Clients
  BY DEF IInv, TypeOK
<1>7. CaughtUpHaveJoined'
  BY <1>1, <1>2, <1>6 DEF GapInv, CaughtUpHaveJoined, Conns
<1>8. NothingMissed'
  BY <1>5, <1>6 DEF NothingMissed, Owed, Accounted, Handed
<1> QED BY <1>7, <1>8 DEF GapInv

(* A fetch: nothing stored so far is owed any more. *)
LEMMA FetchOwesNothing ==
  ASSUME IInv, IInv', GapInv, NEW c \in Conns, FetchHistory(c)
  PROVE  GapInv'
<1>1. /\ UNCHANGED <<pc, writer, rooms, admins, send, received, targets, stored, current, missed>>
      /\ c \in Clients
  BY ChatHubAssumption DEF FetchHistory, channels, hub, ChatHubAssumption
<1>2. history'[c] = Len(stored) /\ \A d \in Clients : d # c => history'[d] = history[d]
  BY <1>1 DEF FetchHistory, IInv, TypeOK
<1>3. /\ caughtUp' \subseteq caughtUp \cup {c}
      /\ c \in caughtUp' => c \in caughtUp \/ Registered(c)
  BY DEF FetchHistory
<1>4. \A d \in Clients : d \in caughtUp' /\ pc'[d] \in {"away", "register"} =>
                           d \in caughtUp /\ pc[d] \in {"away", "register"}
  BY <1>1, <1>3 DEF IInv, MembersAreConnected, Conns
<1>5. \A d \in Clients : \A m : Owed(d, m)' => Owed(d, m)
  <2>1. Len(stored) \in Nat
    BY DEF IInv, TypeOK
  <2>2. \A m : ~Owed(c, m)'
    BY <1>1, <1>2, <2>1 DEF Owed
  <2>3. \A d \in Clients : d # c => \A m : Owed(d, m)' => Owed(d, m)
    BY <1>1, <1>2, <1>3 DEF Owed, Registered
  <2> QED BY <2>2, <2>3
<1>6. \A d \in Clients : \A m : Accounted(d, m) => Accounted(d, m)'
  BY <1>1 DEF Accounted, Handed, Delivered, OnItsWay, At
<1> QED BY <1>4, <1>5, <1>6, NothingNewOwed

(* The writer: what it takes to the peer stays handed over; when it fails    *)
(* or ends, nothing is owed any more.                                        *)
LEMMA WriterOwesNothing ==
  ASSUME IInv, IInv', GapInv, DeliveryInv, NEW c \in Conns, Writer(c)
  PROVE  GapInv'
<1>1. UNCHANGED <<pc, rooms, admins, targets, stored, current, missed, history, caughtUp>>
  BY DEF Writer, Write, WriteFails, WriterEnds, hub, http, channels
<1>2. \A d \in Conns : /\ writer'[d] = "running" => writer[d] = "running"
                       /\ writer'[d] = "running" => Delivered(d)' = Delivered(d)
  <2>1. CASE Write(c)
    BY <2>1, WriteDelivers DEF Write
  <2>2. CASE WriteFails(c)
    <3>1. \A d \in Conns : writer'[d] = IF d = c THEN "done" ELSE writer[d]
      BY <2>2 DEF WriteFails, IInv, TypeOK
    <3>2. \A d \in Conns : d # c => send'[d] = send[d]
      BY <2>2 DEF WriteFails, IInv, TypeOK
    <3>3. \A d \in Conns : d # c => Delivered(d)' = Delivered(d)
      BY <2>2, <3>2 DEF WriteFails, Delivered
    <3> QED BY <3>1, <3>3
  <2>3. CASE WriterEnds(c)
    <3>1. \A d \in Conns : writer'[d] = IF d = c THEN "done" ELSE writer[d]
      BY <2>3 DEF WriterEnds, IInv, TypeOK
    <3> QED BY <2>3, <3>1 DEF WriterEnds, channels, Delivered
  <2> QED BY <2>1, <2>2, <2>3 DEF Writer
<1>3. \A d \in Clients : \A m : Owed(d, m)' => Owed(d, m)
  BY <1>1, <1>2 DEF Owed, Registered, Conns
<1>4. \A d \in Clients : \A m : Owed(d, m)' /\ Accounted(d, m) => Accounted(d, m)'
  BY <1>1, <1>2 DEF Owed, Accounted, Handed, OnItsWay, At, Conns
<1> QED BY <1>1, <1>3, <1>4, NothingNewOwed

LEMMA InitGap == Init => GapInv
  BY DEF Init, GapInv, CaughtUpHaveJoined, NothingMissed

LEMMA NextGap == IInv /\ IInv' /\ DeliveryInv /\ GapInv /\ [Next]_vars => GapInv'
<1> SUFFICES ASSUME IInv, IInv', DeliveryInv, GapInv, [Next]_vars PROVE GapInv'
  OBVIOUS
<1>1. CASE UNCHANGED vars
  <2>1. UNCHANGED <<pc, writer, rooms, admins, send, received, targets, stored, current, missed,
                    history, caughtUp>>
    BY <1>1 DEF vars, channels, hub, http
  <2>2. \A d \in Clients : \A m : /\ Owed(d, m)' => Owed(d, m)
                                  /\ Accounted(d, m) => Accounted(d, m)'
    BY <2>1 DEF Owed, Registered, Accounted, Handed, Delivered, OnItsWay, At
  <2> QED BY <2>1, <2>2, NothingNewOwed
<1>2. ASSUME NEW c \in Conns, Reader(c) PROVE GapInv'
  BY <1>2, BeginBroadcastOwesNothing, OtherMoveOwesNothing, SendToOwesNothing DEF Reader
<1>3. ASSUME NEW c \in Conns, Peer(c) PROVE GapInv'
  BY <1>3, OtherMoveOwesNothing, ReceiveOwesNothing, FetchOwesNothing DEF Peer
<1> QED BY <1>1, <1>2, <1>3, WriterOwesNothing DEF Next

(* A client that fetches the history once it is in the room has no gap from *)
(* then on while its connection works: every message stored for its order   *)
(* was fetched, handed to its connection, is about to be, or was dropped    *)
(* because its channel was full.                                            *)
THEOREM CaughtUpClientsMissNothing == Spec => []NothingMissed
<1>1. Spec => [](IInv /\ DeliveryInv)
  BY InitDelivery, NextDelivery, InductiveInvariant, PTL DEF Spec
<1>2. GapInv => NothingMissed
  BY DEF GapInv
<1> QED BY <1>1, <1>2, InitGap, NextGap, PTL DEF Spec
=============================================================================
