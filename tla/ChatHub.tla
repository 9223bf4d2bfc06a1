------------------------------- MODULE ChatHub -------------------------------
(***************************************************************************)
(* Trade-room chat: the WebSocket hub and the two goroutines of every      *)
(* connection.  The reader stores what its peer sends, broadcasts it to    *)
(* the order's room and, when the peer is the trader, to the admins'       *)
(* notification connections; the writer drains the connection's buffered   *)
(* channel into the socket.  The hub's RWMutex is held for the whole of a  *)
(* broadcast, which sends to one connection at a time.  The peer of a      *)
(* connection fetches the order's stored messages over HTTP, whenever it   *)
(* likes: before, while or after it connects.                              *)
(*                                                                         *)
(* A message is its position in the stored sequence; a connection is used  *)
(* once (a peer that reconnects is another connection).                    *)
(***************************************************************************)
EXTENDS Naturals, Sequences

CONSTANTS
  Clients,      \* connections to a trade room, each by a party to its order
  Admins,       \* connections to the notification stream
  Orders,
  Room,         \* [Clients -> Orders]
  Traders,      \* the clients that are not the order's merchant
  Fetchers,     \* bound: the clients whose peers fetch the history
  BufferSize,   \* capacity of a connection's channel (16 in the code)
  MaxMessages   \* bound: messages ever stored

Conns == Clients \cup Admins

ASSUME ChatHubAssumption ==
  /\ Clients \cap Admins = {} /\ Traders \subseteq Clients /\ Fetchers \subseteq Clients
  /\ Room \in [Clients -> Orders]
  /\ BufferSize \in Nat \ {0} /\ MaxMessages \in Nat

VARIABLES
  pc,         \* the reader goroutine: where it is in Stream and readPump
  writer,     \* the writer goroutine: "none", "running" or "done"
  rooms,      \* Hub.rooms; a room without members is deleted
  admins,     \* Hub.admins
  send,       \* each connection's channel
  closed,     \* the channels that have been closed
  targets,    \* whom a broadcast under way has not come to yet
  stored,     \* collection "order_messages": the sender of each message
  current,    \* the message each reader is handing on
  received,   \* what each connection's peer has been sent
  history,    \* how many stored messages the peer's last fetch had before it
  caughtUp,   \* the clients that fetched while they were in their room
  missed      \* <<client, message>>: dropped because the channel was full

http == <<history, caughtUp>>
hub == <<rooms, admins>>
channels == <<send, closed>>
vars == <<pc, writer, hub, channels, targets, stored, current, received, http, missed>>

PCs == {"away", "register", "reading", "broadcast", "sending", "notify", "notifying",
        "unregister", "closing", "gone"}

-----------------------------------------------------------------------------
At(c, p) == pc[c] = p
Goto(c, p) == pc' = [pc EXCEPT ![c] = p]

(* sync.RWMutex: a reader waits while a Lock call is pending, a Lock call   *)
(* waits for the readers inside.                                            *)
MayRLock == \A c \in Conns : pc[c] \notin {"register", "unregister"}
(* mutant: Register and Unregister do not take the lock *)
MayLockAlways == TRUE

MayLock  == \A c \in Conns : pc[c] \notin {"sending", "notifying"}

Registered(c) == IF c \in Admins THEN c \in admins ELSE c \in rooms[Room[c]]

(* The handshake, after History has checked that the caller is a party to   *)
(* the order                                                                *)
Connect(c) ==
  /\ At(c, "away")
  /\ Goto(c, "register")
  /\ UNCHANGED <<writer, hub, channels, targets, stored, current, received, http, missed>>

Register(c) ==
  /\ c \in Clients /\ At(c, "register") /\ MayLock
  /\ rooms' = [rooms EXCEPT ![Room[c]] = @ \cup {c}]
  /\ writer' = [writer EXCEPT ![c] = "running"]
  /\ Goto(c, "reading")
  /\ UNCHANGED <<admins, channels, targets, stored, current, received, http, missed>>

RegisterAdmin(c) ==
  /\ c \in Admins /\ At(c, "register") /\ MayLock
  /\ admins' = admins \cup {c}
  /\ writer' = [writer EXCEPT ![c] = "running"]
  /\ Goto(c, "reading")
  /\ UNCHANGED <<rooms, channels, targets, stored, current, received, http, missed>>

(* readPump: a message comes in and chat.Service.Send stores it *)
Receive(c) ==
  /\ c \in Clients /\ At(c, "reading") /\ Len(stored) < MaxMessages
  /\ stored' = Append(stored, c)
  /\ current' = [current EXCEPT ![c] = Len(stored) + 1]
  /\ Goto(c, "broadcast")
  /\ UNCHANGED <<writer, hub, channels, targets, received, http, missed>>

(* mutant: a message goes to every room *)
BroadcastToAllRooms(c) ==
  /\ At(c, "broadcast") /\ MayRLock
  /\ targets' = [targets EXCEPT ![c] = UNION {rooms[o] : o \in Orders}]
  /\ Goto(c, "sending")
  /\ UNCHANGED <<writer, hub, channels, stored, current, received, http, missed>>

BeginBroadcast(c) ==
  /\ At(c, "broadcast") /\ MayRLock
  /\ targets' = [targets EXCEPT ![c] = rooms[Room[c]]]
  /\ Goto(c, "sending")
  /\ UNCHANGED <<writer, hub, channels, stored, current, received, http, missed>>

BeginNotify(c) ==
  /\ At(c, "notify") /\ MayRLock
  /\ targets' = [targets EXCEPT ![c] = admins]
  /\ Goto(c, "notifying")
  /\ UNCHANGED <<writer, hub, channels, stored, current, received, http, missed>>

(* mutant: the channel has no capacity limit *)
SendToUnbounded(c, d) ==
  /\ pc[c] \in {"sending", "notifying"} /\ d \in targets[c]
  /\ targets' = [targets EXCEPT ![c] = @ \ {d}]
  /\ send' = [send EXCEPT ![d] = Append(@, current[c])]
  /\ UNCHANGED <<pc, writer, hub, closed, stored, current, received, http, missed>>

(* mutant: the last place of the buffer is never used *)
SendToAlmostFull(c, d) ==
  /\ pc[c] \in {"sending", "notifying"} /\ d \in targets[c]
  /\ targets' = [targets EXCEPT ![c] = @ \ {d}]
  /\ send' = IF Len(send[d]) + 1 < BufferSize
             THEN [send EXCEPT ![d] = Append(@, current[c])] ELSE send
  /\ missed' = IF Len(send[d]) < BufferSize THEN missed ELSE missed \cup {<<d, current[c]>>}
  /\ UNCHANGED <<pc, writer, hub, closed, stored, current, received, http>>

(* mutant: a connection is not ticked off, so it is sent to again *)
SendToTwice(c, d) ==
  /\ pc[c] \in {"sending", "notifying"} /\ d \in targets[c]
  /\ \/ targets' = [targets EXCEPT ![c] = @ \ {d}]
     \/ UNCHANGED targets
  /\ send' = IF Len(send[d]) < BufferSize
             THEN [send EXCEPT ![d] = Append(@, current[c])] ELSE send
  /\ missed' = IF Len(send[d]) < BufferSize THEN missed ELSE missed \cup {<<d, current[c]>>}
  /\ UNCHANGED <<pc, writer, hub, closed, stored, current, received, http>>

(* mutant: a select without its default branch *)
SendToBlocks(c, d) ==
  /\ pc[c] \in {"sending", "notifying"} /\ d \in targets[c]
  /\ Len(send[d]) < BufferSize
  /\ targets' = [targets EXCEPT ![c] = @ \ {d}]
  /\ send' = [send EXCEPT ![d] = Append(@, current[c])]
  /\ UNCHANGED <<pc, writer, hub, closed, stored, current, received, http, missed>>

(* The select in Broadcast: a full channel drops the message. *)
SendTo(c, d) ==
  /\ pc[c] \in {"sending", "notifying"} /\ d \in targets[c]
  /\ targets' = [targets EXCEPT ![c] = @ \ {d}]
  /\ send' = IF Len(send[d]) < BufferSize
             THEN [send EXCEPT ![d] = Append(@, current[c])] ELSE send
  /\ missed' = IF Len(send[d]) < BufferSize THEN missed ELSE missed \cup {<<d, current[c]>>}
  /\ UNCHANGED <<pc, writer, hub, closed, stored, current, received, http>>

(* mutant: the merchant's messages are notified too *)
EndBroadcastNotifies(c) ==
  /\ At(c, "sending") /\ targets[c] = {}
  /\ Goto(c, "notify")
  /\ UNCHANGED <<writer, hub, channels, targets, stored, current, received, http, missed>>

(* Only a trader's message is worth a notification. *)
EndBroadcast(c) ==
  /\ At(c, "sending") /\ targets[c] = {}
  /\ Goto(c, IF c \in Traders THEN "notify" ELSE "reading")
  /\ UNCHANGED <<writer, hub, channels, targets, stored, current, received, http, missed>>

EndNotify(c) ==
  /\ At(c, "notifying") /\ targets[c] = {}
  /\ Goto(c, "reading")
  /\ UNCHANGED <<writer, hub, channels, targets, stored, current, received, http, missed>>

(* ReadMessage fails: the peer is gone. *)
Disconnect(c) ==
  /\ At(c, "reading")
  /\ Goto(c, "unregister")
  /\ UNCHANGED <<writer, hub, channels, targets, stored, current, received, http, missed>>

(* mutant: whether the room exists is asked after leaving it *)
UnregisterAsksLate(c) ==
  /\ c \in Clients /\ At(c, "unregister") /\ MayLock
  /\ rooms' = [rooms EXCEPT ![Room[c]] = @ \ {c}]
  /\ closed' = IF rooms'[Room[c]] # {} THEN closed \cup {c} ELSE closed
  /\ Goto(c, "closing")
  /\ UNCHANGED <<writer, admins, send, targets, stored, current, received, http, missed>>

(* The channel is closed if the order's room still exists. *)
Unregister(c) ==
  /\ c \in Clients /\ At(c, "unregister") /\ MayLock
  /\ rooms' = [rooms EXCEPT ![Room[c]] = @ \ {c}]
  /\ closed' = IF rooms[Room[c]] # {} THEN closed \cup {c} ELSE closed
  /\ Goto(c, "closing")
  /\ UNCHANGED <<writer, admins, send, targets, stored, current, received, http, missed>>

(* mutant: the channel is left open *)
UnregisterAdminOpen(c) ==
  /\ c \in Admins /\ At(c, "unregister") /\ MayLock
  /\ admins' = admins \ {c}
  /\ Goto(c, "closing")
  /\ UNCHANGED <<writer, rooms, channels, targets, stored, current, received, http, missed>>

UnregisterAdmin(c) ==
  /\ c \in Admins /\ At(c, "unregister") /\ MayLock
  /\ admins' = admins \ {c}
  /\ closed' = IF c \in admins THEN closed \cup {c} ELSE closed
  /\ Goto(c, "closing")
  /\ UNCHANGED <<writer, rooms, send, targets, stored, current, received, http, missed>>

CloseConn(c) ==
  /\ At(c, "closing")
  /\ Goto(c, "gone")
  /\ UNCHANGED <<writer, hub, channels, targets, stored, current, received, http, missed>>

(* GET /orders/:id/messages: every message stored for the order so far *)
FetchHistory(c) ==
  /\ c \in Fetchers /\ ~At(c, "gone")
  /\ history' = [history EXCEPT ![c] = Len(stored)]
  /\ caughtUp' = IF Registered(c) THEN caughtUp \cup {c} ELSE caughtUp
  /\ UNCHANGED <<pc, writer, hub, channels, targets, stored, current, received, missed>>

-----------------------------------------------------------------------------
(* writePump *)

Write(c) ==
  /\ writer[c] = "running" /\ send[c] # <<>> /\ ~At(c, "gone")
  /\ send' = [send EXCEPT ![c] = Tail(@)]
  /\ received' = [received EXCEPT ![c] = Append(@, Head(send[c]))]
  /\ UNCHANGED <<pc, writer, hub, closed, targets, stored, current, http, missed>>

(* The socket is closed or broken: the message taken is lost. *)
WriteFails(c) ==
  /\ writer[c] = "running" /\ send[c] # <<>>
  /\ send' = [send EXCEPT ![c] = Tail(@)]
  /\ writer' = [writer EXCEPT ![c] = "done"]
  /\ UNCHANGED <<pc, hub, closed, targets, stored, current, received, http, missed>>

WriterEnds(c) ==
  /\ writer[c] = "running" /\ send[c] = <<>> /\ c \in closed
  /\ writer' = [writer EXCEPT ![c] = "done"]
  /\ UNCHANGED <<pc, hub, channels, targets, stored, current, received, http, missed>>

-----------------------------------------------------------------------------
Init ==
  /\ pc = [c \in Conns |-> "away"]
  /\ writer = [c \in Conns |-> "none"]
  /\ rooms = [o \in Orders |-> {}]
  /\ admins = {}
  /\ send = [c \in Conns |-> <<>>]
  /\ closed = {}
  /\ targets = [c \in Conns |-> {}]
  /\ stored = <<>>
  /\ current = [c \in Conns |-> 0]
  /\ received = [c \in Conns |-> <<>>]
  /\ history = [c \in Clients |-> 0] /\ caughtUp = {} /\ missed = {}

(* What a reader goroutine does without waiting for its peer *)
Reader(c) ==
  \/ Register(c) \/ RegisterAdmin(c) \/ Unregister(c) \/ UnregisterAdmin(c) \/ CloseConn(c)
  \/ BeginBroadcast(c) \/ EndBroadcast(c) \/ BeginNotify(c) \/ EndNotify(c)
  \/ \E d \in Conns : SendTo(c, d)

Peer(c) == Connect(c) \/ Receive(c) \/ Disconnect(c) \/ FetchHistory(c)

Writer(c) == Write(c) \/ WriteFails(c) \/ WriterEnds(c)

Next == \E c \in Conns : Reader(c) \/ Peer(c) \/ Writer(c)

Spec == Init /\ [][Next]_vars

(* A goroutine that can run does run; a socket write may take for ever, but *)
(* not one to a socket this end has closed.                                 *)
FairSpec == /\ Spec
            /\ \A c \in Conns : WF_vars(Reader(c)) /\ WF_vars(At(c, "gone") /\ Writer(c))

-----------------------------------------------------------------------------
Messages == 1 .. MaxMessages

TypeOK ==
  /\ pc \in [Conns -> PCs]
  /\ writer \in [Conns -> {"none", "running", "done"}]
  /\ rooms \in [Orders -> SUBSET Clients] /\ admins \subseteq Admins
  /\ send \in [Conns -> Seq(Messages)] /\ closed \subseteq Conns
  /\ \A c \in Conns : Len(send[c]) <= BufferSize
  /\ targets \in [Conns -> SUBSET Conns]
  /\ stored \in Seq(Clients) /\ Len(stored) <= MaxMessages
  /\ current \in [Conns -> 0 .. MaxMessages]
  /\ received \in [Conns -> Seq(Messages)]
  /\ history \in [Clients -> 0 .. MaxMessages] /\ caughtUp \subseteq Clients
  /\ missed \subseteq Conns \X Messages

-----------------------------------------------------------------------------
(* No broadcast ever sends on a closed channel (which would panic), and no   *)
(* channel is closed twice: Unregister and the broadcasts exclude each       *)
(* other through the hub's lock, and a closed connection is in no room.      *)
NoSendAfterClose ==
  /\ \A c \in Conns : targets[c] \cap closed = {}
  /\ \A c \in Conns : Registered(c) => c \notin closed
  /\ \A c \in Conns : At(c, "unregister") => c \notin closed

(* A connection receives only stored messages, a client those of its own     *)
(* order and an admin those of traders, each at most once and those of one   *)
(* sender in the order they were stored, however the broadcasts overlap.     *)
Delivered(c) == received[c] \o send[c]
DeliveryIsSound ==
  \A c \in Conns :
    LET d == Delivered(c)
    IN  /\ \A i \in 1 .. Len(d) :
             /\ d[i] <= Len(stored)
             /\ IF c \in Admins THEN stored[d[i]] \in Traders ELSE Room[stored[d[i]]] = Room[c]
        /\ \A i, j \in 1 .. Len(d) : i < j /\ stored[d[i]] = stored[d[j]] => d[i] < d[j]

(* A client that fetches the history once it is in the room has no gap from  *)
(* then on, as long as its connection works: every message stored for the    *)
(* order is in what it fetched, has been handed to its connection, is about  *)
(* to be, or was dropped because its channel was full.  Overlapping          *)
(* broadcasts, arrivals and departures cost it nothing.  (One that fetches   *)
(* first and connects afterwards may have a gap.)                            *)
OnItsWay(m, c) ==
  LET s == stored[m]
  IN  /\ current[s] = m
      /\ \/ At(s, "broadcast")
         \/ At(s, "sending") /\ c \in targets[s]

NothingMissed ==
  \A c \in caughtUp : Registered(c) /\ writer[c] = "running" =>
    \A m \in history[c] + 1 .. Len(stored) : Room[stored[m]] = Room[c] =>
      \/ \E i \in DOMAIN Delivered(c) : Delivered(c)[i] = m
      \/ OnItsWay(m, c)
      \/ <<c, m>> \in missed

(* A slow or stuck peer never holds up a broadcaster: a reader that has      *)
(* stored a message gets back to its own peer (the default branch of the     *)
(* select), although nothing is assumed of any writer.                       *)
BroadcastFinishes ==
  \A c \in Clients : At(c, "broadcast") ~> At(c, "reading")

(* When a connection is gone its writer goroutine ends too: Unregister       *)
(* always finds the room and closes the channel.                             *)
NoWriterLeaks == \A c \in Conns : At(c, "gone") ~> writer[c] # "running"
=============================================================================
