---- MODULE ChatRoomsProofs ----
(***************************************************************************)
(* The rooms, for every number of connections, rooms, users and posts,     *)
(* with dying consumers and full channels.                                 *)
(*                                                                         *)
(* Who speaks in the chat room has an account.  ChatIsSigned is about what *)
(* was shown; what will be shown is in the channels, and what gets there   *)
(* depends on who is in the group of a room.  So RoomsInv follows a        *)
(* message back to its sender: the handlers, the channels, the groups      *)
(* (whose members are connections of the room that have passed the check), *)
(* and the users that connections have.                                    *)
(*                                                                         *)
(* Everyone in a room sees what is said there.  SeenByTheRoom begins when  *)
(* a connection is accepted, but a channel fills from the moment it joins  *)
(* the group, which is earlier.  So ToldInv splits what was broadcast at   *)
(* that moment: what was shown and what is in the channel, together, is    *)
(* what is seen of all since.                                              *)
(***************************************************************************)
EXTENDS ChatRooms, SubsequencesProofs, SequenceTheorems, TLAPS

\* A chat message in the chat room has the name of an account.
Signed(c, m) == conn[c].room = "chat" /\ m.type = "chat_message" => m.username \in Users

\* The chat room was entered with an account.
Admitted ==
  \A c \in Conns : conn[c].room = "chat" /\ conn[c].at \in {"add", "accept", "open"} =>
    conn[c].user \in Users

\* Groups have connections of their room, which are past their handshake.
Grouped ==
  \A r \in Rooms : \A c \in group[r] :
    conn[c].room = r /\ conn[c].at \notin {"new", "connect", "unanswered"}

\* Nothing is on its way to a connection, or on its screen, before it opens.
NewIsEmpty == \A c \in Conns : conn[c].at = "new" => channel[c] = << >> /\ shown[c] = << >>

\* What is on its way, and what was shown, is signed.
AllSigned ==
  \A c \in Conns :
    /\ \A i \in DOMAIN channel[c] : Signed(c, channel[c][i])
    /\ \A i \in DOMAIN shown[c] : Signed(c, shown[c][i])

RoomsInv == TypeOK /\ Admitted /\ Grouped /\ NewIsEmpty /\ AllSigned

----
(* Queues. *)

\* What is behind the head was there before.
LEMMA TailShorter ==
  ASSUME NEW S, NEW s \in Seq(S), s # << >>
  PROVE  /\ Head(s) \in S /\ Tail(s) \in Seq(S) /\ 1 \in DOMAIN s /\ Head(s) = s[1]
         /\ \A i \in DOMAIN Tail(s) : i + 1 \in DOMAIN s /\ Tail(s)[i] = s[i + 1]
<1>1. /\ Head(s) \in S /\ Tail(s) \in Seq(S) /\ Len(Tail(s)) = Len(s) - 1
      /\ \A i \in 1 .. Len(Tail(s)) : Tail(s)[i] = s[i + 1]
  BY HeadTailProperties
<1>2. /\ DOMAIN s = 1 .. Len(s) /\ DOMAIN Tail(s) = 1 .. Len(Tail(s))
      /\ Len(s) \in Nat /\ Len(s) # 0
  BY <1>1, LenProperties, EmptySeq
<1>3. Head(s) = s[1]
  OBVIOUS
<1> QED BY <1>1, <1>2, <1>3

\* What is in a longer queue was there before, or is the new one.
LEMMA AppendLonger ==
  ASSUME NEW S, NEW s \in Seq(S), NEW x \in S
  PROVE  /\ Append(s, x) \in Seq(S)
         /\ \A i \in DOMAIN Append(s, x) :
              \/ i \in DOMAIN s /\ Append(s, x)[i] = s[i]
              \/ Append(s, x)[i] = x
<1>1. /\ Append(s, x) \in Seq(S) /\ Len(Append(s, x)) = Len(s) + 1 /\ Len(s) \in Nat
      /\ \A i \in 1 .. Len(s) : Append(s, x)[i] = s[i]
      /\ Append(s, x)[Len(s) + 1] = x
  BY AppendProperties, LenProperties
<1>2. DOMAIN s = 1 .. Len(s) /\ DOMAIN Append(s, x) = 1 .. Len(s) + 1
  BY <1>1, LenProperties
<1> QED BY <1>1, <1>2

----
(* The types. *)

LEMMA TypeInit == Init => TypeOK
BY BoundsAssumption DEF Init, TypeOK, States

\* A connection's place changes, and nothing else but what the step names.
LEMMA MoveType ==
  ASSUME TypeOK, NEW c \in Conns, NEW at \in States, Move(c, at)
  PROVE  /\ conn' \in [Conns -> [at: States, room: Rooms, user: Users \cup {Anonymous}]]
         /\ conn'[c].at = at /\ conn'[c].room = conn[c].room /\ conn'[c].user = conn[c].user
         /\ \A d \in Conns : d # c => conn'[d] = conn[d]
BY DEF TypeOK, Move

LEMMA OpenType ==
  ASSUME TypeOK, NEW c \in Conns, Open(c)
  PROVE  TypeOK'
<1>1. PICK r \in Rooms, u \in Users \cup {Anonymous} :
        conn' = [conn EXCEPT ![c] = [at |-> "connect", room |-> r, user |-> u]]
  BY DEF Open, UserOf
<1>2. UNCHANGED <<inbox, shown, posts, group, channel, sent, seenFrom, missed, garbled>>
  BY DEF Open, layer, history
<1> QED BY <1>1, <1>2 DEF TypeOK, States

LEMMA PostType ==
  ASSUME TypeOK, NEW c \in Conns, Post(c)
  PROVE  TypeOK'
<1>1. PICK m \in Methods \cup {"garbage"} :
        /\ inbox' = [inbox EXCEPT ![c] = Append(@, [method |-> m, args |-> posts + 1])]
        /\ garbled' = IF m = "garbage" THEN garbled \cup {c} ELSE garbled
  BY DEF Post
<1>2. /\ posts' = posts + 1 /\ posts < MaxPosts
      /\ UNCHANGED <<conn, shown, group, channel, sent, seenFrom, missed>>
  BY DEF Post, layer
<1>3. posts' \in 0 .. MaxPosts
  BY <1>2, BoundsAssumption DEF TypeOK
<1>4. [method |-> m, args |-> posts + 1] \in Frame
  BY <1>2, <1>3 DEF Frame, Texts
<1>5. inbox[c] \in Seq(Frame)
  BY DEF TypeOK
<1>6. Append(inbox[c], [method |-> m, args |-> posts + 1]) \in Seq(Frame)
  <2>1. PICK f \in Frame : f = [method |-> m, args |-> posts + 1]
    BY <1>4
  <2>2. Append(inbox[c], f) \in Seq(Frame)
    BY <1>5, AppendProperties
  <2> QED BY <2>1, <2>2
<1>7. inbox' \in [Conns -> Seq(Frame)]
  BY <1>1, <1>6 DEF TypeOK
<1> QED BY <1>1, <1>2, <1>3, <1>7 DEF TypeOK

LEMMA LeaveType ==
  ASSUME TypeOK, NEW c \in Conns, Leave(c)
  PROVE  TypeOK'
<1>1. 0 \in Texts
  BY BoundsAssumption DEF Texts
<1>2. PICK f \in Frame : f = [method |-> "leave", args |-> 0]
  BY <1>1 DEF Frame
<1>3. inbox[c] \in Seq(Frame) /\ inbox' = [inbox EXCEPT ![c] = Append(@, f)]
  BY <1>2 DEF Leave, TypeOK
<1>4. Append(inbox[c], f) \in Seq(Frame)
  BY <1>3, AppendProperties
<1>5. inbox' \in [Conns -> Seq(Frame)]
  BY <1>3, <1>4 DEF TypeOK
<1> QED BY <1>5 DEF Leave, TypeOK, layer, history

\* connect.
LEMMA ConnectType ==
  ASSUME TypeOK, NEW c \in Conns, Admit(c) \/ GroupAdd(c) \/ Accept(c)
  PROVE  TypeOK'
<1>1. PICK at \in {"unanswered", "add", "accept", "open"} : Move(c, at)
  BY DEF Admit, GroupAdd, Accept
<1>2. conn' \in [Conns -> [at: States, room: Rooms, user: Users \cup {Anonymous}]]
  BY <1>1, MoveType DEF States
<1>3. group' \in [Rooms -> SUBSET Conns]
  BY DEF Admit, GroupAdd, Accept, layer, TypeOK
<1>4. seenFrom' \in [Conns -> Nat]
  <2>1. sent[RoomOf(c)] \in Seq(Message)
    BY DEF TypeOK, RoomOf
  <2>2. Len(sent[RoomOf(c)]) \in Nat
    BY <2>1, LenProperties
  <2> QED BY <2>2 DEF Admit, GroupAdd, Accept, history, TypeOK
<1>5. UNCHANGED <<inbox, shown, posts, channel, sent, missed, garbled>>
  BY DEF Admit, GroupAdd, Accept, layer, history
<1> QED BY <1>2, <1>3, <1>4, <1>5 DEF TypeOK

\* What a client posted becomes a message.
LEMMA Broadcast ==
  ASSUME TypeOK, NEW c \in Conns, Receive(c)
  PROVE  \E m \in Message :
           /\ m.username = conn[c].user /\ conn[c].at = "open"
           /\ GroupSend(conn[c].room, m) /\ conn[c].room \in Rooms
           /\ inbox' \in [Conns -> Seq(Frame)] /\ UNCHANGED <<conn, shown, posts>>
<1> DEFINE m == [type |-> HandlerOf(Head(inbox[c]).method), username |-> conn[c].user,
                 args |-> Head(inbox[c]).args]
<1>1. inbox[c] \in Seq(Frame) /\ inbox[c] # << >> /\ conn[c].at = "open"
      /\ conn[c].room \in Rooms /\ conn[c].user \in Users \cup {Anonymous}
  BY DEF Receive, Receives, At, TypeOK
<1>2. Head(inbox[c]) \in Frame /\ Tail(inbox[c]) \in Seq(Frame)
  BY <1>1, TailShorter
<1>3. m \in Message
  BY <1>1, <1>2 DEF Message, Frame, HandlerOf, Types
<1>4. GroupSend(conn[c].room, m) /\ inbox' = [inbox EXCEPT ![c] = Tail(@)]
      /\ UNCHANGED <<conn, shown, posts>>
  BY DEF Receive, RoomOf, Received
<1>5. inbox' \in [Conns -> Seq(Frame)]
  BY <1>2, <1>4 DEF TypeOK
<1>6. m.username = conn[c].user
  OBVIOUS
<1> HIDE DEF m
<1> QED BY <1>1, <1>3, <1>4, <1>5, <1>6

\* A message goes to the members of the room, or passes them over.
LEMMA Sent ==
  ASSUME TypeOK, NEW r \in Rooms, NEW m \in Message, GroupSend(r, m)
  PROVE  /\ channel' \in [Conns -> Seq(Message)] /\ sent' \in [Rooms -> Seq(Message)]
         /\ missed' \subseteq Conns /\ UNCHANGED <<group, seenFrom, garbled>>
         /\ \A c \in Conns : \/ channel'[c] = channel[c]
                             \/ c \in group[r] /\ channel'[c] = Append(channel[c], m)
<1>1. \A c \in Conns : channel[c] \in Seq(Message) /\ Append(channel[c], m) \in Seq(Message)
  BY AppendProperties DEF TypeOK
<1>2. sent[r] \in Seq(Message) /\ Append(sent[r], m) \in Seq(Message)
  BY AppendProperties DEF TypeOK
<1>3. \A c \in Conns : \/ channel'[c] = channel[c]
                       \/ c \in group[r] /\ channel'[c] = Append(channel[c], m)
  BY DEF GroupSend
<1>4. channel' \in [Conns -> Seq(Message)]
  <2>1. channel' = [c \in Conns |-> channel'[c]]
    BY DEF GroupSend
  <2>2. \A c \in Conns : channel'[c] \in Seq(Message)
    BY <1>1, <1>3
  <2> QED BY <2>1, <2>2
<1>5. sent' \in [Rooms -> Seq(Message)]
  BY <1>2 DEF GroupSend, TypeOK
<1> QED BY <1>3, <1>4, <1>5 DEF GroupSend, TypeOK

LEMMA ReceiveType ==
  ASSUME TypeOK, NEW c \in Conns, Receive(c)
  PROVE  TypeOK'
<1>1. PICK m \in Message :
        /\ GroupSend(conn[c].room, m) /\ conn[c].room \in Rooms
        /\ inbox' \in [Conns -> Seq(Frame)] /\ UNCHANGED <<conn, shown, posts>>
  BY Broadcast
<1> QED BY <1>1, Sent DEF TypeOK

\* A frame that ends a consumer, by its client's wish or not.
LEMMA StopType ==
  ASSUME TypeOK, NEW c \in Conns, ReceiveGarbage(c) \/ Disconnect(c)
  PROVE  TypeOK'
<1>1. PICK at \in {"dead", "closed"} : Move(c, at)
  BY DEF ReceiveGarbage, Disconnect
<1>2. conn' \in [Conns -> [at: States, room: Rooms, user: Users \cup {Anonymous}]]
  BY <1>1, MoveType DEF States
<1>3. inbox[c] \in Seq(Frame) /\ inbox[c] # << >> /\ inbox' = [inbox EXCEPT ![c] = Tail(@)]
  BY DEF ReceiveGarbage, Disconnect, Receives, Received, TypeOK
<1>4. inbox' \in [Conns -> Seq(Frame)]
  BY <1>3, TailShorter DEF TypeOK
<1>5. group' \in [Rooms -> SUBSET Conns]
  BY DEF ReceiveGarbage, Disconnect, layer, TypeOK
<1>6. UNCHANGED <<shown, posts, channel, sent, seenFrom, missed, garbled>>
  BY DEF ReceiveGarbage, Disconnect, layer, history
<1> QED BY <1>2, <1>4, <1>5, <1>6 DEF TypeOK

\* A handler shows what is at the head of the channel, or drops it.
LEMMA Handled ==
  ASSUME TypeOK, NEW c \in Conns, Handle(c)
  PROVE  \E m \in Message :
           /\ channel[c] \in Seq(Message) /\ channel[c] # << >> /\ m = Head(channel[c])
           /\ View(m) \in Shown
           /\ channel' = [channel EXCEPT ![c] = Tail(@)]
           /\ shown' = shown \/ shown' = [shown EXCEPT ![c] = Append(@, View(m))]
           /\ UNCHANGED <<conn, inbox, posts, group, sent, seenFrom, missed, garbled>>
<1>1. channel[c] \in Seq(Message) /\ channel[c] # << >>
  BY DEF Handle, TypeOK
<1>2. PICK m \in Message : m = Head(channel[c])
  BY <1>1, TailShorter
<1>3. View(m) \in Shown
  BY DEF View, Message, Shown
<1>4. /\ channel' = [channel EXCEPT ![c] = Tail(@)]
      /\ shown' = shown \/ shown' = [shown EXCEPT ![c] = Append(@, View(m))]
      /\ UNCHANGED <<conn, inbox, posts, group, sent, seenFrom, missed, garbled>>
  BY <1>2 DEF Handle, history
<1> QED BY <1>1, <1>2, <1>3, <1>4

LEMMA HandleType ==
  ASSUME TypeOK, NEW c \in Conns, Handle(c)
  PROVE  TypeOK'
<1>1. PICK m \in Message :
        /\ channel[c] \in Seq(Message) /\ channel[c] # << >> /\ View(m) \in Shown
        /\ channel' = [channel EXCEPT ![c] = Tail(@)]
        /\ shown' = shown \/ shown' = [shown EXCEPT ![c] = Append(@, View(m))]
        /\ UNCHANGED <<conn, inbox, posts, group, sent, seenFrom, missed, garbled>>
  BY Handled
<1>2. channel' \in [Conns -> Seq(Message)]
  BY <1>1, TailShorter DEF TypeOK
<1>3. shown[c] \in Seq(Shown) /\ Append(shown[c], View(m)) \in Seq(Shown)
  BY <1>1, AppendProperties DEF TypeOK
<1>4. shown' \in [Conns -> Seq(Shown)]
  BY <1>1, <1>3 DEF TypeOK
<1> QED BY <1>1, <1>2, <1>4 DEF TypeOK

LEMMA TypeNext == TypeOK /\ [Next]_vars => TypeOK'
<1> SUFFICES ASSUME TypeOK, [Next]_vars PROVE TypeOK'
  OBVIOUS
<1>1. CASE UNCHANGED vars
  BY <1>1 DEF TypeOK, vars, sockets, layer, history
<1>2. ASSUME NEW c \in Conns, Open(c) \/ Post(c) \/ Leave(c) \/ ConsumerStep(c) PROVE TypeOK'
  BY <1>2, OpenType, PostType, LeaveType, ConnectType, ReceiveType, StopType, HandleType
     DEF ConsumerStep
<1> QED BY <1>1, <1>2 DEF Next

\* The types of the rooms, for every number of connections and posts.
THEOREM RoomTypes == Spec => []TypeOK
BY TypeInit, TypeNext, PTL DEF Spec

----
(* Who is in a room, and what is said there. *)

\* A connection moves on, and nobody hears of it.
LEMMA QuietMove ==
  ASSUME RoomsInv, NEW c \in Conns, NEW at \in States \ {"new"}, Move(c, at),
         UNCHANGED <<channel, shown>>, \A r \in Rooms : group'[r] \subseteq group[r] \cup {c},
         conn[c].room = "chat" /\ at \in {"add", "accept", "open"} => conn[c].user \in Users,
         \A r \in Rooms : c \in group'[r] =>
           conn[c].room = r /\ at \notin {"connect", "unanswered"}
  PROVE  Admitted' /\ Grouped' /\ NewIsEmpty' /\ AllSigned'
<1>1. /\ conn'[c].at = at /\ conn'[c].room = conn[c].room /\ conn'[c].user = conn[c].user
      /\ \A d \in Conns : d # c => conn'[d] = conn[d]
  BY MoveType DEF RoomsInv
<1>2. Admitted'
  BY <1>1 DEF RoomsInv, Admitted
<1>3. Grouped'
  <2> SUFFICES ASSUME NEW r \in Rooms, NEW d \in group'[r]
               PROVE  conn'[d].room = r /\ conn'[d].at \notin {"new", "connect", "unanswered"}
    BY DEF Grouped
  <2>1. CASE d = c
    BY <1>1, <2>1
  <2>2. CASE d # c
    <3>1. d \in group[r] /\ d \in Conns
      BY <2>2 DEF RoomsInv, TypeOK
    <3> QED BY <1>1, <2>2, <3>1 DEF RoomsInv, Grouped
  <2> QED BY <2>1, <2>2
<1>4. NewIsEmpty'
  BY <1>1 DEF RoomsInv, NewIsEmpty
<1>5. AllSigned'
  BY <1>1 DEF RoomsInv, AllSigned, Signed
<1> QED BY <1>2, <1>3, <1>4, <1>5

\* A handshake, in whatever room and with whatever user.
LEMMA OpenKeeps ==
  ASSUME RoomsInv, NEW c \in Conns, Open(c)
  PROVE  Admitted' /\ Grouped' /\ NewIsEmpty' /\ AllSigned'
<1>1. PICK r \in Rooms, u \in Users \cup {Anonymous} :
        conn' = [conn EXCEPT ![c] = [at |-> "connect", room |-> r, user |-> u]]
  BY DEF Open, UserOf
<1>2. UNCHANGED <<group, channel, shown>> /\ conn[c].at = "new"
  BY DEF Open, layer, At
<1>3. /\ conn'[c].at = "connect" /\ \A d \in Conns : d # c => conn'[d] = conn[d]
  BY <1>1 DEF RoomsInv, TypeOK
<1>4. channel[c] = << >> /\ shown[c] = << >> /\ \A q \in Rooms : c \notin group[q]
  BY <1>2 DEF RoomsInv, NewIsEmpty, Grouped
<1>5. Admitted'
  BY <1>3 DEF RoomsInv, Admitted
<1>6. Grouped'
  <2> SUFFICES ASSUME NEW q \in Rooms, NEW d \in group[q]
               PROVE  conn'[d].room = q /\ conn'[d].at \notin {"new", "connect", "unanswered"}
    BY <1>2 DEF Grouped
  <2>1. d # c /\ d \in Conns
    BY <1>4 DEF RoomsInv, TypeOK
  <2> QED BY <1>3, <2>1 DEF RoomsInv, Grouped
<1>7. NewIsEmpty'
  BY <1>2, <1>3 DEF RoomsInv, NewIsEmpty
<1>8. AllSigned'
  <2> SUFFICES ASSUME NEW d \in Conns
               PROVE  /\ \A i \in DOMAIN channel[d] : Signed(d, channel[d][i])'
                      /\ \A i \in DOMAIN shown[d] : Signed(d, shown[d][i])'
    BY <1>2 DEF AllSigned
  <2>1. CASE d = c
    <3>1. DOMAIN channel[d] = {} /\ DOMAIN shown[d] = {}
      BY <1>4, <2>1
    <3> QED BY <3>1
  <2>2. CASE d # c
    BY <1>2, <1>3, <2>2 DEF RoomsInv, AllSigned, Signed
  <2> QED BY <2>1, <2>2
<1> QED BY <1>5, <1>6, <1>7, <1>8

\* connect and disconnect.
LEMMA MovesKeep ==
  ASSUME RoomsInv, NEW c \in Conns,
         Admit(c) \/ GroupAdd(c) \/ Accept(c) \/ ReceiveGarbage(c) \/ Disconnect(c)
  PROVE  Admitted' /\ Grouped' /\ NewIsEmpty' /\ AllSigned'
<1>1. UNCHANGED <<channel, shown>>
  BY DEF Admit, GroupAdd, Accept, ReceiveGarbage, Disconnect, layer
<1>2. conn[c].user \in Users \cup {Anonymous} /\ conn[c].room \in Rooms
  BY DEF RoomsInv, TypeOK
<1>3. CASE Admit(c)
  <2>1. PICK at \in {"unanswered", "add"} :
          /\ Move(c, at) /\ conn[c].at = "connect" /\ group' = group
          /\ conn[c].room = "chat" /\ conn[c].user = Anonymous => at = "unanswered"
    BY <1>3 DEF Admit, RoomOf, layer, At
  <2>2. \A r \in Rooms : c \notin group[r]
    BY <2>1 DEF RoomsInv, Grouped
  <2> QED BY <1>1, <1>2, <2>1, <2>2, QuietMove DEF States
<1>4. CASE GroupAdd(c)
  <2>1. /\ Move(c, "accept") /\ conn[c].at = "add"
        /\ group' = [group EXCEPT ![conn[c].room] = @ \cup {c}]
    BY <1>4 DEF GroupAdd, RoomOf, At
  <2>2. \A r \in Rooms : group'[r] \subseteq group[r] \cup {c}
                          /\ (r # conn[c].room => group'[r] = group[r])
    BY <2>1 DEF RoomsInv, TypeOK
  <2>3. \A r \in Rooms : c \in group'[r] => conn[c].room = r
    BY <2>2 DEF RoomsInv, Grouped
  <2> QED BY <1>1, <2>1, <2>2, <2>3, QuietMove DEF States, RoomsInv, Admitted
<1>5. CASE Accept(c)
  <2>1. Move(c, "open") /\ conn[c].at = "accept" /\ group' = group
    BY <1>5 DEF Accept, layer, At
  <2> QED BY <1>1, <2>1, QuietMove DEF States, RoomsInv, Admitted, Grouped
<1>6. CASE ReceiveGarbage(c)
  <2>1. Move(c, "dead") /\ group' = group
    BY <1>6 DEF ReceiveGarbage, layer
  <2> QED BY <1>1, <2>1, QuietMove DEF States, RoomsInv, Grouped
<1>7. CASE Disconnect(c)
  <2>1. Move(c, "closed") /\ group' = [group EXCEPT ![conn[c].room] = @ \ {c}]
    BY <1>7 DEF Disconnect, RoomOf
  <2>2. \A r \in Rooms : group'[r] \subseteq group[r]
    BY <2>1 DEF RoomsInv, TypeOK
  <2> QED BY <1>1, <2>1, <2>2, QuietMove DEF States, RoomsInv, Grouped
<1> QED BY <1>3, <1>4, <1>5, <1>6, <1>7

\* A broadcast reaches members only, with the name of its sender.
LEMMA ReceiveKeeps ==
  ASSUME RoomsInv, NEW c \in Conns, Receive(c)
  PROVE  Admitted' /\ Grouped' /\ NewIsEmpty' /\ AllSigned'
<1>1. PICK m \in Message :
        /\ m.username = conn[c].user /\ conn[c].at = "open"
        /\ GroupSend(conn[c].room, m) /\ conn[c].room \in Rooms
        /\ UNCHANGED <<conn, shown>>
  BY Broadcast DEF RoomsInv
<1>2. /\ group' = group
      /\ \A d \in Conns : \/ channel'[d] = channel[d]
                          \/ d \in group[conn[c].room] /\ channel'[d] = Append(channel[d], m)
  BY <1>1, Sent DEF RoomsInv
<1>3. conn[c].room = "chat" => m.username \in Users
  BY <1>1 DEF RoomsInv, Admitted
<1>4. \A d \in group[conn[c].room] : conn[d].room = conn[c].room /\ conn[d].at # "new"
  BY <1>1 DEF RoomsInv, Grouped
<1>5. Admitted' /\ Grouped' /\ NewIsEmpty'
  BY <1>1, <1>2, <1>4 DEF RoomsInv, Admitted, Grouped, NewIsEmpty
<1>6. AllSigned'
  <2> SUFFICES ASSUME NEW d \in Conns, NEW i \in DOMAIN channel'[d]
               PROVE  Signed(d, channel'[d][i])
    BY <1>1 DEF RoomsInv, AllSigned, Signed
  <2>1. CASE channel'[d] = channel[d]
    BY <2>1 DEF RoomsInv, AllSigned
  <2>2. CASE d \in group[conn[c].room] /\ channel'[d] = Append(channel[d], m)
    <3>1. channel[d] \in Seq(Message)
      BY DEF RoomsInv, TypeOK
    <3>2. \/ i \in DOMAIN channel[d] /\ channel'[d][i] = channel[d][i]
          \/ channel'[d][i] = m
      BY <2>2, <3>1, AppendLonger
    <3>3. Signed(d, m)
      BY <1>3, <1>4, <2>2 DEF Signed
    <3> QED BY <3>2, <3>3 DEF RoomsInv, AllSigned
  <2> QED BY <1>2, <2>1, <2>2
<1> QED BY <1>5, <1>6

\* What is shown was in the channel.
LEMMA HandleKeeps ==
  ASSUME RoomsInv, NEW c \in Conns, Handle(c)
  PROVE  Admitted' /\ Grouped' /\ NewIsEmpty' /\ AllSigned'
<1>1. PICK m \in Message :
        /\ channel[c] \in Seq(Message) /\ channel[c] # << >> /\ m = Head(channel[c])
        /\ View(m) \in Shown
        /\ channel' = [channel EXCEPT ![c] = Tail(@)]
        /\ shown' = shown \/ shown' = [shown EXCEPT ![c] = Append(@, View(m))]
        /\ UNCHANGED <<conn, group>>
  BY Handled DEF RoomsInv
<1>2. conn[c].at = "open"
  BY DEF Handle, At
<1>3. /\ channel'[c] = Tail(channel[c]) /\ \A d \in Conns : d # c => channel'[d] = channel[d]
      /\ shown'[c] = shown[c] \/ shown'[c] = Append(shown[c], View(m))
      /\ \A d \in Conns : d # c => shown'[d] = shown[d]
  BY <1>1 DEF RoomsInv, TypeOK
<1>4. Admitted' /\ Grouped' /\ NewIsEmpty'
  BY <1>1, <1>2, <1>3 DEF RoomsInv, Admitted, Grouped, NewIsEmpty
<1>5. m = channel[c][1] /\ 1 \in DOMAIN channel[c]
      /\ \A i \in DOMAIN Tail(channel[c]) :
           i + 1 \in DOMAIN channel[c] /\ Tail(channel[c])[i] = channel[c][i + 1]
  BY <1>1, TailShorter
<1>6. Signed(c, m)
  BY <1>5 DEF RoomsInv, AllSigned
<1>7. Signed(c, View(m))
  BY <1>6 DEF Signed, View, Message
<1>8. \A i \in DOMAIN channel'[c] : Signed(c, channel'[c][i])
  BY <1>3, <1>5 DEF RoomsInv, AllSigned
<1>9. \A i \in DOMAIN shown'[c] : Signed(c, shown'[c][i])
  <2>1. shown[c] \in Seq(Shown)
    BY DEF RoomsInv, TypeOK
  <2>2. \A i \in DOMAIN shown'[c] :
          \/ i \in DOMAIN shown[c] /\ shown'[c][i] = shown[c][i]
          \/ shown'[c][i] = View(m)
    BY <1>1, <1>3, <2>1, AppendLonger
  <2> QED BY <1>7, <2>2 DEF RoomsInv, AllSigned
<1>10. AllSigned'
  BY <1>1, <1>3, <1>8, <1>9 DEF RoomsInv, AllSigned, Signed
<1> QED BY <1>4, <1>10

LEMMA RoomsInit == Init => RoomsInv
<1>1. Init => Admitted /\ Grouped /\ NewIsEmpty /\ AllSigned
  BY DEF Init, Admitted, Grouped, NewIsEmpty, AllSigned
<1> QED BY <1>1, TypeInit DEF RoomsInv

LEMMA RoomsNext == RoomsInv /\ [Next]_vars => RoomsInv'
<1> SUFFICES ASSUME RoomsInv, [Next]_vars PROVE RoomsInv'
  OBVIOUS
<1>1. TypeOK'
  BY TypeNext DEF RoomsInv
<1>2. CASE UNCHANGED vars
  <2>1. UNCHANGED <<conn, group, channel, shown>>
    BY <1>2 DEF vars, sockets, layer
  <2> QED BY <1>1, <2>1 DEF RoomsInv, Admitted, Grouped, NewIsEmpty, AllSigned, Signed
<1>3. ASSUME NEW c \in Conns, Post(c) \/ Leave(c) PROVE RoomsInv'
  <2>1. UNCHANGED <<conn, group, channel, shown>>
    BY <1>3 DEF Post, Leave, layer
  <2> QED BY <1>1, <2>1 DEF RoomsInv, Admitted, Grouped, NewIsEmpty, AllSigned, Signed
<1>4. ASSUME NEW c \in Conns, Open(c) \/ ConsumerStep(c) PROVE RoomsInv'
  BY <1>1, <1>4, OpenKeeps, MovesKeep, ReceiveKeeps, HandleKeeps DEF RoomsInv, ConsumerStep
<1> QED BY <1>2, <1>3, <1>4 DEF Next

\* Whatever is shown in the chat room under a name has the name of an account.
THEOREM ChatHasNames == Spec => []ChatIsSigned
<1>1. RoomsInv => ChatIsSigned
  BY DEF RoomsInv, AllSigned, Signed, ChatIsSigned, RoomOf
<1> QED BY <1>1, RoomsInit, RoomsNext, PTL DEF Spec

----
(* What a client sees of what is broadcast. *)

Mapped(vs) == [i \in DOMAIN vs |-> View(vs[i])]
VisibleOf(ms) == {i \in DOMAIN ms : Visible(ms[i])}

LEMMA ViewsAre == \A ms : Views(ms) = Mapped(Select(ms, VisibleOf(ms)))
BY DEF Views, Mapped, VisibleOf

LEMMA ViewType == \A m \in Message : View(m) \in Shown
BY DEF View, Message, Shown

LEMMA MappedIs ==
  ASSUME NEW vs \in Seq(Message)
  PROVE  /\ Mapped(vs) \in Seq(Shown) /\ Len(Mapped(vs)) = Len(vs) /\ Len(vs) \in Nat
         /\ \A i \in 1 .. Len(vs) : Mapped(vs)[i] = View(vs[i])
<1>1. DOMAIN vs = 1 .. Len(vs) /\ Len(vs) \in Nat /\ \A i \in 1 .. Len(vs) : vs[i] \in Message
  BY LenProperties, ElementOfSeq
<1>2. /\ DOMAIN Mapped(vs) = 1 .. Len(vs)
      /\ \A i \in 1 .. Len(vs) : Mapped(vs)[i] = View(vs[i]) /\ Mapped(vs)[i] \in Shown
  BY <1>1, ViewType DEF Mapped
<1>3. Mapped(vs) = [i \in 1 .. Len(vs) |-> Mapped(vs)[i]]
  BY <1>1 DEF Mapped
<1> QED BY <1>1, <1>2, <1>3

LEMMA MappedConcat ==
  ASSUME NEW us \in Seq(Message), NEW vs \in Seq(Message)
  PROVE  Mapped(us \o vs) = Mapped(us) \o Mapped(vs)
<1>1. /\ us \o vs \in Seq(Message) /\ Len(us \o vs) = Len(us) + Len(vs)
      /\ \A i \in 1 .. Len(us) + Len(vs) :
           (us \o vs)[i] = IF i <= Len(us) THEN us[i] ELSE vs[i - Len(us)]
  BY ConcatProperties
<1>2. PICK ms \in Seq(Message) : ms = us \o vs
  BY <1>1
<1>3. PICK xs \in Seq(Shown), ys \in Seq(Shown), zs \in Seq(Shown) :
        xs = Mapped(us) /\ ys = Mapped(vs) /\ zs = Mapped(ms)
  BY MappedIs
<1>4. /\ Len(xs) = Len(us) /\ Len(ys) = Len(vs) /\ Len(zs) = Len(ms)
      /\ Len(us) \in Nat /\ Len(vs) \in Nat
      /\ \A i \in 1 .. Len(us) : xs[i] = View(us[i])
      /\ \A i \in 1 .. Len(vs) : ys[i] = View(vs[i])
      /\ \A i \in 1 .. Len(ms) : zs[i] = View(ms[i])
  BY <1>3, MappedIs
<1>5. /\ xs \o ys \in Seq(Shown) /\ Len(xs \o ys) = Len(us) + Len(vs)
      /\ \A i \in 1 .. Len(us) + Len(vs) :
           (xs \o ys)[i] = IF i <= Len(us) THEN xs[i] ELSE ys[i - Len(us)]
  <2>1. /\ xs \o ys \in Seq(Shown) /\ Len(xs \o ys) = Len(xs) + Len(ys)
        /\ \A i \in 1 .. Len(xs) + Len(ys) :
             (xs \o ys)[i] = IF i <= Len(xs) THEN xs[i] ELSE ys[i - Len(xs)]
    BY ConcatProperties
  <2>2. Len(xs) = Len(us) /\ Len(ys) = Len(vs)
    BY <1>4
  <2> QED BY <2>1, <2>2
<1>6. ASSUME NEW i \in 1 .. Len(us) + Len(vs) PROVE zs[i] = (xs \o ys)[i]
  <2>1. CASE i <= Len(us)
    <3>1. i \in 1 .. Len(us)
      BY <1>4, <2>1
    <3> QED BY <1>1, <1>2, <1>4, <1>5, <2>1, <3>1
  <2>2. CASE ~(i <= Len(us))
    <3>1. i - Len(us) \in 1 .. Len(vs)
      BY <1>4, <2>2
    <3> QED BY <1>1, <1>2, <1>4, <1>5, <2>2, <3>1
  <2> QED BY <2>1, <2>2
<1>7. zs = xs \o ys
  BY <1>1, <1>2, <1>4, <1>5, <1>6, SeqEqual
<1> QED BY <1>2, <1>3, <1>7

LEMMA ViewsType ==
  ASSUME NEW ms \in Seq(Message)
  PROVE  Views(ms) \in Seq(Shown)
BY ViewsAre, SelectCorresponds, MappedIs

\* What is seen of two parts is what is seen of the one and then of the other.
LEMMA ViewsConcat ==
  ASSUME NEW s \in Seq(Message), NEW t \in Seq(Message)
  PROVE  Views(s \o t) = Views(s) \o Views(t)
<1>1. /\ s \o t \in Seq(Message) /\ Len(s \o t) = Len(s) + Len(t)
      /\ Len(s) \in Nat /\ Len(t) \in Nat
      /\ DOMAIN s = 1 .. Len(s) /\ DOMAIN t = 1 .. Len(t)
      /\ \A i \in 1 .. Len(s) + Len(t) :
           (s \o t)[i] = IF i <= Len(s) THEN s[i] ELSE t[i - Len(s)]
  BY ConcatProperties, LenProperties
<1>2. PICK ms \in Seq(Message) : ms = s \o t
  BY <1>1
<1>3. DOMAIN ms = 1 .. Len(s) + Len(t)
  BY <1>1, <1>2, LenProperties
<1>4. \A i \in 1 .. Len(s) : i \in VisibleOf(ms) <=> i \in VisibleOf(s)
  BY <1>1, <1>2, <1>3 DEF VisibleOf
<1>5. ASSUME NEW i \in 1 .. Len(t)
      PROVE  i + Len(s) \in VisibleOf(ms) <=> i \in VisibleOf(t)
  <2>1. i + Len(s) \in 1 .. Len(s) + Len(t) /\ ~(i + Len(s) <= Len(s)) /\ (i + Len(s)) - Len(s) = i
    BY <1>1
  <2>2. ms[i + Len(s)] = t[i]
    BY <1>1, <1>2, <2>1
  <2> QED BY <1>1, <1>3, <2>1, <2>2 DEF VisibleOf
<1>6. Select(ms, VisibleOf(ms)) = Select(s, VisibleOf(s)) \o Select(t, VisibleOf(t))
  <2>1. PICK I, J, K : I = VisibleOf(ms) /\ J = VisibleOf(s) /\ K = VisibleOf(t)
    OBVIOUS
  <2>2. /\ \A i \in 1 .. Len(s) : i \in I <=> i \in J
        /\ \A i \in 1 .. Len(t) : i + Len(s) \in I <=> i \in K
    BY <1>4, <1>5, <2>1
  <2>3. Select(s \o t, I) = Select(s, J) \o Select(t, K)
    BY <2>2, SelectConcat
  <2> QED BY <1>2, <2>1, <2>3
<1>7. Select(s, VisibleOf(s)) \in Seq(Message) /\ Select(t, VisibleOf(t)) \in Seq(Message)
  BY SelectCorresponds
<1>8. Mapped(Select(ms, VisibleOf(ms))) =
        Mapped(Select(s, VisibleOf(s))) \o Mapped(Select(t, VisibleOf(t)))
  BY <1>6, <1>7, MappedConcat
<1> QED BY <1>2, <1>8, ViewsAre

\* Of nothing nothing is seen.
LEMMA ViewsOfNone == Views(<< >>) = << >>
<1>1. Len(<< >>) = 0
  OBVIOUS
<1>2. Select(<< >>, VisibleOf(<< >>)) = << >>
  BY <1>1, SelectUpToDef DEF Select
<1> QED BY <1>2, ViewsAre DEF Mapped

\* Of one message is seen what its handler shows.
LEMMA ViewsOfOne ==
  ASSUME NEW m \in Message
  PROVE  Views(<<m>>) = IF Visible(m) THEN <<View(m)>> ELSE << >>
<1>2. /\ Len(<<m>>) = 1 /\ 1 \in 1 .. 1 /\ DOMAIN <<m>> = {1} /\ <<m>>[1] = m
  OBVIOUS
<1>3. /\ SelectUpTo(<<m>>, VisibleOf(<<m>>))[0] = << >>
      /\ Select(<<m>>, VisibleOf(<<m>>)) = NextOf(<<m>>, VisibleOf(<<m>>), << >>, 1)
  <2>1. /\ SelectUpTo(<<m>>, VisibleOf(<<m>>))[0] = << >>
        /\ \A n \in 1 .. 1 : SelectUpTo(<<m>>, VisibleOf(<<m>>))[n] =
             NextOf(<<m>>, VisibleOf(<<m>>), SelectUpTo(<<m>>, VisibleOf(<<m>>))[n - 1], n)
    BY <1>2, SelectUpToDef
  <2>2. 1 - 1 = 0 /\ 1 \in 1 .. 1
    OBVIOUS
  <2> QED BY <1>2, <2>1, <2>2 DEF Select
<1>4. CASE Visible(m)
  <2>1. Select(<<m>>, VisibleOf(<<m>>)) = Append(<< >>, m)
    BY <1>2, <1>3, <1>4 DEF NextOf, VisibleOf
  <2>2. Append(<< >>, m) = <<m>>
    OBVIOUS
  <2>3. Mapped(<<m>>) = <<View(m)>>
    BY <1>2 DEF Mapped
  <2> QED BY <1>4, <2>1, <2>2, <2>3, ViewsAre
<1>5. CASE ~Visible(m)
  <2>1. Select(<<m>>, VisibleOf(<<m>>)) = << >>
    BY <1>2, <1>3, <1>5 DEF NextOf, VisibleOf
  <2> QED BY <1>5, <2>1, ViewsAre DEF Mapped
<1> QED BY <1>4, <1>5

LEMMA SuffixOfConcat ==
  ASSUME NEW X, NEW s \in Seq(X), NEW t \in Seq(X)
  PROVE  IsSuffix(t, s \o t)
<1>1. /\ s \o t \in Seq(X) /\ Len(s \o t) = Len(s) + Len(t)
      /\ \A i \in 1 .. Len(s) + Len(t) :
           (s \o t)[i] = IF i <= Len(s) THEN s[i] ELSE t[i - Len(s)]
      /\ Len(s) \in Nat /\ Len(t) \in Nat
  BY ConcatProperties, LenProperties
<1>2. PICK u \in Seq(X) : u = s \o t
  BY <1>1
<1>3. \A i \in Len(s) + 1 .. Len(u) : u[i] \in X
  BY <1>1, <1>2, ElementOfSeq
<1>4. /\ Len(s) + 1 \in Int /\ Len(u) \in Int /\ Len(u) - Len(t) + 1 = Len(s) + 1
      /\ Len(u) = Len(s) + Len(t) /\ Len(t) <= Len(u)
  BY <1>1, <1>2
<1> DEFINE v == SubSeq(u, Len(s) + 1, Len(u))
<1>5. /\ v \in Seq(X) /\ Len(v) = IF Len(s) + 1 <= Len(u) THEN Len(u) - (Len(s) + 1) + 1 ELSE 0
      /\ \A i \in 1 .. Len(u) - (Len(s) + 1) + 1 : v[i] = u[(Len(s) + 1) + i - 1]
  BY <1>3, <1>4, SubSeqProperties
<1> HIDE DEF v
<1>6. Len(v) = Len(t)
  BY <1>1, <1>4, <1>5
<1>7. ASSUME NEW i \in 1 .. Len(v) PROVE v[i] = t[i]
  <2>1. /\ i \in 1 .. Len(u) - (Len(s) + 1) + 1 /\ (Len(s) + 1) + i - 1 = Len(s) + i
        /\ Len(s) + i \in 1 .. Len(s) + Len(t) /\ ~(Len(s) + i <= Len(s))
        /\ (Len(s) + i) - Len(s) = i
    BY <1>1, <1>4, <1>6
  <2>2. u[Len(s) + i] = t[i]
    BY <1>1, <1>2, <2>1
  <2> QED BY <1>5, <2>1, <2>2
<1>8. v = t
  BY <1>5, <1>6, <1>7, SeqEqual
<1> QED BY <1>2, <1>4, <1>8 DEF IsSuffix, v

----
(* What has been told of what was sent. *)

\* Of what was sent, told is what is seen of all since some moment, which was
\* before the first from messages were sent if open.
Told(all, told, from, open) ==
  \E before, since \in Seq(Message) :
    /\ all = before \o since /\ told = Views(since)
    /\ open => Len(before) <= from /\ from <= Len(all)

LEMMA ToldNothing ==
  ASSUME NEW all \in Seq(Message), NEW from
  PROVE  Told(all, << >>, from, FALSE)
<1>1. << >> \in Seq(Message) /\ all = all \o << >>
  BY EmptySeq, ConcatEmptySeq
<1>2. \E before, since \in Seq(Message) : all = before \o since /\ << >> = Views(since)
  BY <1>1, ViewsOfNone
<1> QED BY <1>2 DEF Told

LEMMA ToldOpens ==
  ASSUME NEW all \in Seq(Message), NEW told, NEW from, NEW open, Told(all, told, from, open)
  PROVE  Told(all, told, Len(all), TRUE)
<1>1. PICK before \in Seq(Message), since \in Seq(Message) :
        all = before \o since /\ told = Views(since)
  BY DEF Told
<1>2. /\ Len(all) = Len(before) + Len(since) /\ Len(before) \in Nat /\ Len(since) \in Nat
  BY <1>1, ConcatProperties, LenProperties
<1>3. Len(before) <= Len(all) /\ Len(all) <= Len(all)
  BY <1>2
<1> QED BY <1>1, <1>3 DEF Told

LEMMA ToldMore ==
  ASSUME NEW all \in Seq(Message), NEW told, NEW from \in Nat, NEW open, NEW m \in Message,
         Told(all, told, from, open)
  PROVE  Told(Append(all, m), told \o Views(<<m>>), from, open)
<1>1. PICK before \in Seq(Message), since \in Seq(Message) :
        /\ all = before \o since /\ told = Views(since)
        /\ open => Len(before) <= from /\ from <= Len(all)
  BY DEF Told
<1>2. <<m>> \in Seq(Message)
  OBVIOUS
<1>3. since \o <<m>> \in Seq(Message)
  BY <1>2, ConcatProperties
<1>4. Append(all, m) = before \o (since \o <<m>>)
  <2>1. Append(all, m) = all \o <<m>>
    BY AppendIsConcat
  <2>2. (before \o since) \o <<m>> = before \o (since \o <<m>>)
    BY <1>2, ConcatAssociative
  <2> QED BY <1>1, <2>1, <2>2
<1>5. told \o Views(<<m>>) = Views(since \o <<m>>)
  BY <1>1, <1>2, ViewsConcat
<1>6. open => Len(before) <= from /\ from <= Len(Append(all, m))
  <2>1. Len(Append(all, m)) = Len(all) + 1 /\ Len(all) \in Nat
    BY AppendProperties, LenProperties
  <2> QED BY <1>1, <2>1
<1> QED BY <1>3, <1>4, <1>5, <1>6 DEF Told

\* What was sent since is told, in order and once, and nothing else.
LEMMA ToldIsSuffix ==
  ASSUME NEW all \in Seq(Message), NEW told, NEW from \in Nat, Told(all, told, from, TRUE)
  PROVE  /\ IsSuffix(Views(SubSeq(all, from + 1, Len(all))), told)
         /\ IsSuffix(told, Views(all))
<1>1. PICK before \in Seq(Message), since \in Seq(Message) :
        /\ all = before \o since /\ told = Views(since)
        /\ Len(before) <= from /\ from <= Len(all)
  BY DEF Told
<1>2. IsSuffix(told, Views(all))
  <2>1. Views(all) = Views(before) \o Views(since)
    BY <1>1, ViewsConcat
  <2>2. Views(before) \in Seq(Shown) /\ Views(since) \in Seq(Shown)
    BY ViewsType
  <2>3. IsSuffix(Views(since), Views(before) \o Views(since))
    BY <2>2, SuffixOfConcat
  <2> QED BY <1>1, <2>1, <2>3
<1> DEFINE n == Len(before)
           k == Len(all)
           mid == SubSeq(all, n + 1, from)
           rest == SubSeq(all, from + 1, k)
<1>3. /\ n \in Nat /\ k \in Nat /\ n <= from /\ from <= k
      /\ n + 1 \in 1 .. k + 1 /\ from \in (n + 1) - 1 .. k /\ k \in from .. k
  <2>1. n \in Nat /\ k \in Nat
    BY LenProperties
  <2> QED BY <1>1, <2>1
<1>4. mid \o rest = SubSeq(all, n + 1, k)
  BY <1>3, ConcatAdjacentSubSeq
<1>5. since = SubSeq(all, n + 1, k)
  <2>1. IsSuffix(since, before \o since)
    BY SuffixOfConcat
  <2>2. k = n + Len(since) /\ Len(since) \in Nat
    BY <1>1, ConcatProperties, LenProperties
  <2>3. k - Len(since) + 1 = n + 1
    BY <1>3, <2>2
  <2> QED BY <1>1, <2>1, <2>3 DEF IsSuffix
<1>6. mid \in Seq(Message) /\ rest \in Seq(Message)
  <2>1. /\ \A i \in n + 1 .. from : all[i] \in Message
        /\ \A i \in from + 1 .. k : all[i] \in Message
    <3>1. ASSUME NEW i \in Int, i \in n + 1 .. from \/ i \in from + 1 .. k PROVE i \in 1 .. k
      BY <1>3, <3>1
    <3> QED BY <1>3, <3>1, ElementOfSeq
  <2>2. n + 1 \in Int /\ from \in Int /\ from + 1 \in Int /\ k \in Int
    BY <1>3
  <2> HIDE DEF n, k
  <2> QED BY <2>1, <2>2, SubSeqProperties
<1> HIDE DEF n, k, mid, rest
<1>7. told = Views(mid) \o Views(rest)
  <2>1. Views(mid \o rest) = Views(mid) \o Views(rest)
    BY <1>6, ViewsConcat
  <2>2. mid \o rest = since
    BY <1>4, <1>5
  <2> QED BY <1>1, <2>1, <2>2
<1>8. IsSuffix(Views(rest), told)
  <2>1. Views(mid) \in Seq(Shown) /\ Views(rest) \in Seq(Shown)
    BY <1>6, ViewsType
  <2>2. IsSuffix(Views(rest), Views(mid) \o Views(rest))
    BY <2>1, SuffixOfConcat
  <2> QED BY <1>7, <2>2
<1> QED BY <1>2, <1>8 DEF rest, k

----
(* Everyone in the room is told. *)

\* Whoever is accepted is in the group; before it nobody is told anything.
InRoom(c) ==
  /\ conn[c].at \in {"accept", "open"} => c \in group[conn[c].room]
  /\ conn[c].at \in {"new", "connect", "add"} =>
       channel[c] = << >> /\ shown[c] = << >> /\ \A r \in Rooms : c \notin group[r]

Follows(c) ==
  conn[c].at \in {"accept", "open"} /\ c \notin missed =>
    Told(sent[conn[c].room], shown[c] \o Views(channel[c]), seenFrom[c], conn[c].at = "open")

ToldInv == \A c \in Conns : InRoom(c) /\ Follows(c)

\* Of a connection nothing changes.
LEMMA SameFollows ==
  ASSUME ToldInv, NEW c \in Conns,
         conn'[c] = conn[c], channel'[c] = channel[c], shown'[c] = shown[c],
         seenFrom'[c] = seenFrom[c], missed \subseteq missed',
         sent'[conn[c].room] = sent[conn[c].room],
         conn[c].room \in Rooms, \A r \in Rooms : c \in group'[r] <=> c \in group[r]
  PROVE  InRoom(c)' /\ Follows(c)'
BY DEF ToldInv, InRoom, Follows

\* Nothing is sent, and one connection moves on.
LEMMA OneFollows ==
  ASSUME RoomsInv, ToldInv, NEW c \in Conns, missed' = missed, sent' = sent,
         \A d \in Conns : d # c =>
           /\ conn'[d] = conn[d] /\ channel'[d] = channel[d] /\ shown'[d] = shown[d]
           /\ seenFrom'[d] = seenFrom[d]
           /\ \A r \in Rooms : d \in group'[r] <=> d \in group[r],
         InRoom(c)' /\ Follows(c)'
  PROVE  ToldInv'
<1>1. ASSUME NEW d \in Conns, d # c PROVE InRoom(d)' /\ Follows(d)'
  <2>1. conn[d].room \in Rooms
    BY DEF RoomsInv, TypeOK
  <2> QED BY <1>1, <2>1, SameFollows
<1> QED BY <1>1 DEF ToldInv

\* connect and disconnect.
LEMMA MovesFollow ==
  ASSUME RoomsInv, ToldInv, NEW c \in Conns,
         \/ Open(c) \/ Admit(c) \/ GroupAdd(c) \/ Accept(c)
         \/ ReceiveGarbage(c) \/ Disconnect(c)
  PROVE  ToldInv'
<1>1. /\ UNCHANGED <<channel, shown, missed, sent>>
      /\ conn[c].room \in Rooms /\ sent[conn[c].room] \in Seq(Message) /\ InRoom(c)
      /\ conn \in [Conns -> [at: States, room: Rooms, user: Users \cup {Anonymous}]]
      /\ group \in [Rooms -> SUBSET Conns] /\ seenFrom \in [Conns -> Nat]
  BY DEF Open, Admit, GroupAdd, Accept, ReceiveGarbage, Disconnect, layer, history,
         RoomsInv, TypeOK, ToldInv
<1>2. /\ \A d \in Conns : d # c => conn'[d] = conn[d] /\ seenFrom'[d] = seenFrom[d]
      /\ \A d \in Conns, r \in Rooms : d # c => (d \in group'[r] <=> d \in group[r])
  <2>1. \E x : conn' = [conn EXCEPT ![c] = x]
    BY <1>1 DEF Open, Admit, GroupAdd, Accept, ReceiveGarbage, Disconnect, Move
  <2>2. ASSUME NEW d \in Conns, d # c PROVE conn'[d] = conn[d]
    BY <1>1, <2>1, <2>2
  <2>3. ASSUME NEW d \in Conns, d # c PROVE seenFrom'[d] = seenFrom[d]
    BY <1>1, <2>3 DEF Open, Admit, GroupAdd, Accept, ReceiveGarbage, Disconnect, history
  <2>4. ASSUME NEW d \in Conns, d # c, NEW r \in Rooms PROVE d \in group'[r] <=> d \in group[r]
    <3>1. \/ group' = group
          \/ group' = [group EXCEPT ![RoomOf(c)] = @ \cup {c}]
          \/ group' = [group EXCEPT ![RoomOf(c)] = @ \ {c}]
      BY DEF Open, Admit, GroupAdd, Accept, ReceiveGarbage, Disconnect, layer
    <3> QED BY <1>1, <2>4, <3>1 DEF RoomOf
  <2> QED BY <2>2, <2>3, <2>4
<1>3. InRoom(c)' /\ Follows(c)'
  <2>1. CASE Open(c)
    <3>1. conn[c].at = "new" /\ conn'[c].at = "connect" /\ group' = group
      BY <1>1, <2>1 DEF Open, At, layer
    <3> QED BY <1>1, <3>1 DEF InRoom, Follows
  <2>2. CASE Admit(c)
    <3>1. conn[c].at = "connect" /\ conn'[c].at \in {"unanswered", "add"} /\ group' = group
      BY <1>1, <2>2 DEF Admit, At, Move, layer
    <3> QED BY <1>1, <3>1 DEF InRoom, Follows
  <2>3. CASE GroupAdd(c)
    <3>1. /\ conn[c].at = "add" /\ conn'[c].at = "accept" /\ conn'[c].room = conn[c].room
          /\ c \in group'[conn[c].room]
      BY <1>1, <2>3 DEF GroupAdd, At, Move, RoomOf
    <3>2. channel[c] = << >> /\ shown[c] = << >>
      BY <1>1, <3>1 DEF InRoom
    <3>3. shown[c] \o Views(channel[c]) = << >>
      BY <3>2, ViewsOfNone
    <3>4. Told(sent[conn[c].room], << >>, seenFrom'[c], FALSE)
      BY <1>1, ToldNothing
    <3>5. InRoom(c)'
      BY <3>1 DEF InRoom
    <3>6. Follows(c)'
      BY <1>1, <3>1, <3>3, <3>4 DEF Follows
    <3> QED BY <3>5, <3>6
  <2>4. CASE Accept(c)
    <3>1. /\ conn[c].at = "accept" /\ conn'[c].at = "open" /\ conn'[c].room = conn[c].room
          /\ group' = group /\ seenFrom'[c] = Len(sent[conn[c].room])
      BY <1>1, <2>4 DEF Accept, At, Move, RoomOf, layer
    <3>2. InRoom(c)'
      BY <1>1, <3>1 DEF InRoom
    <3>3. ASSUME c \notin missed
          PROVE  Told(sent[conn[c].room], shown[c] \o Views(channel[c]),
                      Len(sent[conn[c].room]), TRUE)
      BY <1>1, <3>1, <3>3, ToldOpens DEF ToldInv, Follows
    <3>4. Follows(c)'
      BY <1>1, <3>1, <3>3 DEF Follows
    <3> QED BY <3>2, <3>4
  <2>5. CASE ReceiveGarbage(c) \/ Disconnect(c)
    <3>1. conn'[c].at \in {"dead", "closed"}
      BY <1>1, <2>5 DEF ReceiveGarbage, Disconnect, Move
    <3> QED BY <3>1 DEF InRoom, Follows
  <2> QED BY <2>1, <2>2, <2>3, <2>4, <2>5
<1> QED BY <1>1, <1>2, <1>3, OneFollows

\* A broadcast: to a channel with room for it, or the channel is missed.
LEMMA ReceiveFollows ==
  ASSUME RoomsInv, ToldInv, NEW c \in Conns, Receive(c)
  PROVE  ToldInv'
<1>1. PICK m \in Message :
        /\ GroupSend(conn[c].room, m) /\ conn[c].room \in Rooms /\ UNCHANGED <<conn, shown>>
  BY Broadcast DEF RoomsInv
<1> DEFINE r == conn[c].room
<1>2. /\ group' = group /\ seenFrom' = seenFrom /\ missed \subseteq missed'
      /\ sent'[r] = Append(sent[r], m) /\ \A q \in Rooms : q # r => sent'[q] = sent[q]
      /\ \A d \in Conns : d \in group[r] /\ d \notin missed' =>
           channel'[d] = Append(channel[d], m)
      /\ \A d \in Conns : d \notin group[r] => channel'[d] = channel[d]
  <2>1. \A d \in Conns : Len(channel[d]) \in Nat
    BY LenProperties DEF RoomsInv, TypeOK
  <2>2. Capacity \in Nat
    BY BoundsAssumption
  <2>3. sent \in [Rooms -> Seq(Message)]
    BY DEF RoomsInv, TypeOK
  <2> QED BY <1>1, <2>1, <2>2, <2>3 DEF GroupSend
<1>3. ASSUME NEW d \in Conns, conn[d].at \in {"accept", "open"}, d \notin missed',
             conn[d].room = r
      PROVE  Told(sent'[r], shown[d] \o Views(channel'[d]), seenFrom[d], conn[d].at = "open")
  <2>1. /\ channel[d] \in Seq(Message) /\ shown[d] \in Seq(Shown)
        /\ seenFrom[d] \in Nat /\ sent[r] \in Seq(Message) /\ <<m>> \in Seq(Message)
    BY <1>1 DEF RoomsInv, TypeOK
  <2>2. channel'[d] = Append(channel[d], m)
    BY <1>2, <1>3 DEF ToldInv, InRoom
  <2>3. Told(sent[r], shown[d] \o Views(channel[d]), seenFrom[d], conn[d].at = "open")
    BY <1>2, <1>3 DEF ToldInv, Follows
  <2>4. Told(Append(sent[r], m), (shown[d] \o Views(channel[d])) \o Views(<<m>>),
             seenFrom[d], conn[d].at = "open")
    BY <2>1, <2>3, ToldMore
  <2>5. (shown[d] \o Views(channel[d])) \o Views(<<m>>) = shown[d] \o Views(channel'[d])
    <3>1. Views(channel'[d]) = Views(channel[d]) \o Views(<<m>>)
      <4>1. Append(channel[d], m) = channel[d] \o <<m>>
        BY <2>1, AppendIsConcat
      <4> QED BY <2>1, <2>2, <4>1, ViewsConcat
    <3>2. Views(channel[d]) \in Seq(Shown) /\ Views(<<m>>) \in Seq(Shown)
      BY <2>1, ViewsType
    <3>3. PICK x \in Seq(Shown), y \in Seq(Shown), z \in Seq(Shown) :
            x = shown[d] /\ y = Views(channel[d]) /\ z = Views(<<m>>)
      BY <2>1, <3>2
    <3>4. (x \o y) \o z = x \o (y \o z)
      BY ConcatAssociative
    <3> QED BY <3>1, <3>3, <3>4
  <2> QED BY <1>2, <2>4, <2>5
<1>4. ASSUME NEW d \in Conns PROVE InRoom(d)' /\ Follows(d)'
  <2>1. conn[d].room \in Rooms /\ (d \in group[r] => conn[d].room = r)
        /\ (d \in group[r] => conn[d].at \notin {"new", "connect", "add"})
    BY <1>1 DEF RoomsInv, TypeOK, Grouped, ToldInv, InRoom
  <2>2. CASE conn[d].room # r
    BY <1>1, <1>2, <2>1, <2>2, SameFollows
  <2>3. CASE conn[d].room = r
    <3>1. InRoom(d)'
      BY <1>1, <1>2, <2>1 DEF ToldInv, InRoom
    <3>2. Follows(d)'
      BY <1>1, <1>2, <1>3, <2>3 DEF Follows
    <3> QED BY <3>1, <3>2
  <2> QED BY <2>2, <2>3
<1> QED BY <1>4 DEF ToldInv

\* A handler shows the first of what is on its way, or drops what nobody sees.
LEMMA HandleFollows ==
  ASSUME RoomsInv, ToldInv, NEW c \in Conns, Handle(c)
  PROVE  ToldInv'
<1>1. PICK m \in Message :
        /\ channel[c] \in Seq(Message) /\ channel[c] # << >> /\ m = Head(channel[c])
        /\ channel' = [channel EXCEPT ![c] = Tail(@)]
        /\ UNCHANGED <<conn, group, sent, seenFrom, missed>>
  BY Handled DEF RoomsInv
<1>2. /\ View(m) \in Shown /\ shown \in [Conns -> Seq(Shown)] /\ conn[c].at = "open"
      /\ channel \in [Conns -> Seq(Message)] /\ shown[c] \in Seq(Shown)
      /\ <<m>> \in Seq(Message) /\ Tail(channel[c]) \in Seq(Message)
  BY <1>1, ViewType, TailShorter DEF RoomsInv, TypeOK, Handle, At
<1>3. /\ \A d \in Conns : d # c => channel'[d] = channel[d] /\ shown'[d] = shown[d]
      /\ channel'[c] = Tail(channel[c])
  BY <1>1, <1>2 DEF Handle
<1>4. shown'[c] = shown[c] \o Views(<<m>>)
  <2>1. CASE Visible(m)
    <3>1. shown'[c] = Append(shown[c], View(m))
      BY <1>1, <1>2, <2>1 DEF Handle, Visible
    <3>2. Append(shown[c], View(m)) = shown[c] \o <<View(m)>>
      BY <1>2, AppendIsConcat
    <3> QED BY <2>1, <3>1, <3>2, ViewsOfOne
  <2>2. CASE ~Visible(m)
    <3>1. shown' = shown
      BY <1>1, <2>2 DEF Handle, Visible
    <3>2. shown[c] \o << >> = shown[c]
      BY <1>2, ConcatEmptySeq
    <3> QED BY <2>2, <3>1, <3>2, ViewsOfOne
  <2> QED BY <2>1, <2>2
<1>5. Views(channel[c]) = Views(<<m>>) \o Views(Tail(channel[c]))
  <2>1. channel[c] = <<m>> \o Tail(channel[c])
    <3>1. PICK ms \in Seq(Message) : ms = channel[c] /\ ms # << >>
      BY <1>1
    <3>2. Len(ms) \in Nat /\ Len(ms) # 0
      BY <3>1, EmptySeq
    <3>3. 1 \in 1 .. Len(ms) /\ Len(ms) \in 1 .. Len(ms) /\ 1 + 1 = 2
      BY <3>2
    <3>4. SubSeq(ms, 1, Len(ms)) = <<ms[1]>> \o SubSeq(ms, 2, Len(ms))
      BY <3>3, SubSeqRecursiveFirst
    <3>5. SubSeq(ms, 1, Len(ms)) = ms /\ Tail(ms) = SubSeq(ms, 2, Len(ms))
      BY <3>1, SubSeqFull, TailIsSubSeq
    <3>6. m = ms[1]
      BY <1>1, <3>1, TailShorter
    <3> QED BY <3>1, <3>4, <3>5, <3>6
  <2>2. Views(<<m>> \o Tail(channel[c])) = Views(<<m>>) \o Views(Tail(channel[c]))
    BY <1>2, ViewsConcat
  <2> QED BY <2>1, <2>2
<1>6. shown'[c] \o Views(channel'[c]) = shown[c] \o Views(channel[c])
  <2>1. PICK x \in Seq(Shown), y \in Seq(Shown), z \in Seq(Shown) :
          x = shown[c] /\ y = Views(<<m>>) /\ z = Views(Tail(channel[c]))
    BY <1>2, ViewsType
  <2>2. (x \o y) \o z = x \o (y \o z)
    BY ConcatAssociative
  <2> QED BY <1>3, <1>4, <1>5, <2>1, <2>2
<1>7. InRoom(c)'
  BY <1>1, <1>2 DEF ToldInv, InRoom
<1>8. Follows(c)'
  BY <1>1, <1>6 DEF ToldInv, Follows
<1> QED BY <1>1, <1>3, <1>7, <1>8, OneFollows

LEMMA ToldInit == Init => ToldInv
BY DEF Init, ToldInv, InRoom, Follows

LEMMA ToldNext == RoomsInv /\ ToldInv /\ [Next]_vars => ToldInv'
<1> SUFFICES ASSUME RoomsInv, ToldInv, [Next]_vars PROVE ToldInv'
  OBVIOUS
<1>1. ASSUME UNCHANGED <<conn, shown, layer, sent, seenFrom, missed>> PROVE ToldInv'
  <2>1. UNCHANGED <<conn, shown, group, channel, sent, seenFrom, missed>>
    BY <1>1 DEF layer
  <2> QED BY <2>1 DEF ToldInv, InRoom, Follows
<1>2. CASE UNCHANGED vars
  BY <1>1, <1>2 DEF vars, sockets, history
<1>3. ASSUME NEW c \in Conns, Post(c) \/ Leave(c) PROVE ToldInv'
  BY <1>1, <1>3 DEF Post, Leave, history
<1>4. ASSUME NEW c \in Conns, Open(c) \/ ConsumerStep(c) PROVE ToldInv'
  BY <1>4, MovesFollow, ReceiveFollows, HandleFollows DEF ConsumerStep
<1> QED BY <1>2, <1>3, <1>4 DEF Next

\* A message is seen by everyone in the room and by no one in another, in order
\* and once, for any number of connections, rooms and messages; unless a channel
\* was full.
THEOREM RoomSeesAll == Spec => []SeenByTheRoom
<1>1. RoomsInv /\ ToldInv => SeenByTheRoom
  <2> SUFFICES ASSUME RoomsInv, ToldInv, NEW c \in Conns, conn[c].at = "open", c \notin missed
               PROVE  LET seen == shown[c] \o Views(channel[c])
                          all == sent[conn[c].room]
                      IN  /\ IsSuffix(Views(SubSeq(all, seenFrom[c] + 1, Len(all))), seen)
                          /\ IsSuffix(seen, Views(all))
    BY DEF SeenByTheRoom, At, RoomOf
  <2>1. seenFrom[c] \in Nat /\ sent[conn[c].room] \in Seq(Message)
    BY DEF RoomsInv, TypeOK
  <2>2. Told(sent[conn[c].room], shown[c] \o Views(channel[c]), seenFrom[c], TRUE)
    BY DEF ToldInv, Follows
  <2> QED BY <2>1, <2>2, ToldIsSuffix
<1> QED BY <1>1, RoomsInit, RoomsNext, ToldInit, ToldNext, PTL DEF Spec
====
