---- MODULE ChatRooms ----
(***************************************************************************)
(* The WebSocket rooms (ws/consumers.py, backendviteadmin/auth.py): the    *)
(* middleware that finds the user of a connection, and one consumer per    *)
(* connection that joins the group of its room, broadcasts what its client *)
(* posts and shows what others broadcast.                                  *)
(*                                                                         *)
(* A consumer handles one event at a time: what its client sends, in       *)
(* order, and what the channel layer has for it, in order, in any mixture. *)
(* Consumers run side by side and interleave at every await.  The channel  *)
(* layer (Redis) is external: a group_send is one script, which passes     *)
(* over channels that are full.                                            *)
(***************************************************************************)
EXTENDS Naturals, Sequences, Subsequences

CONSTANTS
  Conns,     \* connections, each opened once
  Rooms,     \* room names; "chat" is the one that asks for a user
  Users,     \* accounts
  Anonymous, \* the user who is none
  Tokens,    \* what the query string may hold
  Methods,   \* the methods clients post
  Capacity,  \* messages a channel holds
  MaxPosts   \* bound: frames clients post

ASSUME TokensAssumption ==
  Tokens \subseteq {"none", "valid", "deleted_user", "expired", "malformed"}
ASSUME BoundsAssumption ==
  /\ Anonymous \notin Users /\ "chat" \in Rooms
  /\ Capacity \in Nat \ {0} /\ MaxPosts \in Nat

VARIABLES
  conn,     \* connection -> where its consumer is, its room and its user
  inbox,    \* connection -> frames its consumer has not received
  group,    \* room -> the channels in its group
  channel,  \* connection -> messages its consumer has not handled
  shown,    \* connection -> what its client was shown
  posts,    \* frames sent so far
  sent,     \* history: room -> what was broadcast in it
  seenFrom, \* history: connection -> broadcasts before it was accepted
  missed,   \* history: channels that were full when something was broadcast
  garbled   \* history: connections that sent what is not JSON

sockets == <<conn, inbox, shown, posts>>
layer == <<group, channel>>
history == <<sent, seenFrom, missed, garbled>>
vars == <<sockets, layer, history>>

\* The text of a post is its number; a frame without text has 0.
Texts == 0 .. MaxPosts
Types == {"chat_message", "log_message", "terminal_message", "unexpected_message"}
Message == [type: Types, username: Users \cup {Anonymous}, args: Texts]
\* A log or terminal message is shown without its sender.
Shown == [type: Types, username: Users \cup {Anonymous, "unnamed"}, args: Texts]
Frame == [method: Methods \cup {"leave", "garbage"}, args: Texts]
States == {"new", "connect", "add", "accept", "open", "unanswered", "closed", "dead"}

Init ==
  /\ conn = [c \in Conns |-> [at |-> "new", room |-> "chat", user |-> Anonymous]]
  /\ inbox = [c \in Conns |-> << >>] /\ shown = [c \in Conns |-> << >>]
  /\ group = [r \in Rooms |-> {}] /\ channel = [c \in Conns |-> << >>]
  /\ posts = 0
  /\ sent = [r \in Rooms |-> << >>] /\ seenFrom = [c \in Conns |-> 0] /\ missed = {}
  /\ garbled = {}

At(c, at) == conn[c].at = at
Move(c, at) == conn' = [conn EXCEPT ![c].at = at]
RoomOf(c) == conn[c].room

----
(* The client. *)

\* The user the middleware finds: that of the token; the one of the session
\* when the token is too old or cannot be read; else nobody.
UserOf(token, user, session) ==
  CASE token = "valid" -> user
    [] token \in {"expired", "malformed"} -> session
    [] OTHER -> Anonymous

\* The handshake, with the users of the token and of the session cookie.
Open(c) ==
  \E r \in Rooms, token \in Tokens, user \in Users, session \in Users \cup {Anonymous} :
    /\ At(c, "new")
    /\ conn' = [conn EXCEPT ![c] = [at |-> "connect", room |-> r,
                                      user |-> UserOf(token, user, session)]]
    /\ UNCHANGED <<inbox, shown, posts, layer, history>>

Post(c) ==
  /\ At(c, "open") /\ posts < MaxPosts
  /\ \E m \in Methods \cup {"garbage"} :
       /\ inbox' = [inbox EXCEPT ![c] = Append(@, [method |-> m, args |-> posts + 1])]
       /\ garbled' = IF m = "garbage" THEN garbled \cup {c} ELSE garbled
  /\ posts' = posts + 1
  /\ UNCHANGED <<conn, shown, layer, sent, seenFrom, missed>>

\* The client goes, or its handshake times out; nothing comes from it then.
Gone(c) == \E i \in DOMAIN inbox[c] : inbox[c][i].method = "leave"
Leave(c) ==
  /\ conn[c].at \in {"connect", "add", "accept", "open", "unanswered"} /\ ~Gone(c)
  /\ inbox' = [inbox EXCEPT ![c] = Append(@, [method |-> "leave", args |-> 0])]
  /\ UNCHANGED <<conn, shown, posts, layer, history>>

----
(* connect: authentication, then membership, then the answer. *)

\* Mutated form: everyone may chat.
AdmitAll(c) ==
  /\ At(c, "connect")
  /\ Move(c, "add")
  /\ UNCHANGED <<inbox, shown, posts, layer, history>>

\* Without a user the chat room gives no answer: no membership, no close.
Admit(c) ==
  /\ At(c, "connect")
  /\ Move(c, IF RoomOf(c) = "chat" /\ conn[c].user = Anonymous THEN "unanswered" ELSE "add")
  /\ UNCHANGED <<inbox, shown, posts, layer, history>>

\* Mutated form: one group for all rooms.
GroupAddEverywhere(c) ==
  /\ At(c, "add")
  /\ Move(c, "accept")
  /\ group' = [r \in Rooms |-> group[r] \cup {c}]
  /\ UNCHANGED <<inbox, shown, posts, channel, history>>

GroupAdd(c) ==
  /\ At(c, "add")
  /\ Move(c, "accept")
  /\ group' = [group EXCEPT ![RoomOf(c)] = @ \cup {c}]
  /\ UNCHANGED <<inbox, shown, posts, channel, history>>

Accept(c) ==
  /\ At(c, "accept")
  /\ Move(c, "open")
  /\ seenFrom' = [seenFrom EXCEPT ![c] = Len(sent[RoomOf(c)])]
  /\ UNCHANGED <<inbox, shown, posts, layer, sent, missed, garbled>>

----
(* receive, the broadcast, the handlers and disconnect. *)

\* Mutated form: a method nobody knows names its own handler.
HandlerNamedByClient(method) ==
  CASE method = "chat" -> "chat_message"
    [] method = "log" -> "log_message"
    [] method = "terminal" -> "terminal_message"
    [] OTHER -> method

HandlerOf(method) ==
  CASE method = "chat" -> "chat_message"
    [] method = "log" -> "log_message"
    [] method = "terminal" -> "terminal_message"
    [] OTHER -> "unexpected_message"

GroupSend(r, m) ==
  /\ channel' = [c \in Conns |->
       IF c \in group[r] /\ Len(channel[c]) < Capacity THEN Append(channel[c], m)
                                                       ELSE channel[c]]
  /\ sent' = [sent EXCEPT ![r] = Append(@, m)]
  /\ missed' = missed \cup {c \in group[r] : Len(channel[c]) >= Capacity}
  /\ UNCHANGED <<group, seenFrom, garbled>>

Receives(c, methods) ==
  At(c, "open") /\ inbox[c] # << >> /\ Head(inbox[c]).method \in methods
Received(c) == inbox' = [inbox EXCEPT ![c] = Tail(@)]

Receive(c) ==
  /\ Receives(c, Methods)
  /\ Received(c)
  /\ GroupSend(RoomOf(c), [type |-> HandlerOf(Head(inbox[c]).method),
                           username |-> conn[c].user, args |-> Head(inbox[c]).args])
  /\ UNCHANGED <<conn, shown, posts>>

\* json.loads raises: the consumer dies, and stays in its group.
ReceiveGarbage(c) ==
  /\ Receives(c, {"garbage"})
  /\ Received(c) /\ Move(c, "dead")
  /\ UNCHANGED <<shown, posts, layer, history>>

View(m) == IF m.type = "chat_message" THEN m ELSE [m EXCEPT !.username = "unnamed"]

\* Mutated form: a message nobody expected has no handler.
HandleKnownOnly(c) ==
  /\ At(c, "open") /\ channel[c] # << >>
  /\ channel' = [channel EXCEPT ![c] = Tail(@)]
  /\ IF Head(channel[c]).type = "unexpected_message"
       THEN Move(c, "dead") /\ UNCHANGED shown
       ELSE /\ shown' = [shown EXCEPT ![c] = Append(@, View(Head(channel[c])))]
            /\ UNCHANGED conn
  /\ UNCHANGED <<inbox, posts, group, history>>

\* The handler the message names: all but unexpected_message show it.
Handle(c) ==
  /\ At(c, "open") /\ channel[c] # << >>
  /\ channel' = [channel EXCEPT ![c] = Tail(@)]
  /\ shown' = IF Head(channel[c]).type = "unexpected_message" THEN shown
              ELSE [shown EXCEPT ![c] = Append(@, View(Head(channel[c])))]
  /\ UNCHANGED <<conn, inbox, posts, group, history>>

Disconnect(c) ==
  /\ conn[c].at \in {"open", "unanswered"}
  /\ inbox[c] # << >> /\ Head(inbox[c]).method = "leave"
  /\ Received(c) /\ Move(c, "closed")
  /\ group' = [group EXCEPT ![RoomOf(c)] = @ \ {c}]
  /\ UNCHANGED <<shown, posts, channel, history>>

----

ConsumerStep(c) ==
  \/ Admit(c) \/ GroupAdd(c) \/ Accept(c)
  \/ Receive(c) \/ ReceiveGarbage(c) \/ Handle(c) \/ Disconnect(c)

Next == \E c \in Conns : Open(c) \/ Post(c) \/ Leave(c) \/ ConsumerStep(c)

Spec == Init /\ [][Next]_vars

\* The event loop runs every consumer on, and takes from both its queues.
Fairness ==
  \A c \in Conns :
    /\ WF_vars(Admit(c)) /\ WF_vars(GroupAdd(c)) /\ WF_vars(Accept(c))
    /\ WF_vars(Receive(c) \/ ReceiveGarbage(c) \/ Disconnect(c))
    /\ WF_vars(Handle(c))
FairSpec == Spec /\ Fairness

----
(* Properties. *)

TypeOK ==
  /\ conn \in [Conns -> [at: States, room: Rooms, user: Users \cup {Anonymous}]]
  /\ inbox \in [Conns -> Seq(Frame)] /\ channel \in [Conns -> Seq(Message)]
  /\ shown \in [Conns -> Seq(Shown)] /\ posts \in 0..MaxPosts
  /\ group \in [Rooms -> SUBSET Conns] /\ sent \in [Rooms -> Seq(Message)]
  /\ seenFrom \in [Conns -> Nat] /\ missed \subseteq Conns
  /\ garbled \subseteq Conns

Visible(m) == m.type # "unexpected_message"
Views(ms) == LET vs == Select(ms, {i \in DOMAIN ms : Visible(ms[i])})
             IN  [i \in DOMAIN vs |-> View(vs[i])]
IsSuffix(s, t) == Len(s) <= Len(t) /\ s = SubSeq(t, Len(t) - Len(s) + 1, Len(t))

\* ws/tests.py: a message is seen by everyone in the room and by no one in
\* another: what a client was or will be shown ends with all that was
\* broadcast in its room since it was accepted, in order and once, and is
\* nothing but what was broadcast there; unless its channel was full.
SeenByTheRoom ==
  \A c \in Conns :
    LET seen == shown[c] \o Views(channel[c])
    IN At(c, "open") /\ c \notin missed =>
         /\ IsSuffix(Views(SubSeq(sent[RoomOf(c)], seenFrom[c] + 1, Len(sent[RoomOf(c)]))), seen)
         /\ IsSuffix(seen, Views(sent[RoomOf(c)]))

\* "chat room, authentication is required": whatever was shown in the chat
\* room under a name was posted under the name of an account.
ChatIsSigned ==
  \A c \in Conns : \A i \in DOMAIN shown[c] :
    RoomOf(c) = "chat" /\ shown[c][i].type = "chat_message" => shown[c][i].username \in Users

\* What is broadcast in a room is, sooner or later, on the screen of all who
\* are in it: a consumer with something to do gets done with it, unless its
\* client leaves or has sent garbage itself; never by what others send.
Done(c) == At(c, "open") /\ inbox[c] = << >> /\ channel[c] = << >>
EveryoneCatchesUp ==
  \A c \in Conns :
    At(c, "open") ~> (Done(c) \/ Gone(c) \/ At(c, "closed") \/ c \in garbled)
====
