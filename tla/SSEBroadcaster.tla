--------------------------- MODULE SSEBroadcaster ---------------------------
(***************************************************************************)
(* internal/events/sse.go: one goroutine takes the notifications of        *)
(* PostgreSQL and offers each to the channel of every dashboard; each      *)
(* dashboard has a handler that subscribes, streams its channel to the     *)
(* client, and unsubscribes when the client is gone.                       *)
(*                                                                         *)
(* The RWMutex is held for reading during a whole broadcast (bMsg # 0) and *)
(* for writing during one map operation, which is one step here.  As in    *)
(* Go, a goroutine that waits in Lock keeps new readers out.               *)
(***************************************************************************)
EXTENDS Naturals, Sequences, FiniteSets

CONSTANTS
    Clients,      \* connections, each made once; a client and its channel
    BufferSize,   \* the capacity of a channel, 64 in the code
    MaxMessages,  \* bound: notifications in a behaviour, numbered in their order
    Faults        \* TRUE: the listener's connection may break

ASSUME BroadcasterAssumption ==
    /\ BufferSize \in Nat \ {0}
    /\ MaxMessages \in Nat
    /\ Faults \in BOOLEAN

VARIABLES
    sent,     \* notifications sent so far
    inbox,    \* those the listener has still to take
    lost,     \* those that went down with the listener's connection
    clients,  \* b.clients
    chan,     \* the content of each channel
    closed,   \* closed channels
    bMsg,     \* the message being broadcast, 0 when none is
    bTodo,    \* clients the loop over b.clients has still to visit
    begun,    \* the last message whose broadcast has begun
    hpc,      \* where each client's handler is
    gone,     \* clients that have disconnected: ctx.Done() is closed
    joined,   \* what begun was when the client was registered
    out,      \* messages written to the client
    dropped   \* messages that found the client's channel full

bVars == <<bMsg, bTodo, begun>>

hVars == <<hpc, gone, joined, out>>

vars == <<sent, inbox, lost, clients, chan, closed, bVars, hVars, dropped>>

Messages == 1..MaxMessages

HandlerPCs == {"idle", "lockSub", "stream", "lockUnsub", "close", "done"}

Init ==
    /\ sent = 0
    /\ inbox = <<>>
    /\ lost = {}
    /\ clients = {}
    /\ chan = [c \in Clients |-> <<>>]
    /\ closed = {}
    /\ bMsg = 0
    /\ bTodo = {}
    /\ begun = 0
    /\ hpc = [c \in Clients |-> "idle"]
    /\ gone = {}
    /\ joined = [c \in Clients |-> 0]
    /\ out = [c \in Clients |-> <<>>]
    /\ dropped = [c \in Clients |-> {}]

----------------------------------------------------------------------------
(* The database and the listener's connection, external *)

PgNotify ==
    /\ sent < MaxMessages
    /\ sent' = sent + 1
    /\ inbox' = Append(inbox, sent + 1)
    /\ UNCHANGED <<lost, clients, chan, closed, bVars, hVars, dropped>>

\* What was under way is lost.  After the reconnection the listener delivers nil,
\* which listen skips.
Reconnect ==
    /\ Faults
    /\ \E n \in 0..(Len(inbox) - 1) :
          /\ inbox' = SubSeq(inbox, 1, n)
          /\ lost' = lost \union {inbox[i] : i \in (n + 1)..Len(inbox)}
    /\ UNCHANGED <<sent, clients, chan, closed, bVars, hVars, dropped>>

----------------------------------------------------------------------------
(* broadcast *)

Reading == bMsg # 0

WriterWaits == \E c \in Clients : hpc[c] \in {"lockSub", "lockUnsub"}

\* listen takes a notification and broadcast gets the read lock.
BeginBroadcast ==
    /\ ~Reading
    /\ ~WriterWaits
    /\ inbox # <<>>
    /\ bMsg' = Head(inbox)
    /\ begun' = Head(inbox)
    /\ inbox' = Tail(inbox)
    /\ bTodo' = clients
    /\ UNCHANGED <<sent, lost, clients, chan, closed, hVars, dropped>>

\* Mutant: a plain send, which waits for room in the channel.
OfferBlocking(c) ==
    /\ c \in bTodo
    /\ bTodo' = bTodo \ {c}
    /\ Len(chan[c]) < BufferSize
    /\ chan' = [chan EXCEPT ![c] = Append(@, bMsg)]
    /\ UNCHANGED <<sent, inbox, lost, clients, closed, bMsg, begun, hVars, dropped>>

\* Mutant: a full channel loses its oldest message to make room.
OfferDroppingOldest(c) ==
    /\ c \in bTodo
    /\ bTodo' = bTodo \ {c}
    /\ IF Len(chan[c]) < BufferSize
       THEN chan' = [chan EXCEPT ![c] = Append(@, bMsg)] /\ UNCHANGED dropped
       ELSE /\ chan' = [chan EXCEPT ![c] = Append(Tail(@), bMsg)]
            /\ dropped' = [dropped EXCEPT ![c] = @ \union {bMsg}]
    /\ UNCHANGED <<sent, inbox, lost, clients, closed, bMsg, begun, hVars>>

\* The select with a default: the channels come in any order, a full one is skipped.
Offer(c) ==
    /\ c \in bTodo
    /\ bTodo' = bTodo \ {c}
    /\ \/ /\ Len(chan[c]) < BufferSize
          /\ chan' = [chan EXCEPT ![c] = Append(@, bMsg)]
          /\ UNCHANGED dropped
       \/ /\ Len(chan[c]) >= BufferSize
          /\ dropped' = [dropped EXCEPT ![c] = @ \union {bMsg}]
          /\ UNCHANGED chan
    /\ UNCHANGED <<sent, inbox, lost, clients, closed, bMsg, begun, hVars>>

EndBroadcast ==
    /\ Reading
    /\ bTodo = {}
    /\ bMsg' = 0
    /\ UNCHANGED <<sent, inbox, lost, clients, chan, closed, bTodo, begun, hVars, dropped>>

----------------------------------------------------------------------------
(* ServeHTTP *)

\* Headers, the first comment, make(chan), and the call of Lock.
Connect(c) ==
    /\ hpc[c] = "idle"
    /\ hpc' = [hpc EXCEPT ![c] = "lockSub"]
    /\ UNCHANGED <<sent, inbox, lost, clients, chan, closed, bVars, gone, joined, out, dropped>>

Subscribe(c) ==
    /\ hpc[c] = "lockSub"
    /\ ~Reading
    /\ clients' = clients \union {c}
    /\ joined' = [joined EXCEPT ![c] = begun]
    /\ hpc' = [hpc EXCEPT ![c] = "stream"]
    /\ UNCHANGED <<sent, inbox, lost, chan, closed, bVars, gone, out, dropped>>

Disconnect(c) ==
    /\ hpc[c] \in {"lockSub", "stream"}
    /\ c \notin gone
    /\ gone' = gone \union {c}
    /\ UNCHANGED <<sent, inbox, lost, clients, chan, closed, bVars, hpc, joined, out, dropped>>

\* The write's error is ignored, so a client that is gone may still be written to;
\* select is free to choose between the two cases.
Stream(c) ==
    /\ hpc[c] = "stream"
    /\ chan[c] # <<>>
    /\ chan' = [chan EXCEPT ![c] = Tail(@)]
    /\ out' = [out EXCEPT ![c] = Append(@, Head(chan[c]))]
    /\ UNCHANGED <<sent, inbox, lost, clients, closed, bVars, hpc, gone, joined, dropped>>

\* ctx.Done(): the deferred Unsubscribe calls Lock.
Leave(c) ==
    /\ hpc[c] = "stream"
    /\ c \in gone
    /\ hpc' = [hpc EXCEPT ![c] = "lockUnsub"]
    /\ UNCHANGED <<sent, inbox, lost, clients, chan, closed, bVars, gone, joined, out, dropped>>

\* Mutant: the map is changed without the lock.
UnsubscribeUnlocked(c) ==
    /\ hpc[c] = "lockUnsub"
    /\ clients' = clients \ {c}
    /\ hpc' = [hpc EXCEPT ![c] = "close"]
    /\ UNCHANGED <<sent, inbox, lost, chan, closed, bVars, gone, joined, out, dropped>>

Unsubscribe(c) ==
    /\ hpc[c] = "lockUnsub"
    /\ ~Reading
    /\ clients' = clients \ {c}
    /\ hpc' = [hpc EXCEPT ![c] = "close"]
    /\ UNCHANGED <<sent, inbox, lost, chan, closed, bVars, gone, joined, out, dropped>>

\* close(ch), after the lock is released.
Close(c) ==
    /\ hpc[c] = "close"
    /\ closed' = closed \union {c}
    /\ hpc' = [hpc EXCEPT ![c] = "done"]
    /\ UNCHANGED <<sent, inbox, lost, clients, chan, bVars, gone, joined, out, dropped>>

----------------------------------------------------------------------------
Listener == BeginBroadcast \/ (\E c \in Clients : Offer(c)) \/ EndBroadcast

Next ==
    \/ PgNotify \/ Reconnect
    \/ Listener
    \/ \E c \in Clients :
          \/ Connect(c) \/ Subscribe(c) \/ Disconnect(c) \/ Stream(c) \/ Leave(c)
          \/ Unsubscribe(c) \/ Close(c)

Spec == Init /\ [][Next]_vars

\* Goroutines that can run do; select takes ctx.Done() sooner or later.  Nothing is
\* asked of the client: a write to one that does not read may take forever.
Fairness ==
    /\ WF_vars(Listener)
    /\ \A c \in Clients :
          WF_vars(Subscribe(c)) /\ WF_vars(Leave(c)) /\ WF_vars(Unsubscribe(c)) /\ WF_vars(Close(c))

FairSpec == Spec /\ Fairness

----------------------------------------------------------------------------
(* Properties *)

Members(s) == {s[i] : i \in DOMAIN s}

Increasing(s) == \A i, j \in DOMAIN s : i < j => s[i] < s[j]

TypeOK ==
    /\ sent \in 0..MaxMessages
    /\ inbox \in Seq(Messages)
    /\ lost \subseteq Messages
    /\ clients \subseteq Clients
    /\ chan \in [Clients -> Seq(Messages)]
    /\ closed \subseteq Clients
    /\ bMsg \in 0..MaxMessages
    /\ bTodo \subseteq Clients
    /\ begun \in 0..MaxMessages
    /\ hpc \in [Clients -> HandlerPCs]
    /\ gone \subseteq Clients
    /\ joined \in [Clients -> 0..MaxMessages]
    /\ out \in [Clients -> Seq(Messages)]
    /\ dropped \in [Clients -> SUBSET Messages]

\* The broadcast never sends on a channel that is or gets closed while it runs: the
\* panic would take the whole server down.
NoSendOnClosed ==
    bTodo \intersect closed = {}

\* Where the lock puts each handler: registered from Subscribe to Unsubscribe, closed
\* only after that, and the clients being visited all registered.
LockInv ==
    /\ TypeOK
    /\ NoSendOnClosed
    /\ bTodo \subseteq clients
    /\ ~Reading => bTodo = {}
    /\ \A c \in Clients :
          /\ c \in clients <=> hpc[c] \in {"stream", "lockUnsub"}
          /\ c \in closed => hpc[c] = "done"

\* What client c has been or will be written is in order, and together with what found
\* its channel full it is all that was broadcast since c was registered.
StreamOf(c) ==
    /\ Increasing(out[c] \o chan[c])
    /\ Members(out[c] \o chan[c]) \union dropped[c] =
          ((joined[c] + 1)..begun) \ (lost \union (IF c \in bTodo THEN {bMsg} ELSE {}))
    /\ dropped[c] # {} => Len(out[c]) + Len(chan[c]) >= BufferSize

\* A dashboard sees the notifications in their order and none twice, and from its
\* registration on it gets every one that is broadcast, except those that found its
\* channel full: joining or leaving in the middle of a broadcast costs nothing.
StreamComplete == \A c \in clients : StreamOf(c)

\* The handler of a client that is gone ends, and every notification is broadcast or
\* lost: full channels and stalled clients hold nobody up.
GoneIsForgotten ==
    \A c \in Clients : c \in gone ~> hpc[c] = "done"

NotificationsTaken ==
    \A m \in Messages : m \in Members(inbox) ~> m \notin Members(inbox)
=============================================================================
