------------------------ MODULE SSEBroadcasterProofs ------------------------
(* The broadcaster's lock, for any number of clients, messages and any buffer. *)
EXTENDS SSEBroadcaster, SequenceTheorems, TLAPS

\* Nobody is registered at the start.
LEMMA InitLock == Init => LockInv
BY BroadcasterAssumption
   DEF Init, LockInv, TypeOK, NoSendOnClosed, Reading, HandlerPCs, Messages

\* A notification, and the loss of some, only touch the inbox.
LEMMA NotifyLock == LockInv /\ (PgNotify \/ Reconnect) => LockInv'
<1> SUFFICES ASSUME LockInv, PgNotify \/ Reconnect PROVE LockInv'
    OBVIOUS
<1> USE BroadcasterAssumption DEF LockInv, NoSendOnClosed, Reading, Messages, hVars, bVars
<1>1. CASE PgNotify
  <2>1. sent + 1 \in Messages
        BY <1>1 DEF PgNotify, TypeOK
  <2>2. inbox' \in Seq(Messages) /\ sent' \in 0..MaxMessages
        BY <1>1, <2>1 DEF PgNotify, TypeOK
  <2> QED BY <1>1, <2>2 DEF PgNotify, TypeOK
<1>2. CASE Reconnect
  <2>1. PICK n \in 0..(Len(inbox) - 1) :
           /\ inbox' = SubSeq(inbox, 1, n)
           /\ lost' = lost \union {inbox[i] : i \in (n + 1)..Len(inbox)}
        BY <1>2 DEF Reconnect
  <2>2. inbox \in Seq(Messages) /\ Len(inbox) \in Nat
        BY DEF TypeOK
  <2>3. inbox' \in Seq(Messages)
        BY <2>1, <2>2, SubSeqProperties
  <2>4. lost' \subseteq Messages
    <3>1. \A i \in (n + 1)..Len(inbox) : inbox[i] \in Messages
          BY <2>1, <2>2
    <3> QED BY <2>1, <3>1 DEF TypeOK
  <2> QED BY <1>2, <2>3, <2>4 DEF Reconnect, TypeOK
<1> QED BY <1>1, <1>2

\* A broadcast visits the registered clients, and those stay registered while it reads.
LEMMA ListenerLock == LockInv /\ Listener => LockInv'
<1> SUFFICES ASSUME LockInv, Listener PROVE LockInv'
    OBVIOUS
<1> USE BroadcasterAssumption DEF LockInv, NoSendOnClosed, Reading, hVars
<1>1. CASE BeginBroadcast
  <2>1. Head(inbox) \in Messages /\ Tail(inbox) \in Seq(Messages)
        BY <1>1 DEF BeginBroadcast, TypeOK
  <2>2. Head(inbox) \in 0..MaxMessages /\ Head(inbox) # 0
        BY <2>1 DEF Messages
  <2>3. TypeOK'
        BY <1>1, <2>1, <2>2 DEF BeginBroadcast, TypeOK
  <2> QED BY <1>1, <2>2, <2>3 DEF BeginBroadcast, TypeOK
<1>2. ASSUME NEW c \in Clients, Offer(c) PROVE LockInv'
  <2>1. Reading /\ bMsg \in Messages
        BY <1>2 DEF Offer, TypeOK, Messages
  <2>2. chan' \in [Clients -> Seq(Messages)] /\ dropped' \in [Clients -> SUBSET Messages]
    <3>1. Append(chan[c], bMsg) \in Seq(Messages)
          BY <2>1 DEF TypeOK
    <3>2. CASE chan' = [chan EXCEPT ![c] = Append(@, bMsg)] /\ UNCHANGED dropped
          BY <3>1, <3>2 DEF TypeOK
    <3>3. CASE dropped' = [dropped EXCEPT ![c] = @ \union {bMsg}] /\ UNCHANGED chan
          BY <2>1, <3>3 DEF TypeOK
    <3> QED BY <1>2, <3>2, <3>3 DEF Offer
  <2> QED BY <1>2, <2>1, <2>2 DEF Offer, TypeOK
<1>3. CASE EndBroadcast
      BY <1>3 DEF EndBroadcast, TypeOK
<1> QED BY <1>1, <1>2, <1>3 DEF Listener

\* A handler changes the map only while nobody reads, and closes its channel only after
\* it has left the map.
LEMMA HandlerLock ==
    ASSUME LockInv, NEW c \in Clients,
           \/ Connect(c) \/ Subscribe(c) \/ Disconnect(c) \/ Stream(c) \/ Leave(c)
           \/ Unsubscribe(c) \/ Close(c)
    PROVE  LockInv'
<1> USE BroadcasterAssumption DEF LockInv, NoSendOnClosed, Reading, bVars, HandlerPCs
<1>1. CASE Connect(c)
      BY <1>1 DEF Connect, TypeOK
<1>2. CASE Subscribe(c)
      BY <1>2 DEF Subscribe, TypeOK
<1>3. CASE Disconnect(c)
      BY <1>3 DEF Disconnect, TypeOK
<1>4. CASE Stream(c)
  <2>1. Head(chan[c]) \in Messages /\ Tail(chan[c]) \in Seq(Messages)
        BY <1>4 DEF Stream, TypeOK
  <2>2. chan' \in [Clients -> Seq(Messages)] /\ out' \in [Clients -> Seq(Messages)]
        BY <1>4, <2>1 DEF Stream, TypeOK
  <2> QED BY <1>4, <2>2 DEF Stream, TypeOK
<1>5. CASE Leave(c)
      BY <1>5 DEF Leave, TypeOK
<1>6. CASE Unsubscribe(c)
      BY <1>6 DEF Unsubscribe, TypeOK
<1>7. CASE Close(c)
      BY <1>7 DEF Close, TypeOK
<1> QED BY <1>1, <1>2, <1>3, <1>4, <1>5, <1>6, <1>7

\* The lock's invariant is inductive.
LEMMA LockInduction == LockInv /\ [Next]_vars => LockInv'
<1> SUFFICES ASSUME LockInv, [Next]_vars PROVE LockInv'
    OBVIOUS
<1>1. CASE Next
      BY <1>1, NotifyLock, ListenerLock, HandlerLock DEF Next
<1>2. CASE UNCHANGED vars
      BY <1>2 DEF vars, bVars, hVars, LockInv, TypeOK, NoSendOnClosed, Reading
<1> QED BY <1>1, <1>2

\* Whatever clients connect and leave during a broadcast, no message is ever sent on a
\* closed channel: Unsubscribe deletes under the lock and closes afterwards.
THEOREM LockInvariant == Spec => []LockInv
BY InitLock, LockInduction, PTL DEF Spec

----------------------------------------------------------------------------
(* What a dashboard sees *)

\* The messages under way are the ones after the last broadcast, in order, but for those
\* that were lost.
InboxInv ==
    /\ Increasing(inbox)
    /\ \A m \in Members(inbox) : begun < m /\ m <= sent /\ m \notin lost
    /\ \A m \in Messages : begun < m /\ m <= sent => m \in Members(inbox) \/ m \in lost
    /\ \A m \in lost : m <= sent

\* The message being broadcast is the last one begun, and a handler that is not yet
\* registered has seen nothing.
BroadcastInv ==
    /\ begun <= sent
    /\ Reading => bMsg = begun /\ bMsg \notin lost
    /\ \A c \in Clients :
          /\ joined[c] <= begun /\ (c \in bTodo => joined[c] < begun)
          /\ hpc[c] \in {"idle", "lockSub"} =>
                out[c] = <<>> /\ chan[c] = <<>> /\ dropped[c] = {}

\* The inductive invariant behind StreamComplete.
StreamInv == LockInv /\ InboxInv /\ BroadcastInv /\ StreamComplete

\* Appending a later message keeps a sequence increasing.
LEMMA AppendLater ==
    ASSUME NEW q \in Seq(Messages), NEW m \in Messages
    PROVE  /\ Members(Append(q, m)) = Members(q) \union {m}
           /\ Increasing(q) /\ (\A k \in Members(q) : k < m) => Increasing(Append(q, m))
<1>1. /\ Len(q) \in Nat /\ DOMAIN q = 1..Len(q) /\ DOMAIN Append(q, m) = 1..(Len(q) + 1)
      /\ Append(q, m)[Len(q) + 1] = m
      /\ \A i \in 1..Len(q) : Append(q, m)[i] = q[i]
      OBVIOUS
<1>2. Members(Append(q, m)) = Members(q) \union {m}
      BY <1>1 DEF Members
<1>3. ASSUME Increasing(q), \A k \in Members(q) : k < m,
             NEW i \in DOMAIN Append(q, m), NEW j \in DOMAIN Append(q, m), i < j
      PROVE  Append(q, m)[i] < Append(q, m)[j]
  <2>1. i \in 1..Len(q)
        BY <1>1, <1>3
  <2>2. CASE j \in 1..Len(q)
        BY <1>1, <1>3, <2>1, <2>2 DEF Increasing
  <2>3. CASE j = Len(q) + 1
        BY <1>1, <1>3, <2>1, <2>3 DEF Members
  <2> QED BY <1>1, <2>2, <2>3
<1> QED BY <1>2, <1>3 DEF Increasing

\* What comes after the head is later.
LEMMA TailLater ==
    ASSUME NEW q \in Seq(Messages), q # <<>>, Increasing(q)
    PROVE  /\ Head(q) \in Members(q)
           /\ Increasing(Tail(q))
           /\ Members(q) = Members(Tail(q)) \union {Head(q)}
           /\ \A m \in Members(Tail(q)) : Head(q) < m
<1>1. /\ Len(q) \in Nat \ {0} /\ DOMAIN q = 1..Len(q) /\ Head(q) = q[1]
      /\ DOMAIN Tail(q) = 1..(Len(q) - 1)
      /\ \A i \in 1..(Len(q) - 1) : Tail(q)[i] = q[i + 1]
      BY HeadTailProperties
<1>2. Head(q) \in Members(q)
      BY <1>1 DEF Members
<1>3. Increasing(Tail(q))
      BY <1>1 DEF Increasing
<1>4. \A m \in Members(Tail(q)) : Head(q) < m
      BY <1>1 DEF Increasing, Members
<1>5. Members(q) = Members(Tail(q)) \union {Head(q)}
  <2>1. \A i \in 1..Len(q) : i = 1 \/ (i - 1 \in 1..(Len(q) - 1) /\ Tail(q)[i - 1] = q[i])
        BY <1>1
  <2>2. ASSUME NEW m \in Members(q) PROVE m \in Members(Tail(q)) \union {Head(q)}
    <3>1. PICK i \in 1..Len(q) : m = q[i]
          BY <1>1 DEF Members
    <3>2. CASE i = 1
          BY <1>1, <3>1, <3>2
    <3>3. CASE i # 1
      <4>1. i - 1 \in DOMAIN Tail(q) /\ Tail(q)[i - 1] = m
            BY <1>1, <2>1, <3>1, <3>3
      <4> QED BY <4>1 DEF Members
    <3> QED BY <3>2, <3>3
  <2>3. Members(Tail(q)) \subseteq Members(q)
        BY <1>1 DEF Members
  <2> QED BY <1>2, <2>2, <2>3
<1> QED BY <1>2, <1>3, <1>4, <1>5

\* Writing the head of a channel to the client leaves the two together as they were.
LEMMA WriteHead ==
    ASSUME NEW p \in Seq(Messages), NEW q \in Seq(Messages), q # <<>>
    PROVE  /\ Append(p, Head(q)) \o Tail(q) = p \o q
           /\ Len(Append(p, Head(q))) + Len(Tail(q)) = Len(p) + Len(q)
<1>1. /\ Head(q) = q[1] /\ Head(q) \in Messages /\ Tail(q) \in Seq(Messages)
      /\ Len(p) \in Nat /\ Len(q) \in Nat \ {0} /\ Len(Tail(q)) = Len(q) - 1
      /\ \A i \in 1..(Len(q) - 1) : Tail(q)[i] = q[i + 1]
      BY HeadTailProperties
<1>2. /\ Append(p, Head(q)) \in Seq(Messages) /\ Len(Append(p, Head(q))) = Len(p) + 1
      /\ Append(p, Head(q))[Len(p) + 1] = q[1]
      /\ \A i \in 1..Len(p) : Append(p, Head(q))[i] = p[i]
      BY <1>1
<1> DEFINE a == Append(p, Head(q))
           r == Tail(q)
           n == Len(p) + Len(q)
<1>3. /\ a \o r \in Seq(Messages) /\ Len(a \o r) = n
      /\ \A i \in 1..n : (a \o r)[i] = IF i <= Len(p) + 1 THEN a[i] ELSE r[i - (Len(p) + 1)]
      BY <1>1, <1>2, ConcatProperties
<1>4. /\ p \o q \in Seq(Messages) /\ Len(p \o q) = n
      /\ \A i \in 1..n : (p \o q)[i] = IF i <= Len(p) THEN p[i] ELSE q[i - Len(p)]
      BY <1>1, ConcatProperties
<1> HIDE DEF a, r
<1>5. ASSUME NEW i \in 1..n PROVE (a \o r)[i] = (p \o q)[i]
  <2>1. CASE i <= Len(p)
        BY <1>1, <1>2, <1>3, <1>4, <2>1 DEF a
  <2>2. CASE i = Len(p) + 1
        BY <1>1, <1>2, <1>3, <1>4, <2>2 DEF a
  <2>3. CASE i > Len(p) + 1
    <3>1. /\ i - (Len(p) + 1) \in 1..(Len(q) - 1)
          /\ i - (Len(p) + 1) + 1 = i - Len(p)
          BY <1>1, <2>3
    <3>2. r[i - (Len(p) + 1)] = q[i - Len(p)]
          BY <1>1, <3>1 DEF r
    <3> QED BY <1>1, <1>3, <1>4, <2>3, <3>2
  <2>4. i \in Nat /\ Len(p) \in Nat
        BY <1>1
  <2>5. i <= Len(p) \/ i = Len(p) + 1 \/ i > Len(p) + 1
        BY <2>4
  <2> QED BY <2>1, <2>2, <2>3, <2>5
<1>6. a \o r = p \o q
      BY <1>3, <1>4, <1>5, SeqEqual
<1> QED BY <1>1, <1>2, <1>6 DEF a, r

\* A message put in the channel comes after all that was written or is waiting.
LEMMA OfferLast ==
    ASSUME NEW p \in Seq(Messages), NEW q \in Seq(Messages), NEW m \in Messages
    PROVE  p \o Append(q, m) = Append(p \o q, m) /\ p \o q \in Seq(Messages)
<1>1. Append(q, m) = q \o <<m>> /\ <<m>> \in Seq(Messages)
      OBVIOUS
<1>2. p \o q \in Seq(Messages) /\ Append(p \o q, m) = (p \o q) \o <<m>>
      BY ConcatProperties
<1> QED BY <1>1, <1>2, ConcatAssociative

\* Nothing has been sent, and nobody is registered, at the start.
LEMMA InitStream == Init => StreamInv
<1> SUFFICES ASSUME Init PROVE StreamInv
    OBVIOUS
<1>1. LockInv
      BY InitLock
<1>2. Members(inbox) = {} /\ Increasing(inbox)
      BY DEF Init, Members, Increasing
<1>3. InboxInv
      BY <1>2, BroadcasterAssumption DEF InboxInv, Init, Messages
<1>4. BroadcastInv /\ StreamComplete
      BY DEF BroadcastInv, StreamComplete, Init, Reading
<1> QED BY <1>1, <1>3, <1>4 DEF StreamInv

\* A step that touches neither a client's stream nor the broadcast keeps the stream.
LEMMA StreamKept ==
    ASSUME NEW c, StreamOf(c), UNCHANGED bVars,
           out'[c] \o chan'[c] = out[c] \o chan[c],
           Len(out'[c]) + Len(chan'[c]) = Len(out[c]) + Len(chan[c]),
           dropped'[c] = dropped[c], joined'[c] = joined[c],
           \A m \in (joined[c] + 1)..begun : m \in lost' <=> m \in lost
    PROVE  StreamOf(c)'
BY DEF StreamOf, bVars

\* A notification is later than all others.
LEMMA NotifyStream == StreamInv /\ PgNotify => StreamInv'
<1> SUFFICES ASSUME StreamInv, PgNotify PROVE StreamInv'
    OBVIOUS
<1>1. LockInv'
      BY NotifyLock DEF StreamInv
<1>2. /\ sent \in Nat /\ begun \in Nat /\ sent + 1 \in Messages /\ sent' = sent + 1
      /\ inbox \in Seq(Messages) /\ inbox' = Append(inbox, sent + 1)
      /\ \A m \in Messages : m \in Nat
      /\ \A m \in lost : m \in Messages
      /\ UNCHANGED <<lost, clients, chan, bVars, hVars, dropped>>
      BY BroadcasterAssumption DEF PgNotify, StreamInv, LockInv, TypeOK, Messages
<1>3. \A m \in Members(inbox) : m \in Messages /\ m \in Nat /\ begun < m /\ m <= sent /\ m \notin lost
      BY <1>2 DEF StreamInv, InboxInv, Members
<1>4. \A k \in Members(inbox) : k < sent + 1
      BY <1>2, <1>3
<1>5. Increasing(inbox') /\ Members(inbox') = Members(inbox) \union {sent + 1}
      BY <1>2, <1>4, AppendLater DEF StreamInv, InboxInv
<1>6. begun <= sent /\ sent + 1 \notin lost /\ \A m \in lost : m <= sent + 1
      BY <1>2 DEF StreamInv, BroadcastInv, InboxInv
<1>7. \A m \in Members(inbox)' : begun < m /\ m <= sent + 1 /\ m \notin lost
      BY <1>2, <1>3, <1>5, <1>6
<1>8. \A m \in Messages : begun < m /\ m <= sent + 1 => m \in Members(inbox)' \/ m \in lost
  <2> SUFFICES ASSUME NEW m \in Messages, begun < m, m <= sent + 1
      PROVE  m \in Members(inbox)' \/ m \in lost
      OBVIOUS
  <2>1. m <= sent \/ m = sent + 1
        BY <1>2
  <2> QED BY <1>5, <2>1 DEF StreamInv, InboxInv
<1>9. InboxInv'
      BY <1>2, <1>5, <1>6, <1>7, <1>8 DEF InboxInv, bVars
<1>10. BroadcastInv'
  <2>1. begun <= sent + 1
        BY <1>2, <1>6
  <2> QED BY <1>2, <2>1 DEF StreamInv, BroadcastInv, Reading, bVars, hVars
<1>11. StreamComplete'
  <2> SUFFICES ASSUME NEW c \in clients PROVE StreamOf(c)'
      BY <1>2 DEF StreamComplete
  <2>1. StreamOf(c)
        BY DEF StreamInv, StreamComplete
  <2> QED BY <1>2, <2>1, StreamKept DEF hVars
<1> QED BY <1>1, <1>9, <1>10, <1>11 DEF StreamInv

\* What is lost was not yet broadcast.
LEMMA ReconnectStream == StreamInv /\ Reconnect => StreamInv'
<1> SUFFICES ASSUME StreamInv, Reconnect PROVE StreamInv'
    OBVIOUS
<1>1. LockInv'
      BY NotifyLock DEF StreamInv
<1>2. /\ sent \in Nat /\ begun \in Nat /\ inbox \in Seq(Messages)
      /\ Len(inbox) \in Nat /\ DOMAIN inbox = 1..Len(inbox)
      /\ \A i \in 1..Len(inbox) : inbox[i] \in Messages
      /\ \A m \in Messages : m \in Nat
      /\ UNCHANGED <<sent, clients, chan, bVars, hVars, dropped>>
  <2>1. inbox \in Seq(Messages) /\ UNCHANGED <<sent, clients, chan, bVars, hVars, dropped>>
        BY DEF Reconnect, StreamInv, LockInv, TypeOK
  <2>2. sent \in Nat /\ begun \in Nat /\ \A m \in Messages : m \in Nat
        BY BroadcasterAssumption DEF StreamInv, LockInv, TypeOK, Messages
  <2> QED BY <2>1, <2>2
<1>3. PICK n \in 0..(Len(inbox) - 1) :
         /\ inbox' = SubSeq(inbox, 1, n)
         /\ lost' = lost \union {inbox[i] : i \in (n + 1)..Len(inbox)}
      BY DEF Reconnect
<1>4. DOMAIN inbox' = 1..n /\ \A i \in 1..n : inbox'[i] = inbox[i] /\ i \in 1..Len(inbox)
      BY <1>2, <1>3
<1>5. Increasing(inbox')
      BY <1>2, <1>4 DEF StreamInv, InboxInv, Increasing
<1>6. \A i \in 1..Len(inbox) : begun < inbox[i] /\ inbox[i] <= sent /\ inbox[i] \notin lost
      BY <1>2 DEF StreamInv, InboxInv, Members
<1>7. ASSUME NEW i \in 1..n PROVE inbox[i] \notin lost'
  <2>1. \A j \in (n + 1)..Len(inbox) : j \in 1..Len(inbox) /\ i < j
        BY <1>2, <1>3
  <2>2. \A j \in (n + 1)..Len(inbox) : inbox[i] < inbox[j]
        BY <1>2, <1>4, <2>1 DEF StreamInv, InboxInv, Increasing
  <2>3. \A j \in (n + 1)..Len(inbox) : inbox[i] # inbox[j]
        BY <1>2, <1>4, <2>1, <2>2
  <2> QED BY <1>3, <1>4, <1>6, <2>3
<1>8. \A m \in Members(inbox)' : begun < m /\ m <= sent /\ m \notin lost'
      BY <1>4, <1>6, <1>7 DEF Members
<1>9. ASSUME NEW m \in Members(inbox) PROVE m \in Members(inbox)' \/ m \in lost'
  <2>1. PICK i \in 1..Len(inbox) : m = inbox[i]
        BY <1>2 DEF Members
  <2>2. i \in 1..n \/ i \in (n + 1)..Len(inbox)
        BY <1>2, <1>3
  <2> QED BY <1>3, <1>4, <2>1, <2>2 DEF Members
<1>10. \A m \in lost' : m \in lost \/ (begun < m /\ m <= sent)
  <2>1. \A i \in (n + 1)..Len(inbox) : i \in 1..Len(inbox)
        BY <1>2, <1>3
  <2> QED BY <1>3, <1>6, <2>1
<1>11. InboxInv'
      BY <1>2, <1>3, <1>5, <1>8, <1>9, <1>10 DEF StreamInv, InboxInv, bVars
<1>12. BroadcastInv'
      BY <1>2, <1>10 DEF StreamInv, BroadcastInv, Reading, bVars, hVars
<1>13. StreamComplete'
  <2> SUFFICES ASSUME NEW c \in clients PROVE StreamOf(c)'
      BY <1>2 DEF StreamComplete
  <2>1. StreamOf(c)
        BY DEF StreamInv, StreamComplete
  <2>2. \A m \in (joined[c] + 1)..begun : m \in lost' <=> m \in lost
        BY <1>2, <1>3, <1>10
  <2> QED BY <1>2, <2>1, <2>2, StreamKept DEF hVars
<1> QED BY <1>1, <1>11, <1>12, <1>13 DEF StreamInv

\* A broadcast begins with the next message that was not lost.
LEMMA BeginStream == StreamInv /\ BeginBroadcast => StreamInv'
<1> SUFFICES ASSUME StreamInv, BeginBroadcast PROVE StreamInv'
    OBVIOUS
<1>1. LockInv'
      BY ListenerLock DEF StreamInv, Listener
<1>a. PICK h : h = Head(inbox)
      OBVIOUS
<1>2. /\ inbox \in Seq(Messages) /\ inbox # <<>> /\ inbox' = Tail(inbox)
      /\ bMsg' = h /\ begun' = h /\ bTodo' = clients /\ bTodo = {}
      /\ clients \subseteq Clients /\ joined \in [Clients -> 0..MaxMessages]
      /\ \A c \in Clients : dropped[c] \subseteq Messages
      /\ UNCHANGED <<sent, lost, clients, chan, hVars, dropped>>
      BY <1>a DEF BeginBroadcast, StreamInv, LockInv, TypeOK
<1>3. /\ h \in Members(inbox) /\ Increasing(inbox')
      /\ Members(inbox) = Members(inbox') \union {h}
      /\ \A m \in Members(inbox') : h < m
      BY <1>a, <1>2, TailLater DEF StreamInv, InboxInv
<1>4. /\ sent \in Nat /\ begun \in Nat /\ \A m \in Messages : m \in Nat
      /\ \A c \in Clients : joined[c] \in Nat
      BY BroadcasterAssumption DEF StreamInv, LockInv, TypeOK, Messages
<1>5. h \in Messages /\ h \in Nat /\ begun < h /\ h <= sent /\ h \notin lost
      BY <1>2, <1>3, <1>4 DEF StreamInv, InboxInv, Members
<1>6. \A m \in Members(inbox') : m \in Members(inbox) /\ m \in Messages
      BY <1>2, <1>3 DEF Members
<1>7. ASSUME NEW m \in Messages, begun < m, m < h PROVE m \in lost
  <2>1. m <= sent /\ m # h
        BY <1>4, <1>5, <1>7
  <2>2. m \notin Members(inbox')
        BY <1>3, <1>4, <1>5, <1>7
  <2> QED BY <1>3, <1>7, <2>1, <2>2 DEF StreamInv, InboxInv
<1>8. InboxInv'
  <2>1. \A m \in Members(inbox)' : h < m /\ m <= sent /\ m \notin lost
        BY <1>3, <1>6 DEF StreamInv, InboxInv
  <2>2. \A m \in Messages : h < m /\ m <= sent => m \in Members(inbox)' \/ m \in lost
    <3> SUFFICES ASSUME NEW m \in Messages, h < m, m <= sent
        PROVE  m \in Members(inbox') \/ m \in lost
        OBVIOUS
    <3>1. begun < m /\ m # h
          BY <1>4, <1>5
    <3> QED BY <1>3, <3>1 DEF StreamInv, InboxInv
  <2> QED BY <1>2, <1>3, <2>1, <2>2 DEF StreamInv, InboxInv
<1>9. BroadcastInv'
  <2>1. \A c \in Clients : joined[c] <= h /\ joined[c] < h
        BY <1>4, <1>5 DEF StreamInv, BroadcastInv
  <2> QED BY <1>2, <1>5, <2>1 DEF StreamInv, BroadcastInv, hVars
<1>10. StreamComplete'
  <2> SUFFICES ASSUME NEW c \in clients PROVE StreamOf(c)'
      BY <1>2 DEF StreamComplete
  <2>1. StreamOf(c) /\ c \in Clients /\ joined[c] \in Nat /\ joined[c] <= begun
        BY <1>2, <1>4 DEF StreamInv, StreamComplete, BroadcastInv
  <2>2. ((joined[c] + 1)..begun) \ lost = ((joined[c] + 1)..h) \ (lost \union {h})
    <3>1. ASSUME NEW m \in ((joined[c] + 1)..h) \ (lost \union {h}) PROVE m <= begun
      <4>1. m \in Nat /\ m < h /\ m >= 1
            BY <1>5, <2>1, <3>1
      <4>2. m \in Messages
            BY <1>5, <4>1, BroadcasterAssumption DEF Messages
      <4> QED BY <1>4, <1>7, <3>1, <4>1, <4>2
    <3> QED BY <1>4, <1>5, <2>1, <3>1
  <2> QED BY <1>2, <2>1, <2>2 DEF StreamOf, hVars
<1> QED BY <1>1, <1>8, <1>9, <1>10 DEF StreamInv

\* Sums of lengths.
LEMMA SumAtLeast ==
    \A i, j, n \in Nat : (j >= n => i + j >= n) /\ (i + j >= n => i + (j + 1) >= n)
OBVIOUS

\* A client that is offered the message gets it last, or has it dropped.
LEMMA OfferStream == \A c \in Clients : StreamInv /\ Offer(c) => StreamInv'
<1> SUFFICES ASSUME NEW c \in Clients, StreamInv, Offer(c) PROVE StreamInv'
    OBVIOUS
<1>1. LockInv'
      BY ListenerLock DEF StreamInv, Listener
<1>2. /\ c \in bTodo /\ bTodo' = bTodo \ {c} /\ c \in clients
      /\ out \in [Clients -> Seq(Messages)] /\ chan \in [Clients -> Seq(Messages)]
      /\ dropped \in [Clients -> SUBSET Messages] /\ clients \subseteq Clients
      /\ UNCHANGED <<sent, inbox, lost, clients, bMsg, begun, hVars>>
      BY DEF Offer, StreamInv, LockInv, TypeOK
<1>3. bMsg = begun /\ bMsg \notin lost /\ bMsg \in Messages /\ Reading
      BY <1>2 DEF StreamInv, BroadcastInv, LockInv, Reading, TypeOK, Messages
<1>4. \A m \in Messages : m \in Nat
      BY DEF Messages
<1>5. joined[c] \in Nat /\ joined[c] < begun /\ begun \in Nat /\ BufferSize \in Nat
      BY <1>2, BroadcasterAssumption DEF StreamInv, BroadcastInv, LockInv, TypeOK
<1>6. hpc[c] \notin {"idle", "lockSub"}
      BY <1>2 DEF StreamInv, LockInv
<1>7. \A d \in Clients \ {c} : chan'[d] = chan[d] /\ dropped'[d] = dropped[d]
      BY <1>2 DEF Offer
<1>8. InboxInv'
      BY <1>2 DEF StreamInv, InboxInv
<1>9. BroadcastInv'
      BY <1>2, <1>6, <1>7 DEF StreamInv, BroadcastInv, Reading, hVars
<1>10. ASSUME NEW d \in clients, d # c PROVE StreamOf(d)'
  <2>1. StreamOf(d) /\ d \in Clients
        BY <1>2 DEF StreamInv, StreamComplete
  <2> QED BY <1>2, <1>7, <1>10, <2>1 DEF StreamOf, hVars
<1>11. StreamOf(c)'
  <2>0. PICK q : q = out[c] \o chan[c]
        OBVIOUS
  <2>1. /\ Increasing(q)
        /\ Members(q) \union dropped[c] = ((joined[c] + 1)..begun) \ (lost \union {bMsg})
        /\ dropped[c] # {} => Len(out[c]) + Len(chan[c]) >= BufferSize
        BY <1>2, <2>0 DEF StreamInv, StreamComplete, StreamOf
  <2>2. /\ out[c] \in Seq(Messages) /\ chan[c] \in Seq(Messages)
        /\ out'[c] = out[c] /\ joined'[c] = joined[c] /\ c \notin bTodo'
        BY <1>2 DEF hVars
  <2>3. ((joined[c] + 1)..begun) \ lost = (((joined[c] + 1)..begun) \ (lost \union {bMsg})) \union {bMsg}
        BY <1>3, <1>5
  <2>4. CASE /\ chan' = [chan EXCEPT ![c] = Append(@, bMsg)]
             /\ UNCHANGED dropped
    <3>1. chan'[c] = Append(chan[c], bMsg) /\ dropped'[c] = dropped[c]
          BY <1>2, <2>4
    <3>2. q \in Seq(Messages) /\ out'[c] \o chan'[c] = Append(q, bMsg)
      <4>1. out[c] \o Append(chan[c], bMsg) = Append(q, bMsg) /\ q \in Seq(Messages)
            BY <1>3, <2>0, <2>2, OfferLast
      <4> QED BY <2>2, <3>1, <4>1
    <3>3. \A k \in Members(q) : k < bMsg
          BY <1>3, <1>5, <2>1
    <3>4. Increasing(Append(q, bMsg)) /\ Members(Append(q, bMsg)) = Members(q) \union {bMsg}
          BY <1>3, <2>1, <3>2, <3>3, AppendLater
    <3>5. /\ Len(out[c]) \in Nat /\ Len(chan[c]) \in Nat /\ Len(chan'[c]) = Len(chan[c]) + 1
          BY <1>3, <2>2, <3>1
    <3>6. dropped'[c] # {} => Len(out'[c]) + Len(chan'[c]) >= BufferSize
      <4>1. ASSUME dropped[c] # {} PROVE Len(out[c]) + (Len(chan[c]) + 1) >= BufferSize
            BY <1>5, <2>1, <3>5, <4>1, SumAtLeast
      <4> QED BY <2>2, <3>1, <3>5, <4>1
    <3>7. Members(Append(q, bMsg)) \union dropped'[c] = ((joined[c] + 1)..begun) \ lost
          BY <2>1, <2>3, <3>1, <3>4
    <3> QED BY <1>2, <2>2, <3>2, <3>4, <3>6, <3>7 DEF StreamOf
  <2>5. CASE /\ Len(chan[c]) >= BufferSize
             /\ dropped' = [dropped EXCEPT ![c] = @ \union {bMsg}]
             /\ UNCHANGED chan
    <3>1. dropped'[c] = dropped[c] \union {bMsg} /\ chan'[c] = chan[c]
          BY <1>2, <2>5
    <3>2. Len(out'[c]) + Len(chan'[c]) >= BufferSize
      <4>1. Len(out[c]) \in Nat /\ Len(chan[c]) \in Nat
            BY <2>2
      <4>2. Len(out[c]) + Len(chan[c]) >= BufferSize
            BY <1>5, <2>5, <4>1, SumAtLeast
      <4> QED BY <2>2, <3>1, <4>2
    <3>3. out'[c] \o chan'[c] = q
          BY <2>0, <2>2, <3>1
    <3>4. Members(q) \union dropped'[c] = ((joined[c] + 1)..begun) \ lost
          BY <2>1, <2>3, <3>1
    <3> QED BY <1>2, <2>1, <2>2, <3>2, <3>3, <3>4 DEF StreamOf
  <2> QED BY <2>4, <2>5 DEF Offer
<1> QED BY <1>1, <1>2, <1>8, <1>9, <1>10, <1>11 DEF StreamInv, StreamComplete

\* The end of a broadcast changes no stream.
LEMMA EndStream == StreamInv /\ EndBroadcast => StreamInv'
<1> SUFFICES ASSUME StreamInv, EndBroadcast PROVE StreamInv'
    OBVIOUS
<1>1. LockInv'
      BY ListenerLock DEF StreamInv, Listener
<1>2. /\ bTodo = {} /\ bMsg' = 0
      /\ UNCHANGED <<sent, inbox, lost, clients, chan, bTodo, begun, hVars, dropped>>
      BY DEF EndBroadcast
<1>3. InboxInv' /\ BroadcastInv'
      BY <1>2 DEF StreamInv, InboxInv, BroadcastInv, Reading, hVars
<1>4. StreamComplete'
      BY <1>2 DEF StreamInv, StreamComplete, StreamOf, hVars
<1> QED BY <1>1, <1>3, <1>4 DEF StreamInv

\* A handler registers with an empty stream, and writes its channel in order.
LEMMA HandlerStream ==
    ASSUME StreamInv, NEW c \in Clients,
           \/ Connect(c) \/ Subscribe(c) \/ Disconnect(c) \/ Stream(c) \/ Leave(c)
           \/ Unsubscribe(c) \/ Close(c)
    PROVE  StreamInv'
<1>1. LockInv'
      BY HandlerLock DEF StreamInv
<1>2. UNCHANGED <<sent, inbox, lost, bVars, dropped>>
      BY DEF Connect, Subscribe, Disconnect, Stream, Leave, Unsubscribe, Close
<1>3. InboxInv'
      BY <1>2 DEF StreamInv, InboxInv, bVars
<1>4. /\ hpc \in [Clients -> HandlerPCs] /\ clients \subseteq Clients
      /\ joined \in [Clients -> 0..MaxMessages] /\ begun \in Nat
      /\ out \in [Clients -> Seq(Messages)] /\ chan \in [Clients -> Seq(Messages)]
      BY DEF StreamInv, LockInv, TypeOK
<1>5. CASE Connect(c) \/ Disconnect(c) \/ Leave(c) \/ Unsubscribe(c) \/ Close(c)
  <2>1. /\ UNCHANGED <<chan, joined, out>> /\ clients' \subseteq clients
        /\ \A d \in Clients : hpc'[d] \in {"idle", "lockSub"} => hpc[d] \in {"idle", "lockSub"}
        BY <1>4, <1>5 DEF Connect, Disconnect, Leave, Unsubscribe, Close
  <2>2. BroadcastInv'
        BY <1>2, <2>1 DEF StreamInv, BroadcastInv, Reading, bVars
  <2>3. StreamComplete'
        BY <1>2, <2>1, StreamKept DEF StreamInv, StreamComplete
  <2> QED BY <1>1, <1>3, <2>2, <2>3 DEF StreamInv
<1>6. CASE Subscribe(c)
  <2>1. /\ UNCHANGED <<chan, out>> /\ clients' = clients \union {c}
        /\ joined'[c] = begun /\ hpc'[c] = "stream" /\ hpc[c] = "lockSub"
        /\ \A d \in Clients \ {c} : joined'[d] = joined[d] /\ hpc'[d] = hpc[d]
        /\ bTodo = {}
        BY <1>4, <1>6 DEF Subscribe, StreamInv, LockInv
  <2>2. BroadcastInv'
    <3>1. begun' = begun /\ bTodo' = {} /\ sent' = sent /\ lost' = lost /\ bMsg' = bMsg
          BY <1>2, <2>1 DEF bVars
    <3>2. \A d \in Clients : joined'[d] <= begun
      <4>1. begun <= begun
            BY <1>4
      <4> QED BY <2>1, <4>1 DEF StreamInv, BroadcastInv
    <3>3. \A d \in Clients : hpc'[d] \in {"idle", "lockSub"} => hpc[d] \in {"idle", "lockSub"}
          BY <2>1
    <3> QED BY <1>2, <2>1, <3>1, <3>2, <3>3 DEF StreamInv, BroadcastInv, Reading
  <2>3. out[c] = <<>> /\ chan[c] = <<>> /\ dropped[c] = {}
        BY <2>1 DEF StreamInv, BroadcastInv
  <2>4. StreamOf(c)'
    <3>1. out[c] \o chan[c] = <<>>
          BY <2>3
    <3>2. Increasing(<<>>) /\ Members(<<>>) = {}
          BY DEF Increasing, Members
    <3>3. (begun + 1)..begun = {}
          BY <1>4
    <3> QED BY <1>2, <2>1, <2>3, <3>1, <3>2, <3>3 DEF StreamOf, bVars
  <2>5. \A d \in clients \ {c} : StreamOf(d)'
        BY <1>2, <1>4, <2>1, StreamKept DEF StreamInv, StreamComplete
  <2> QED BY <1>1, <1>3, <2>1, <2>2, <2>4, <2>5 DEF StreamInv, StreamComplete
<1>7. CASE Stream(c)
  <2>1. /\ UNCHANGED <<clients, hpc, joined>> /\ chan[c] # <<>> /\ hpc[c] = "stream"
        /\ chan'[c] = Tail(chan[c]) /\ out'[c] = Append(out[c], Head(chan[c]))
        /\ \A d \in Clients \ {c} : chan'[d] = chan[d] /\ out'[d] = out[d]
        BY <1>4, <1>7 DEF Stream
  <2>2. BroadcastInv'
        BY <1>2, <2>1 DEF StreamInv, BroadcastInv, Reading, bVars
  <2>3. /\ out'[c] \o chan'[c] = out[c] \o chan[c]
        /\ Len(out'[c]) + Len(chan'[c]) = Len(out[c]) + Len(chan[c])
        BY <1>4, <2>1, WriteHead
  <2>4. StreamComplete'
        BY <1>2, <1>4, <2>1, <2>3, StreamKept DEF StreamInv, StreamComplete
  <2> QED BY <1>1, <1>3, <2>2, <2>4 DEF StreamInv
<1> QED BY <1>5, <1>6, <1>7

\* For any number of dashboards, messages and any buffer, each dashboard sees the
\* notifications in their order and none twice, and from its registration on every one
\* that is broadcast except those that found its channel full.
THEOREM StreamsAreComplete == Spec => []StreamComplete
<1>1. StreamInv /\ [Next]_vars => StreamInv'
  <2> SUFFICES ASSUME StreamInv, [Next]_vars PROVE StreamInv'
      OBVIOUS
  <2>1. CASE Next
        BY <2>1, NotifyStream, ReconnectStream, BeginStream, OfferStream, EndStream, HandlerStream
        DEF Next, Listener
  <2>2. CASE UNCHANGED vars
    <3>1. LockInv'
          BY <2>2, LockInduction DEF StreamInv
    <3> QED BY <2>2, <3>1 DEF vars, bVars, hVars, StreamInv, InboxInv, BroadcastInv, StreamComplete,
                               StreamOf, Reading
  <2> QED BY <2>1, <2>2
<1>2. StreamInv => StreamComplete
      BY DEF StreamInv
<1> QED BY <1>1, <1>2, InitStream, PTL DEF Spec
=============================================================================
