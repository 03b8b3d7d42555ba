--------------------------- MODULE JobEventsProofs ---------------------------
(***************************************************************************)
(* Proofs about the stream of a job (modules JobEvents and ModelCalls): no *)
(* event is lost on its way to the browser or comes twice; and what a      *)
(* model says, however it is cut into chunks and pieces, is what the agent *)
(* sends and hands over.  Most of the second part is about one recursive   *)
(* function, the agent's parser, and its reference Split: that they are    *)
(* defined for every text is proved from their size, and that they agree   *)
(* by induction on it, each time by way of a smallest counterexample.      *)
(***************************************************************************)
EXTENDS JobEvents, ModelCalls, SequenceTheorems, WellFoundedInduction, TLAPS

-----------------------------------------------------------------------------
(* Types, and what the ids refer to.                                       *)

Pending == [event : Events \ Raw, id : Nat, tries : Nat]
Message == [event : Events, id : Nat]

TypeOK ==
    /\ stream \in Seq(Events \ Raw)
    /\ unsent \subseteq Events
    /\ pub \in [Publishers -> {Idle} \cup Pending]
    /\ channel \in Seq(Message)
    /\ conn \in Where
    /\ batch \subseteq 1..Len(stream)
    /\ lastId \in 0..Len(stream)
    /\ got \in [Events -> Nat]
    /\ published \subseteq 0..Len(stream)
    /\ unsure \subseteq Events \ Raw
    /\ cold \in BOOLEAN

\* An id names the entry the event was stored under, 0 none.
Names(id, e) == id \in 0..Len(stream) /\ (id # 0 => stream[id] = e)

RefInv ==
    /\ \A p \in Publishers : pub[p] # Idle => Names(pub[p].id, pub[p].event)
    /\ \A k \in 1..Len(channel) : Names(channel[k].id, channel[k].event)

\* Only a catch-up or a check has ids to yield, only a subscription receives.
PhaseInv ==
    /\ conn \notin {"catchup", "checking"} => batch = {}
    /\ ~Listening => channel = <<>>

EventsInv == TypeOK /\ RefInv /\ PhaseInv

\* Sequences grow at the end and shrink at the front.
LEMMA AppendFacts ==
  ASSUME NEW S, NEW s \in Seq(S), NEW e \in S
  PROVE  /\ Append(s, e) \in Seq(S) /\ Len(Append(s, e)) = Len(s) + 1
         /\ Len(s) \in Nat
         /\ \A i \in 1..Len(s) : Append(s, e)[i] = s[i]
         /\ Append(s, e)[Len(s) + 1] = e
  OBVIOUS

LEMMA TailFacts ==
  ASSUME NEW S, NEW s \in Seq(S), s # <<>>
  PROVE  /\ Tail(s) \in Seq(S) /\ Len(Tail(s)) = Len(s) - 1
         /\ Len(s) \in Nat \ {0}
         /\ \A i \in 1..Len(s) - 1 : Tail(s)[i] = s[i + 1]
         /\ Head(s) = s[1] /\ Head(s) \in S
  OBVIOUS

\* The stream grows at the end only.
StreamGrows ==
    /\ stream' \in Seq(Events \ Raw)
    /\ Len(stream) \in Nat /\ Len(stream') \in Nat /\ Len(stream) <= Len(stream')
    /\ \A i \in 1..Len(stream) : stream'[i] = stream[i]

LEMMA StreamStays ==
  ASSUME TypeOK, UNCHANGED stream
  PROVE  StreamGrows
  BY DEF TypeOK, StreamGrows

LEMMA StoreGrowsStream ==
  ASSUME TypeOK, NEW e \in Events \ Raw, stream' \in {stream, Append(stream, e)}
  PROVE  StreamGrows
<1>1. CASE stream' = stream
  BY <1>1, StreamStays
<1>2. CASE stream' = Append(stream, e)
  BY <1>2, AppendFacts DEF TypeOK, StreamGrows
<1> QED  BY <1>1, <1>2

LEMMA NamesStays ==
  ASSUME StreamGrows, NEW id, NEW e, Names(id, e)
  PROVE  id \in 0..Len(stream') /\ (id # 0 => stream'[id] = e)
  BY DEF StreamGrows, Names

-----------------------------------------------------------------------------
(* What the groups of actions do.                                          *)

\* A publisher stores e, if Redis does not raise, and holds it for publishing.
StoreStep(p, e, id) ==
    /\ e \in unsent \ Raw /\ unsent' = unsent \ {e}
    /\ stream' \in {stream, Append(stream, e)}
    /\ id \in {0, Len(stream) + 1} /\ (id # 0 => stream' = Append(stream, e))
    /\ pub' = [pub EXCEPT ![p] = [event |-> e, id |-> id, tries |-> 0]]
    /\ unsure' \in {unsure, unsure \cup {e}} /\ (id = 0 => e \in unsure')
    /\ UNCHANGED <<channel, conn, batch, lastId, got, published, excused, cold>>

LEMMA Storing ==
  ASSUME TypeOK, NEW p \in Publishers, NEW e \in Events, Add(p, e) \/ AddFails(p, e)
  PROVE  \E id : StoreStep(p, e, id)
<1>1. CASE Add(p, e)
  <2>1. StoreStep(p, e, Len(stream) + 1)
    BY <1>1 DEF TypeOK, Add, Begin, StoreStep, serving
  <2> QED  BY <2>1
<1>2. CASE AddFails(p, e)
  <2>1. StoreStep(p, e, 0)
    BY <1>2 DEF AddFails, Begin, StoreStep, serving
  <2> QED  BY <2>1
<1> QED  BY <1>1, <1>2

\* What a publisher holds afterwards it held before, or it is idle.
Holding(q) ==
    \/ pub'[q] = Idle
    \/ pub[q] # Idle /\ pub'[q].event = pub[q].event /\ pub'[q].id = pub[q].id

\* e is sent with id, or the attempt fails.
SendStep(e, id) ==
    /\ e \in Events /\ Names(id, e)
    /\ Send(e, id) \/ UNCHANGED <<channel, published, excused>>
    /\ pub' \in [Publishers -> {Idle} \cup Pending]
    /\ \A q \in Publishers : Holding(q)
    /\ \/ e \in unsent \cap Raw /\ id = 0 /\ unsent' = unsent \ {e} /\ UNCHANGED unsure
       \/ /\ \E p \in Publishers : pub[p] # Idle /\ pub[p].event = e /\ pub[p].id = id
          /\ e \notin Raw /\ unsure' \in {unsure, unsure \cup {e}} /\ UNCHANGED unsent
    /\ UNCHANGED <<stream, conn, batch, lastId, got, cold>>

LEMMA Sending ==
  ASSUME TypeOK, RefInv,
         \/ \E p \in Publishers : Publish(p) \/ PublishFails(p)
         \/ \E e \in Events : PublishRaw(e)
  PROVE  \E e, id : SendStep(e, id)
<1> USE DEF serving
<1>1. ASSUME NEW p \in Publishers, Publish(p) \/ PublishFails(p)
      PROVE  SendStep(pub[p].event, pub[p].id)
  <2>1. pub[p] # Idle /\ pub[p] \in Pending /\ Names(pub[p].id, pub[p].event)
    BY <1>1 DEF Publish, PublishFails, TypeOK, RefInv
  <2>2. pub[p].event \in Events \ Raw /\ pub[p].tries \in Nat
    BY <2>1 DEF Pending
  <2>3. CASE Publish(p)
    BY <2>1, <2>2, <2>3 DEF Publish, SendStep, Holding, TypeOK
  <2>4. CASE PublishFails(p)
    <3>1. /\ pub[p].tries + 1 \in Nat
          /\ pub' = [pub EXCEPT ![p] = IF pub[p].tries + 1 = MaxTries THEN Idle
                                       ELSE [pub[p] EXCEPT !.tries = pub[p].tries + 1]]
      BY <2>2, <2>4 DEF PublishFails
    <3>2. [pub[p] EXCEPT !.tries = pub[p].tries + 1] \in Pending
          /\ [pub[p] EXCEPT !.tries = pub[p].tries + 1].event = pub[p].event
          /\ [pub[p] EXCEPT !.tries = pub[p].tries + 1].id = pub[p].id
      BY <2>1, <3>1 DEF Pending
    <3>3. pub' \in [Publishers -> {Idle} \cup Pending] /\ \A q \in Publishers : Holding(q)
      BY <2>1, <3>1, <3>2 DEF TypeOK, Holding
    <3>4. /\ Send(pub[p].event, pub[p].id) \/ UNCHANGED <<channel, published, excused>>
          /\ unsure' = unsure \cup {pub[p].event}
          /\ UNCHANGED <<stream, unsent, conn, batch, lastId, got, cold>>
      BY <2>4 DEF PublishFails
    <3> QED  BY <2>1, <2>2, <3>3, <3>4 DEF SendStep
  <2> QED  BY <1>1, <2>3, <2>4
<1>2. ASSUME NEW e \in Events, PublishRaw(e)
      PROVE  SendStep(e, 0)
  BY <1>2 DEF PublishRaw, SendStep, Holding, TypeOK, Names
<1> QED  BY <1>1, <1>2

\* The connection moves on and receives nothing; what it listened to may be lost.
TurnStep ==
    /\ channel' \in {channel, <<>>}
    /\ excused \subseteq excused' /\ conn' \in Where
    /\ batch' \subseteq 1..Len(stream)
    /\ \/ lastId' = lastId /\ cold' = cold
       \/ lastId' \in 0..Len(stream) /\ cold' = TRUE
    /\ UNCHANGED <<stream, unsent, pub, got, published, unsure>>

LEMMA Turning ==
  ASSUME TypeOK,
         \/ Connect \/ Disconnect \/ SubscriptionLost \/ Subscribe \/ HotCatchup \/ ColdCatchup
         \/ HotAfterCold \/ CatchupFails \/ EndCatchup \/ CheckMissed \/ CheckFails
  PROVE  TurnStep
<1> USE DEF TurnStep, publishing, serving, After, Where
<1>1. CASE Connect \/ Disconnect \/ SubscriptionLost \/ Subscribe \/ EndCatchup \/ CheckFails
  BY <1>1 DEF TypeOK, Connect, Disconnect, SubscriptionLost, Subscribe, EndCatchup, CheckFails
<1>2. CASE HotCatchup \/ HotAfterCold \/ CatchupFails \/ CheckMissed
  BY <1>2 DEF TypeOK, HotCatchup, HotAfterCold, CatchupFails, CheckMissed
<1>3. CASE ColdCatchup
  <2>1. lastId' \in 0..Len(stream)
    BY <1>3 DEF TypeOK, ColdCatchup
  <2> QED  BY <1>3, <2>1 DEF TypeOK, ColdCatchup
<1> QED  BY <1>1, <1>2, <1>3

\* The browser receives e with id.
ReceiveStep(e, id) ==
    /\ e \in Events /\ Names(id, e)
    /\ Receive(e, id)
    /\ batch' \subseteq batch
    /\ channel' \in {channel, <<>>} \/ (channel # <<>> /\ channel' = Tail(channel))
    /\ conn' \in Where
    /\ UNCHANGED <<stream, unsent, pub, published, excused, unsure, cold>>

LEMMA Receiving ==
  ASSUME TypeOK, RefInv, YieldCaught \/ Forward
  PROVE  \E e, id : ReceiveStep(e, id)
<1> USE DEF publishing
<1>1. CASE YieldCaught
  <2>1. PICK i \in batch : Receive(stream[i], i) /\ batch' = batch \ {i}
    BY <1>1 DEF YieldCaught
  <2>2. stream[i] \in Events /\ Names(i, stream[i])
    <3>1. i \in 1..Len(stream) /\ stream \in Seq(Events \ Raw)
      BY DEF TypeOK
    <3> QED  BY <3>1 DEF Names
  <2>3. ReceiveStep(stream[i], i)
    BY <1>1, <2>1, <2>2 DEF YieldCaught, ReceiveStep, TypeOK
  <2> QED  BY <2>3
<1>2. CASE Forward
  <2>1. channel # <<>> /\ Receive(Head(channel).event, Head(channel).id)
    BY <1>2 DEF Forward
  <2>2. Head(channel) = channel[1] /\ 1 \in 1..Len(channel) /\ channel[1] \in Message
    BY <2>1, TailFacts DEF TypeOK
  <2>3. channel[1].event \in Events /\ Names(channel[1].id, channel[1].event)
    BY <2>2 DEF RefInv, Message
  <2>4. channel' \in {Tail(channel), <<>>} /\ conn' \in Where /\ UNCHANGED batch
    BY <1>2 DEF Forward, Where
  <2>5. ReceiveStep(channel[1].event, channel[1].id)
    BY <1>2, <2>1, <2>2, <2>3, <2>4 DEF Forward, ReceiveStep
  <2> QED  BY <2>5
<1> QED  BY <1>1, <1>2

\* A duplicate is dropped.
LEMMA Skipping ==
  ASSUME TypeOK, SkipDuplicate
  PROVE  /\ channel # <<>> /\ channel' = Tail(channel) /\ Duplicate(channel[1].id)
         /\ conn = "live"
         /\ UNCHANGED <<stream, unsent, pub, conn, batch, lastId, got, published, excused,
                        unsure, cold>>
  BY TailFacts DEF TypeOK, SkipDuplicate, publishing, serving

-----------------------------------------------------------------------------
(* Every step keeps the types and the references.                          *)

LEMMA StoreKeepsEvents ==
  ASSUME EventsInv, NEW p \in Publishers, NEW e \in Events, NEW id, StoreStep(p, e, id)
  PROVE  EventsInv'
<1>1. StreamGrows
  BY StoreGrowsStream DEF EventsInv, StoreStep
<1>2. id \in Nat /\ [event |-> e, id |-> id, tries |-> 0] \in Pending
  BY <1>1 DEF StoreStep, StreamGrows, Pending
<1>3. TypeOK'
  BY <1>1, <1>2 DEF EventsInv, TypeOK, StoreStep, StreamGrows
<1>4. id # 0 => id = Len(stream') /\ stream'[id] = e
  BY AppendFacts DEF EventsInv, TypeOK, StoreStep
<1>5. RefInv'
  <2>1. ASSUME NEW q \in Publishers, pub'[q] # Idle
        PROVE  Names(pub[q].id, pub[q].event)'
    <3>1. CASE q = p
      BY <1>1, <1>2, <1>4, <3>1 DEF StoreStep, EventsInv, TypeOK, Names, StreamGrows
    <3>2. CASE q # p
      <4>1. pub'[q] = pub[q] /\ Names(pub[q].id, pub[q].event)
        BY <2>1, <3>2 DEF StoreStep, EventsInv, TypeOK, RefInv
      <4> QED  BY <1>1, <4>1, NamesStays DEF Names
    <3> QED  BY <3>1, <3>2
  <2>2. ASSUME NEW k \in 1..Len(channel')
        PROVE  Names(channel[k].id, channel[k].event)'
    <3>1. channel' = channel
      BY DEF StoreStep
    <3>2. Names(channel[k].id, channel[k].event)
      BY <2>2, <3>1 DEF EventsInv, RefInv
    <3> QED  BY <1>1, <3>1, <3>2, NamesStays DEF Names
  <2> QED  BY <2>1, <2>2 DEF RefInv
<1>6. PhaseInv'
  BY DEF EventsInv, PhaseInv, StoreStep, Listening
<1> QED  BY <1>3, <1>5, <1>6 DEF EventsInv

\* What Send does to the channel.
LEMMA SentAppends ==
  ASSUME TypeOK, NEW e \in Events, NEW id \in Nat, Send(e, id)
  PROVE  \/ channel' = channel /\ ~Listening
         \/ /\ Listening /\ channel' \in Seq(Message) /\ Len(channel) \in Nat
            /\ Len(channel') = Len(channel) + 1
            /\ \A k \in 1..Len(channel) : channel'[k] = channel[k]
            /\ channel'[Len(channel) + 1] = [event |-> e, id |-> id]
<1>1. [event |-> e, id |-> id] \in Message
  BY DEF Message
<1> QED  BY <1>1, AppendFacts DEF TypeOK, Send

LEMMA SendKeepsEvents ==
  ASSUME EventsInv, NEW e, NEW id, SendStep(e, id)
  PROVE  EventsInv'
<1>0. /\ e \in Events /\ id \in Nat /\ Names(id, e) /\ Len(stream) \in Nat /\ id \in 0..Len(stream)
      /\ UNCHANGED stream
  BY DEF EventsInv, TypeOK, SendStep, Names
<1>1. \/ channel' = channel
      \/ /\ Listening /\ channel' \in Seq(Message) /\ Len(channel) \in Nat
         /\ Len(channel') = Len(channel) + 1
         /\ \A k \in 1..Len(channel) : channel'[k] = channel[k]
         /\ channel'[Len(channel) + 1] = [event |-> e, id |-> id]
  BY <1>0, SentAppends DEF SendStep, EventsInv
<1>2. published' \subseteq published \cup {id}
  BY DEF SendStep, Send
<1>3. TypeOK'
  BY <1>0, <1>1, <1>2 DEF SendStep, EventsInv, TypeOK
<1>4. RefInv'
  <2>1. ASSUME NEW q \in Publishers, pub'[q] # Idle
        PROVE  Names(pub[q].id, pub[q].event)'
    BY <1>0, <2>1 DEF SendStep, Holding, EventsInv, RefInv, Names
  <2>2. ASSUME NEW k \in 1..Len(channel')
        PROVE  Names(channel[k].id, channel[k].event)'
    <3>1. CASE k \in 1..Len(channel) /\ channel'[k] = channel[k]
      BY <1>0, <3>1 DEF EventsInv, RefInv, Names
    <3>2. CASE k = Len(channel) + 1 /\ channel'[k] = [event |-> e, id |-> id]
      BY <1>0, <3>2 DEF Names
    <3> QED  BY <1>1, <3>1, <3>2
  <2> QED  BY <2>1, <2>2 DEF RefInv
<1>5. PhaseInv'
  BY <1>1 DEF SendStep, EventsInv, PhaseInv, Listening
<1> QED  BY <1>3, <1>4, <1>5 DEF EventsInv

\* A channel that loses its head, or everything, still names entries.
LEMMA ShrinkKeepsRefs ==
  ASSUME TypeOK, RefInv, UNCHANGED <<stream, pub>>,
         channel' \in {channel, <<>>} \/ (channel # <<>> /\ channel' = Tail(channel))
  PROVE  /\ channel' \in Seq(Message)
         /\ RefInv'
<1>1. /\ channel' \in Seq(Message) /\ Len(channel) \in Nat
      /\ \A k \in 1..Len(channel') : \E j \in 1..Len(channel) : channel'[k] = channel[j]
  <2>1. CASE channel # <<>> /\ channel' = Tail(channel)
    BY <2>1, TailFacts DEF TypeOK
  <2>2. CASE channel' = channel
    BY <2>2 DEF TypeOK
  <2>3. CASE channel' = <<>>
    BY <2>3 DEF TypeOK
  <2> QED  BY <2>1, <2>2, <2>3
<1> QED  BY <1>1 DEF RefInv, Names

LEMMA ServeKeepsEvents ==
  ASSUME EventsInv, Connect \/ Disconnect \/ SubscriptionLost \/ Serve
  PROVE  EventsInv'
<1>1. CASE \/ Connect \/ Disconnect \/ SubscriptionLost \/ Subscribe \/ HotCatchup
           \/ ColdCatchup \/ HotAfterCold \/ CatchupFails \/ EndCatchup \/ CheckMissed
           \/ CheckFails
  <2>1. TurnStep
    BY <1>1, Turning DEF EventsInv
  <2>2. channel' \in Seq(Message) /\ RefInv'
    BY <2>1, ShrinkKeepsRefs DEF TurnStep, EventsInv
  <2>3. TypeOK'
    BY <2>1, <2>2 DEF TurnStep, EventsInv, TypeOK
  <2>4. PhaseInv'
    BY <1>1 DEF EventsInv, PhaseInv, Listening, Connect, Disconnect, SubscriptionLost, Subscribe,
       HotCatchup, ColdCatchup, HotAfterCold, CatchupFails, EndCatchup, CheckMissed, CheckFails,
       serving
  <2> QED  BY <2>2, <2>3, <2>4 DEF EventsInv
<1>2. CASE YieldCaught \/ Forward
  <2>1. PICK e, id : ReceiveStep(e, id)
    BY <1>2, Receiving DEF EventsInv
  <2>2. channel' \in Seq(Message) /\ RefInv'
    BY <2>1, ShrinkKeepsRefs DEF ReceiveStep, EventsInv
  <2>3. lastId' \in 0..Len(stream) /\ got' \in [Events -> Nat]
    BY <2>1 DEF ReceiveStep, Receive, LastEventId, Names, EventsInv, TypeOK
  <2>4. TypeOK'
    BY <2>1, <2>2, <2>3 DEF ReceiveStep, EventsInv, TypeOK
  <2>5. PhaseInv'
    BY <1>2 DEF EventsInv, PhaseInv, Listening, YieldCaught, Forward
  <2> QED  BY <2>2, <2>4, <2>5 DEF EventsInv
<1>3. CASE SkipDuplicate
  <2>1. channel' \in Seq(Message) /\ RefInv'
    BY <1>3, Skipping, ShrinkKeepsRefs DEF EventsInv
  <2>2. TypeOK' /\ PhaseInv'
    BY <1>3, <2>1, Skipping DEF EventsInv, TypeOK, PhaseInv, Listening
  <2> QED  BY <2>1, <2>2 DEF EventsInv
<1> QED  BY <1>1, <1>2, <1>3 DEF Serve

\* The events stay well-typed: entries, messages and pending publications refer to
\* the stream.
THEOREM TypeCorrect == Spec => []EventsInv
<1>1. Init => EventsInv
  <2> SUFFICES ASSUME Init  PROVE EventsInv
    OBVIOUS
  <2>1. TypeOK
    <3>1. stream = <<>> /\ channel = <<>> /\ Len(stream) = 0 /\ lastId = 0
      BY DEF Init
    <3>2. stream \in Seq(Events \ Raw) /\ channel \in Seq(Message)
      BY <3>1
    <3>3. pub \in [Publishers -> {Idle} \cup Pending] /\ got \in [Events -> Nat]
      BY DEF Init
    <3>4. conn \in Where /\ cold \in BOOLEAN
      BY DEF Init, Where
    <3> QED  BY <3>1, <3>2, <3>3, <3>4 DEF Init, TypeOK
  <2>2. RefInv /\ PhaseInv
    BY DEF Init, RefInv, PhaseInv, Listening
  <2> QED  BY <2>1, <2>2 DEF EventsInv
<1>2. EventsInv /\ [Next]_vars => EventsInv'
  <2> SUFFICES ASSUME EventsInv, [Next]_vars
               PROVE  EventsInv'
    OBVIOUS
  <2>1. ASSUME NEW p \in Publishers, NEW e \in Events, Add(p, e) \/ AddFails(p, e)
        PROVE  EventsInv'
    BY <2>1, Storing, StoreKeepsEvents DEF EventsInv
  <2>2. CASE \/ \E p \in Publishers : Publish(p) \/ PublishFails(p)
             \/ \E e \in Events : PublishRaw(e)
    BY <2>2, Sending, SendKeepsEvents DEF EventsInv
  <2>3. CASE UNCHANGED vars
    BY <2>3 DEF EventsInv, TypeOK, RefInv, Names, PhaseInv, Listening, vars, publishing, serving
  <2> QED  BY <2>1, <2>2, <2>3, ServeKeepsEvents DEF Next
<1> QED  BY <1>1, <1>2, PTL DEF Spec

-----------------------------------------------------------------------------
(* Gaps: what the browser has not received is a delta, excused, about to be *)
(* yielded, or on the channel in its place.                                 *)

Covered(i) == got[stream[i]] > 0 \/ stream[i] \in Deltas \/ i \in excused

\* The catch-up of this connection has read the stream.
HasReplayed == conn \in {"catchup", "live", "check", "checking"}

InChannel(i) == \E k \in 1..Len(channel) : channel[k].id = i

PrefixCovered == \A i \in 1..lastId : Covered(i)

\* A batch goes on where the browser is, and leaves out only what is covered.
BatchFits ==
    \A b \in batch : lastId < b /\ \A i \in lastId + 1 .. b : Covered(i) \/ i \in batch

PublishedKept == \A i \in published \ {0} : Covered(i) \/ i \in batch \/ InChannel(i)

\* What precedes a message's entry precedes the message.
ChannelInOrder ==
    \A k \in 1..Len(channel) : \A i \in 1 .. channel[k].id - 1 :
        Covered(i) \/ i \in batch \/ \E j \in 1 .. k - 1 : channel[j].id = i

GapInv ==
    /\ conn = "archived" => cold
    /\ ~cold => /\ PrefixCovered
                /\ BatchFits
                /\ HasReplayed => PublishedKept /\ ChannelInOrder

\* What is covered stays covered.
LEMMA CoveredStays ==
  ASSUME TypeOK, StreamGrows, NEW i \in 1..Len(stream), Covered(i), excused \subseteq excused',
         \A e \in Events : got[e] > 0 => got'[e] > 0
  PROVE  Covered(i)'
<1>1. stream[i] \in Events /\ stream'[i] = stream[i]
  BY DEF TypeOK, StreamGrows
<1> QED  BY <1>1 DEF Covered

\* The ids in use are entries.
LEMMA IdsAreEntries ==
  ASSUME EventsInv
  PROVE  /\ Len(stream) \in Nat /\ lastId \in 0..Len(stream)
         /\ 1..lastId \subseteq 1..Len(stream)
         /\ \A b \in batch : b \in Nat /\ lastId + 1 .. b \subseteq 1..Len(stream)
         /\ published \ {0} \subseteq 1..Len(stream)
         /\ Len(channel) \in Nat
         /\ \A k \in 1..Len(channel) :
              channel[k].id \in Nat /\ 1 .. channel[k].id - 1 \subseteq 1..Len(stream)
<1>1. /\ Len(stream) \in Nat /\ lastId \in 0..Len(stream) /\ batch \subseteq 1..Len(stream)
      /\ published \subseteq 0..Len(stream) /\ Len(channel) \in Nat
  BY DEF EventsInv, TypeOK
<1>2. \A k \in 1..Len(channel) : channel[k].id \in 0..Len(stream)
  BY DEF EventsInv, RefInv, Names
<1> QED  BY <1>1, <1>2

\* The stream grows.
LEMMA StoreKeepsGap ==
  ASSUME EventsInv, GapInv, NEW p \in Publishers, NEW e \in Events, NEW id, StoreStep(p, e, id)
  PROVE  GapInv'
<1>1. StreamGrows
  BY StoreGrowsStream DEF EventsInv, StoreStep
<1>2. UNCHANGED <<channel, conn, batch, lastId, got, published, excused, cold>>
  BY DEF StoreStep
<1>3. \A i \in 1..Len(stream) : Covered(i) => Covered(i)'
  BY <1>1, <1>2, CoveredStays DEF EventsInv
<1> SUFFICES ASSUME ~cold
             PROVE  PrefixCovered' /\ BatchFits' /\ (HasReplayed => PublishedKept' /\ ChannelInOrder')
  BY <1>2 DEF GapInv, HasReplayed
<1>4. PrefixCovered'
  BY <1>2, <1>3, IdsAreEntries DEF GapInv, PrefixCovered
<1>5. BatchFits'
  BY <1>2, <1>3, IdsAreEntries DEF GapInv, BatchFits
<1>6. HasReplayed => PublishedKept'
  BY <1>2, <1>3, IdsAreEntries DEF GapInv, PublishedKept, InChannel
<1>7. HasReplayed => ChannelInOrder'
  <2> SUFFICES ASSUME HasReplayed, NEW k \in 1..Len(channel), NEW i \in 1 .. channel[k].id - 1
               PROVE  Covered(i)' \/ i \in batch \/ \E j \in 1 .. k - 1 : channel[j].id = i
    BY <1>2 DEF ChannelInOrder
  <2>1. Covered(i) \/ i \in batch \/ \E j \in 1 .. k - 1 : channel[j].id = i
    BY DEF GapInv, ChannelInOrder
  <2> QED  BY <1>3, <2>1, IdsAreEntries
<1> QED  BY <1>4, <1>5, <1>6, <1>7

\* What is sent finds everything before it received, excused or ahead of it.
LEMMA SendKeepsGap ==
  ASSUME EventsInv, GapInv, NEW e, NEW id, SendStep(e, id)
  PROVE  GapInv'
<1>0. e \in Events /\ id \in Nat /\ TypeOK
  BY DEF EventsInv, TypeOK, SendStep, Names
<1>1. UNCHANGED <<stream, conn, batch, lastId, got, cold>> /\ excused \subseteq excused'
  BY DEF SendStep, Send
<1>2. \A i \in 1..Len(stream) : Covered(i) => Covered(i)'
  BY <1>0, <1>1, StreamStays, CoveredStays
<1> SUFFICES ASSUME ~cold
             PROVE  PrefixCovered' /\ BatchFits' /\ (HasReplayed => PublishedKept' /\ ChannelInOrder')
  BY <1>1 DEF GapInv, HasReplayed
<1>3. PrefixCovered'
  BY <1>1, <1>2, IdsAreEntries DEF GapInv, PrefixCovered
<1>4. BatchFits'
  BY <1>1, <1>2, IdsAreEntries DEF GapInv, BatchFits
<1>5. CASE UNCHANGED <<channel, published>>
  <2>1. HasReplayed => PublishedKept'
    BY <1>1, <1>2, <1>5, IdsAreEntries DEF GapInv, PublishedKept, InChannel
  <2>2. HasReplayed => ChannelInOrder'
    BY <1>1, <1>2, <1>5, IdsAreEntries, SMTT(30) DEF GapInv, ChannelInOrder
  <2> QED  BY <1>3, <1>4, <2>1, <2>2
<1>6. CASE Send(e, id) /\ HasReplayed
  <2>1. Listening
    BY <1>6 DEF HasReplayed, Listening
  <2>2. /\ Len(channel) \in Nat /\ Len(channel') = Len(channel) + 1
        /\ \A k \in 1..Len(channel) : channel'[k] = channel[k]
        /\ channel'[Len(channel) + 1].id = id
    <3>1. channel'[Len(channel) + 1] = [event |-> e, id |-> id]
          /\ Len(channel) \in Nat /\ Len(channel') = Len(channel) + 1
          /\ \A k \in 1..Len(channel) : channel'[k] = channel[k]
      BY <1>0, <1>6, <2>1, SentAppends
    <3> QED  BY <3>1
  <2>3. published' = published \cup {id}
        /\ \A i \in 1 .. id - 1 : i \in published \/ i \in excused'
    BY <1>6 DEF Send
  <2>4. PublishedKept'
    <3> SUFFICES ASSUME NEW i \in published' \ {0}
                 PROVE  Covered(i)' \/ i \in batch \/ InChannel(i)'
      BY <1>1 DEF PublishedKept
    <3>1. CASE i = id
      BY <2>2, <3>1 DEF InChannel
    <3>2. CASE i \in published
      <4>1. Covered(i) \/ i \in batch \/ InChannel(i)
        BY <1>6, <3>2 DEF GapInv, PublishedKept
      <4>2. InChannel(i) => InChannel(i)'
        BY <2>2 DEF InChannel
      <4> QED  BY <1>2, <3>2, <4>1, <4>2, IdsAreEntries
    <3> QED  BY <2>3, <3>1, <3>2
  <2>5. ChannelInOrder'
    <3> SUFFICES ASSUME NEW k \in 1..Len(channel'), NEW i \in 1 .. channel'[k].id - 1
                 PROVE  Covered(i)' \/ i \in batch \/ \E j \in 1 .. k - 1 : channel'[j].id = i
      BY <1>1 DEF ChannelInOrder
    <3>1. CASE k \in 1..Len(channel)
      <4>1. /\ channel'[k] = channel[k] /\ i \in 1..Len(stream)
            /\ \A j \in 1 .. k - 1 : channel'[j] = channel[j]
        BY <2>2, <3>1, IdsAreEntries
      <4>2. Covered(i) \/ i \in batch \/ \E j \in 1 .. k - 1 : channel[j].id = i
        BY <1>6, <3>1, <4>1 DEF GapInv, ChannelInOrder
      <4> QED  BY <1>2, <4>1, <4>2
    <3>2. CASE k = Len(channel) + 1
      <4>1. i \in 1 .. id - 1
        BY <2>2, <3>2
      <4>2. CASE i \in excused'
        BY <4>2 DEF Covered
      <4>3. CASE i \in published
        <5>1. Covered(i) \/ i \in batch \/ InChannel(i)
          BY <1>6, <4>1, <4>3 DEF GapInv, PublishedKept
        <5>2. InChannel(i) => \E j \in 1 .. k - 1 : channel'[j].id = i
          BY <2>2, <3>2 DEF InChannel
        <5> QED  BY <1>2, <4>1, <4>3, <5>1, <5>2, IdsAreEntries
      <4> QED  BY <2>3, <4>1, <4>2, <4>3
    <3> QED  BY <2>2, <3>1, <3>2
  <2> QED  BY <1>3, <1>4, <2>4, <2>5
<1> QED  BY <1>3, <1>4, <1>5, <1>6 DEF SendStep

\* The connection opens, subscribes or goes: only what the browser has counts.
LEMMA ConnectionKeepsGap ==
  ASSUME EventsInv, GapInv, Connect \/ Disconnect \/ Subscribe
  PROVE  GapInv'
<1>1. /\ UNCHANGED <<stream, lastId, got, excused, cold>>
      /\ batch' = {} /\ ~HasReplayed' /\ conn' # "archived"
  BY DEF Connect, Disconnect, Subscribe, EventsInv, PhaseInv, HasReplayed, publishing
<1>2. ~cold => PrefixCovered'
  BY <1>1 DEF GapInv, PrefixCovered, Covered
<1> QED  BY <1>1, <1>2 DEF GapInv, BatchFits

\* The subscription loses messages, which are excused.
LEMMA LossKeepsGap ==
  ASSUME EventsInv, GapInv, SubscriptionLost
  PROVE  GapInv'
<1>1. /\ UNCHANGED <<stream, conn, batch, lastId, got, published, cold>> /\ channel' = <<>>
      /\ excused' = excused \cup ({channel[k].id : k \in 1..Len(channel)} \ {0})
  BY DEF SubscriptionLost, publishing, serving
<1>2. \A i \in 1..Len(stream) : Covered(i) => Covered(i)'
  BY <1>1, StreamStays, CoveredStays DEF EventsInv
<1>3. ~cold => PrefixCovered'
  BY <1>1, <1>2, IdsAreEntries DEF GapInv, PrefixCovered
<1>4. ~cold => BatchFits'
  BY <1>1, <1>2, IdsAreEntries DEF GapInv, BatchFits
<1>5. ~cold /\ HasReplayed => PublishedKept'
  <2>1. \A i : i # 0 /\ InChannel(i) => i \in excused'
    BY <1>1 DEF InChannel
  <2>2. \A i \in published \ {0} : InChannel(i) => Covered(i)'
    BY <2>1 DEF Covered
  <2> QED  BY <1>1, <1>2, <2>2, IdsAreEntries DEF GapInv, PublishedKept
<1>6. ChannelInOrder'
  BY <1>1 DEF ChannelInOrder
<1> QED  BY <1>1, <1>3, <1>4, <1>5, <1>6 DEF GapInv, HasReplayed

\* A catch-up accounts for the whole stream.
LEMMA CatchupKeepsGap ==
  ASSUME EventsInv, GapInv, HotCatchup \/ CatchupFails \/ ColdCatchup \/ HotAfterCold
  PROVE  GapInv'
<1>0. Len(stream) \in Nat /\ lastId \in Nat /\ CatchupLimit \in Nat
  BY IdsAreEntries, LimitsAssumption
<1>1. CASE ColdCatchup \/ HotAfterCold
  BY <1>1 DEF ColdCatchup, HotAfterCold, GapInv
<1>2. CASE HotCatchup \/ CatchupFails
  <2>1. /\ UNCHANGED <<stream, channel, lastId, got, published, cold>>
        /\ excused \subseteq excused' /\ conn' = "catchup"
    BY <1>2 DEF HotCatchup, CatchupFails, publishing
  <2>2. \A i \in 1..Len(stream) : Covered(i) => Covered(i)'
    BY <2>1, StreamStays, CoveredStays DEF EventsInv
  <2>3. ~cold => PrefixCovered'
    BY <2>1, <2>2, IdsAreEntries DEF GapInv, PrefixCovered
  <2>4. ASSUME NEW i \in 1..Len(stream), lastId < i
        PROVE  Covered(i)' \/ i \in batch'
    <3>1. CASE CatchupFails
      BY <3>1 DEF CatchupFails, Covered
    <3>2. CASE HotCatchup /\ lastId + CatchupLimit < i
      BY <3>2 DEF HotCatchup, Truncated, Covered
    <3>3. CASE HotCatchup /\ i <= lastId + CatchupLimit
      BY <2>1, <2>4, <3>3 DEF HotCatchup, After, Covered
    <3> QED  BY <1>0, <1>2, <3>1, <3>2, <3>3
  <2>5. \A b \in batch' : lastId < b /\ b \in 1..Len(stream)
    BY <1>2 DEF HotCatchup, CatchupFails, After
  <2>6. BatchFits'
    <3> SUFFICES ASSUME NEW b \in batch', NEW i \in lastId + 1 .. b
                 PROVE  lastId < b /\ (Covered(i)' \/ i \in batch')
      BY <2>1, <2>5 DEF BatchFits
    <3>1. i \in 1..Len(stream) /\ lastId < i
      BY <1>0, <2>5
    <3> QED  BY <2>4, <2>5, <3>1
  <2>7. ~cold => \A i \in 1..Len(stream) : Covered(i)' \/ i \in batch'
    <3> SUFFICES ASSUME ~cold, NEW i \in 1..Len(stream)
                 PROVE  Covered(i)' \/ i \in batch'
      OBVIOUS
    <3>1. CASE lastId < i
      BY <2>4, <3>1
    <3>2. CASE i <= lastId
      <4>1. Covered(i)
        BY <1>0, <3>2 DEF GapInv, PrefixCovered
      <4> QED  BY <2>2, <4>1
    <3> QED  BY <1>0, <3>1, <3>2
  <2>8. ~cold => PublishedKept' /\ ChannelInOrder'
    <3>1. ~cold => PublishedKept'
      BY <2>1, <2>7, IdsAreEntries DEF PublishedKept
    <3>2. ~cold => ChannelInOrder'
      BY <2>1, <2>7, IdsAreEntries DEF ChannelInOrder
    <3> QED  BY <3>1, <3>2
  <2> QED  BY <2>1, <2>3, <2>6, <2>8 DEF GapInv
<1> QED  BY <1>1, <1>2

\* The check reads on from where the browser is, or nothing changes.
LEMMA CheckKeepsGap ==
  ASSUME EventsInv, GapInv, EndCatchup \/ CheckMissed \/ CheckFails
  PROVE  GapInv'
<1>1. /\ UNCHANGED <<stream, channel, lastId, got, published, excused, cold>>
      /\ HasReplayed /\ conn' \in {"live", "checking"} /\ batch = {}
      /\ batch' = {} \/ batch' = After(lastId, CheckLimit, {})
  BY DEF EndCatchup, CheckMissed, CheckFails, publishing, EventsInv, PhaseInv, HasReplayed
<1>2. \A i \in 1..Len(stream) : Covered(i) => Covered(i)'
  BY <1>1 DEF Covered
<1>3. ~cold => PrefixCovered'
  BY <1>1, <1>2, IdsAreEntries DEF GapInv, PrefixCovered
<1>4. BatchFits'
  <2>1. CASE batch' = {}
    BY <2>1 DEF BatchFits
  <2>2. CASE batch' = After(lastId, CheckLimit, {})
    <3>1. \A b \in batch' : b \in 1..Len(stream) /\ lastId < b /\ b <= lastId + CheckLimit
      BY <2>2 DEF After
    <3> SUFFICES ASSUME NEW b \in batch', NEW i \in lastId + 1 .. b
                 PROVE  i \in batch'
      BY <1>1, <3>1 DEF BatchFits
    <3>2. Len(stream) \in Nat /\ lastId \in Nat /\ CheckLimit \in Nat
      BY IdsAreEntries, LimitsAssumption
    <3>3. i \in 1..Len(stream) /\ lastId < i /\ i <= lastId + CheckLimit
      BY <3>1, <3>2
    <3> QED  BY <2>2, <3>3 DEF After
  <2> QED  BY <1>1, <2>1, <2>2
<1>5. ~cold => PublishedKept'
  BY <1>1, <1>2, IdsAreEntries DEF GapInv, PublishedKept, InChannel
<1>6. ~cold => ChannelInOrder'
  <2> SUFFICES ASSUME ~cold, NEW k \in 1..Len(channel), NEW i \in 1 .. channel[k].id - 1
               PROVE  Covered(i)' \/ i \in batch' \/ \E j \in 1 .. k - 1 : channel[j].id = i
    BY <1>1 DEF ChannelInOrder
  <2>1. Covered(i) \/ \E j \in 1 .. k - 1 : channel[j].id = i
    BY <1>1 DEF GapInv, ChannelInOrder
  <2> QED  BY <1>2, <2>1, IdsAreEntries
<1> QED  BY <1>1, <1>3, <1>4, <1>5, <1>6 DEF GapInv

\* What is yielded next follows on what the browser has.
LEMMA YieldKeepsGap ==
  ASSUME EventsInv, GapInv, YieldCaught
  PROVE  GapInv'
<1>1. PICK b \in batch : /\ \A j \in batch : b <= j
                         /\ Receive(stream[b], b)
                         /\ batch' = batch \ {b}
  BY DEF YieldCaught
<1>2. /\ UNCHANGED <<stream, channel, conn, published, excused, cold>> /\ HasReplayed
      /\ b \in 1..Len(stream) /\ stream[b] \in Events /\ Len(stream) \in Nat /\ lastId \in Nat
  BY DEF YieldCaught, publishing, HasReplayed, EventsInv, TypeOK
<1>3. lastId' = b /\ got' \in [Events -> Nat] /\ got'[stream[b]] > 0
      /\ \A e \in Events : got[e] > 0 => got'[e] > 0
  <2>1. got \in [Events -> Nat]
    BY DEF EventsInv, TypeOK
  <2> QED  BY <1>1, <1>2, <2>1 DEF Receive, LastEventId
<1>4. \A i \in 1..Len(stream) : Covered(i) => Covered(i)'
  BY <1>2, <1>3, StreamStays, CoveredStays DEF EventsInv
<1>5. Covered(b)'
  BY <1>2, <1>3 DEF Covered
<1>6. \A i \in 1..Len(stream) : Covered(i) \/ i \in batch => Covered(i)' \/ i \in batch'
  BY <1>1, <1>4, <1>5
<1> SUFFICES ASSUME ~cold
             PROVE  PrefixCovered' /\ BatchFits' /\ PublishedKept' /\ ChannelInOrder'
  BY <1>2 DEF GapInv, HasReplayed
<1>7. lastId < b /\ \A i \in lastId + 1 .. b : Covered(i) \/ i \in batch
  BY DEF GapInv, BatchFits
<1>8. PrefixCovered'
  <2> SUFFICES ASSUME NEW i \in 1..b
               PROVE  Covered(i)'
    BY <1>3 DEF PrefixCovered
  <2>1. CASE i <= lastId
    <3>1. i \in 1..lastId /\ i \in 1..Len(stream)
      BY <1>2, <2>1
    <3> QED  BY <1>4, <3>1 DEF GapInv, PrefixCovered
  <2>2. CASE lastId < i /\ i < b
    <3>1. i \notin batch
      BY <1>1, <1>2, <2>2
    <3>2. i \in lastId + 1 .. b /\ i \in 1..Len(stream)
      BY <1>2, <2>2
    <3> QED  BY <1>4, <1>7, <3>1, <3>2
  <2>3. CASE i = b
    BY <1>5, <2>3
  <2> QED  BY <1>2, <2>1, <2>2, <2>3
<1>9. BatchFits'
  <2> SUFFICES ASSUME NEW c \in batch'
               PROVE  b < c /\ \A i \in b + 1 .. c : Covered(i)' \/ i \in batch'
    BY <1>3 DEF BatchFits
  <2>1. c \in batch /\ c \in 1..Len(stream) /\ b < c
    BY <1>1, <1>2 DEF EventsInv, TypeOK
  <2>2. \A i \in b + 1 .. c : i \in lastId + 1 .. c /\ i \in 1..Len(stream)
    BY <1>2, <1>7, <2>1
  <2>3. \A i \in lastId + 1 .. c : Covered(i) \/ i \in batch
    BY <2>1 DEF GapInv, BatchFits
  <2> QED  BY <1>6, <2>1, <2>2, <2>3
<1>10. PublishedKept'
  BY <1>2, <1>6, IdsAreEntries DEF GapInv, PublishedKept, InChannel
<1>11. ChannelInOrder'
  <2> SUFFICES ASSUME NEW k \in 1..Len(channel), NEW i \in 1 .. channel[k].id - 1
               PROVE  Covered(i)' \/ i \in batch' \/ \E j \in 1 .. k - 1 : channel[j].id = i
    BY <1>2 DEF ChannelInOrder
  <2>1. Covered(i) \/ i \in batch \/ \E j \in 1 .. k - 1 : channel[j].id = i
    BY <1>2 DEF GapInv, ChannelInOrder
  <2> QED  BY <1>6, <2>1, IdsAreEntries
<1> QED  BY <1>8, <1>9, <1>10, <1>11

\* A channel may lose its head once the entry the head carries is covered.
LEMMA TailKeepsOrder ==
  ASSUME EventsInv, PublishedKept, ChannelInOrder, batch = {}, batch' = {},
         channel # <<>>, channel' = Tail(channel), UNCHANGED <<stream, published>>,
         \A i \in 1..Len(stream) : Covered(i) => Covered(i)',
         NEW h, h = channel[1].id, h = 0 \/ Covered(h)'
  PROVE  PublishedKept' /\ ChannelInOrder'
<1>1. /\ Len(channel) \in Nat \ {0} /\ Len(channel') = Len(channel) - 1
      /\ \A k \in 1 .. Len(channel) - 1 : channel'[k] = channel[k + 1]
  BY TailFacts DEF EventsInv, TypeOK
<1>2. PublishedKept'
  <2> SUFFICES ASSUME NEW i \in published \ {0}
               PROVE  Covered(i)' \/ InChannel(i)'
    BY DEF PublishedKept
  <2>1. Covered(i) \/ InChannel(i)
    BY DEF PublishedKept
  <2>2. CASE InChannel(i)
    <3>1. PICK k \in 1..Len(channel) : channel[k].id = i
      BY <2>2 DEF InChannel
    <3>2. CASE k = 1
      BY <3>1, <3>2
    <3>3. CASE k # 1
      <4>1. k - 1 \in 1..Len(channel') /\ channel'[k - 1] = channel[k]
        BY <1>1, <3>3
      <4> QED  BY <3>1, <4>1 DEF InChannel
    <3> QED  BY <3>2, <3>3
  <2> QED  BY <2>1, <2>2, IdsAreEntries
<1>3. ChannelInOrder'
  <2> SUFFICES ASSUME NEW k \in 1..Len(channel'), NEW i \in 1 .. channel'[k].id - 1
               PROVE  Covered(i)' \/ \E j \in 1 .. k - 1 : channel'[j].id = i
    BY DEF ChannelInOrder
  <2>1. k + 1 \in 1..Len(channel) /\ channel'[k] = channel[k + 1]
    BY <1>1
  <2>2. Covered(i) \/ \E j \in 1..k : channel[j].id = i
    <3>1. Covered(i) \/ \E j \in 1 .. k + 1 - 1 : channel[j].id = i
      BY <2>1 DEF ChannelInOrder
    <3> QED  BY <2>1, <3>1
  <2>3. i \in 1..Len(stream)
    BY <2>1, IdsAreEntries
  <2>4. ASSUME NEW j \in 1..k, channel[j].id = i
        PROVE  Covered(i)' \/ \E l \in 1 .. k - 1 : channel'[l].id = i
    <3>1. CASE j = 1
      BY <2>3, <2>4, <3>1
    <3>2. CASE j # 1
      <4>1. j - 1 \in 1 .. k - 1 /\ channel'[j - 1] = channel[j]
        BY <1>1, <3>2
      <4> QED  BY <2>4, <4>1
    <3> QED  BY <3>1, <3>2
  <2> QED  BY <2>2, <2>3, <2>4
<1> QED  BY <1>2, <1>3

\* A duplicate is at or below the last id, and so covered.
LEMMA SkipKeepsGap ==
  ASSUME EventsInv, GapInv, SkipDuplicate
  PROVE  GapInv'
<1>1. /\ channel # <<>> /\ channel' = Tail(channel) /\ Duplicate(channel[1].id)
      /\ conn = "live" /\ batch = {}
      /\ UNCHANGED <<stream, conn, batch, lastId, got, published, excused, cold>>
  BY Skipping DEF EventsInv, PhaseInv
<1>2. \A i \in 1..Len(stream) : Covered(i) => Covered(i)'
  BY <1>1 DEF Covered
<1> SUFFICES ASSUME ~cold
             PROVE  PrefixCovered' /\ BatchFits' /\ PublishedKept' /\ ChannelInOrder'
  BY <1>1 DEF GapInv, HasReplayed
<1>3. PrefixCovered' /\ BatchFits'
  BY <1>1 DEF GapInv, PrefixCovered, BatchFits, Covered
<1>4. /\ 1 \in 1..Len(channel) /\ channel[1].id \in Nat
      /\ lastId \in 0..Len(stream) /\ Len(stream) \in Nat
  BY <1>1, TailFacts, IdsAreEntries DEF EventsInv, TypeOK
<1>5. PICK h : h = channel[1].id
  OBVIOUS
<1>6. h \in 1..lastId
  BY <1>1, <1>4, <1>5 DEF Duplicate
<1>7. Covered(h)'
  BY <1>2, <1>4, <1>6 DEF GapInv, PrefixCovered
<1>8. PublishedKept /\ ChannelInOrder
  BY <1>1 DEF GapInv, HasReplayed
<1> QED  BY <1>1, <1>2, <1>3, <1>5, <1>7, <1>8, TailKeepsOrder

\* A message is forwarded after everything that precedes its entry.
LEMMA ForwardKeepsGap ==
  ASSUME EventsInv, GapInv, Forward
  PROVE  GapInv'
<1>0. PICK m : m = channel[1]
  OBVIOUS
<1>1. /\ channel # <<>> /\ Head(channel) = m /\ 1 \in 1..Len(channel)
      /\ m \in Message /\ Names(m.id, m.event)
  <2>1. channel # <<>>
    BY DEF Forward
  <2>2. Head(channel) = m /\ 1 \in 1..Len(channel) /\ m \in Message
    BY <1>0, <2>1, TailFacts DEF EventsInv, TypeOK
  <2> QED  BY <1>0, <2>1, <2>2 DEF EventsInv, RefInv
<1>2. /\ ~Duplicate(m.id) /\ Receive(m.event, m.id)
      /\ conn = "live" /\ batch = {} /\ batch' = {}
      /\ UNCHANGED <<stream, published, excused, cold>>
      /\ conn' = "none" \/ (conn' \in {"live", "check"} /\ channel' = Tail(channel))
  BY <1>1 DEF Forward, publishing, EventsInv, PhaseInv
<1>3. /\ m.event \in Events /\ m.id \in 0..Len(stream) /\ (m.id # 0 => stream[m.id] = m.event)
      /\ lastId \in 0..Len(stream) /\ Len(stream) \in Nat
  BY <1>1, IdsAreEntries DEF Names, Message
<1>4. /\ lastId' = IF m.id # 0 THEN m.id ELSE lastId
      /\ got'[m.event] > 0 /\ \A e \in Events : got[e] > 0 => got'[e] > 0
  <2>1. got \in [Events -> Nat]
    BY DEF EventsInv, TypeOK
  <2> QED  BY <1>2, <1>3, <2>1 DEF Receive, LastEventId
<1>5. \A i \in 1..Len(stream) : Covered(i) => Covered(i)'
  BY <1>2, <1>4, StreamStays, CoveredStays DEF EventsInv
<1>6. m.id = 0 \/ Covered(m.id)'
  BY <1>2, <1>3, <1>4 DEF Covered
<1> SUFFICES ASSUME ~cold
             PROVE  PrefixCovered' /\ BatchFits' /\ (HasReplayed' => PublishedKept' /\ ChannelInOrder')
  BY <1>2 DEF GapInv, HasReplayed
<1>7. PublishedKept /\ ChannelInOrder /\ PrefixCovered
  BY <1>2 DEF GapInv, HasReplayed
<1>8. PrefixCovered'
  <2>1. \A i \in 1 .. m.id - 1 : Covered(i)
    <3>1. \A i \in 1 .. m.id - 1 :
            Covered(i) \/ i \in batch \/ \E j \in 1 .. 1 - 1 : channel[j].id = i
      BY <1>0, <1>1, <1>7 DEF ChannelInOrder
    <3> QED  BY <1>2, <3>1
  <2>2. \A i \in 1..lastId' : i \in 1..Len(stream) /\ (Covered(i) \/ i = m.id)
    BY <1>3, <1>4, <1>7, <2>1 DEF PrefixCovered
  <2>3. \A i \in 1..lastId' : Covered(i)'
    BY <1>3, <1>5, <1>6, <2>2
  <2> QED  BY <2>3 DEF PrefixCovered
<1>9. BatchFits'
  BY <1>2 DEF BatchFits
<1>10. HasReplayed' => PublishedKept' /\ ChannelInOrder'
  <2> SUFFICES ASSUME HasReplayed'
               PROVE  PublishedKept' /\ ChannelInOrder'
    OBVIOUS
  <2>1. channel' = Tail(channel)
    BY <1>2 DEF HasReplayed
  <2> QED  BY <1>0, <1>1, <1>2, <1>5, <1>6, <1>7, <2>1, TailKeepsOrder
<1> QED  BY <1>8, <1>9, <1>10

LEMMA GapInvariant == Spec => []GapInv
<1>1. Init => GapInv
  BY DEF Init, GapInv, PrefixCovered, BatchFits, HasReplayed
<1>2. EventsInv /\ GapInv /\ [Next]_vars => GapInv'
  <2> SUFFICES ASSUME EventsInv, GapInv, [Next]_vars
               PROVE  GapInv'
    OBVIOUS
  <2>1. ASSUME NEW p \in Publishers, NEW e \in Events, Add(p, e) \/ AddFails(p, e)
        PROVE  GapInv'
    BY <2>1, Storing, StoreKeepsGap DEF EventsInv
  <2>2. CASE \/ \E p \in Publishers : Publish(p) \/ PublishFails(p)
             \/ \E e \in Events : PublishRaw(e)
    BY <2>2, Sending, SendKeepsGap DEF EventsInv
  <2>3. CASE Connect \/ Disconnect \/ SubscriptionLost
    BY <2>3, ConnectionKeepsGap, LossKeepsGap
  <2>4. CASE Serve
    BY <2>4, ConnectionKeepsGap, CatchupKeepsGap, CheckKeepsGap, YieldKeepsGap, SkipKeepsGap,
       ForwardKeepsGap DEF Serve
  <2>5. CASE UNCHANGED vars
    BY <2>5 DEF GapInv, PrefixCovered, BatchFits, HasReplayed, PublishedKept, ChannelInOrder,
       InChannel, Covered, vars, publishing, serving
  <2> QED  BY <2>1, <2>2, <2>3, <2>4, <2>5 DEF Next
<1> QED  BY <1>1, <1>2, TypeCorrect, PTL DEF Spec

\* An entry has no gap below it that the connection could have filled, at whatever
\* moment the browser is cut off.
THEOREM PrefixIsReceived == Spec => []PrefixReceived
<1>1. GapInv => PrefixReceived
  BY DEF GapInv, PrefixCovered, Covered, PrefixReceived
<1> QED  BY <1>1, GapInvariant, PTL

\* When the live loop has nothing to forward, nothing that was published in order is
\* missing.
THEOREM NothingIsMissed == Spec => []NothingMissed
<1>1. EventsInv /\ GapInv => NothingMissed
  <2> SUFFICES ASSUME EventsInv, GapInv, conn = "live", channel = <<>>, ~cold,
                      NEW i \in published \ {0}
               PROVE  Covered(i)
    BY DEF NothingMissed, Covered
  <2>1. batch = {} /\ Len(channel) = 0
    BY DEF EventsInv, PhaseInv
  <2> QED  BY <2>1 DEF GapInv, HasReplayed, PublishedKept, InChannel
<1> QED  BY <1>1, TypeCorrect, GapInvariant, PTL

-----------------------------------------------------------------------------
(* Once: an event travels under one entry, which the browser's last id marks *)
(* as received, or under no id, because only the channel carries it.        *)

\* Nobody has seen an event that no publisher has begun.
FreshInv ==
    /\ \A e \in unsent : got[e] = 0 /\ e \notin unsure
    /\ \A i \in 1..Len(stream) : stream[i] \notin unsent
    /\ \A p \in Publishers : pub[p] # Idle => pub[p].event \notin unsent
    /\ \A k \in 1..Len(channel) : channel[k].event \notin unsent

\* An event has one entry, and without an id it has none or Redis failed on it.
EntryInv ==
    /\ \A i, j \in 1..Len(stream) : stream[i] = stream[j] => i = j
    /\ \A p \in Publishers : pub[p] # Idle /\ pub[p].id = 0 => pub[p].event \in unsure
    /\ \A k \in 1..Len(channel) : channel[k].id = 0 => channel[k].event \in Raw \cup unsure

\* What was received is marked by the last id.
MarkedInv ==
    ~cold => \A i \in 1..Len(stream) :
        got[stream[i]] > 0 => i <= lastId \/ stream[i] \in unsure

\* A request to the browser is on the channel once, and not received yet.
RawInv ==
    /\ \A k \in 1..Len(channel) : channel[k].event \in Raw => got[channel[k].event] = 0
    /\ \A j, k \in 1..Len(channel) :
         channel[j].event \in Raw /\ channel[j].event = channel[k].event => j = k

OnceInv == FreshInv /\ EntryInv /\ MarkedInv /\ RawInv /\ ReceivedOnce

\* A channel that loses its head, or everything, carries what it carried.
Shrinks(d) == \A k \in 1..Len(channel') : k + d \in 1..Len(channel) /\ channel'[k] = channel[k + d]

LEMMA Shrinking ==
  ASSUME TypeOK, channel' \in {channel, <<>>} \/ (channel # <<>> /\ channel' = Tail(channel))
  PROVE  \E d \in {0, 1} : Shrinks(d)
<1>1. Len(channel) \in Nat
  BY DEF TypeOK
<1>2. CASE channel # <<>> /\ channel' = Tail(channel)
  BY <1>2, TailFacts DEF TypeOK, Shrinks
<1>3. CASE channel' = channel
  BY <1>1, <1>3 DEF Shrinks
<1>4. CASE channel' = <<>>
  BY <1>4 DEF Shrinks
<1> QED  BY <1>2, <1>3, <1>4

LEMMA ShrinkKeepsOnce ==
  ASSUME EventsInv, FreshInv, EntryInv, RawInv, NEW d \in {0, 1}, Shrinks(d)
  PROVE  /\ \A k \in 1..Len(channel') :
              /\ channel'[k].event \notin unsent
              /\ channel'[k].id = 0 => channel'[k].event \in Raw \cup unsure
              /\ channel'[k].event \in Raw => got[channel'[k].event] = 0
         /\ \A j, k \in 1..Len(channel') :
              channel'[j].event \in Raw /\ channel'[j].event = channel'[k].event => j = k
<1>1. \A k \in 1..Len(channel') : k + d \in 1..Len(channel) /\ channel'[k] = channel[k + d]
  BY DEF Shrinks
<1>2. ASSUME NEW k \in 1..Len(channel')
      PROVE  /\ channel'[k].event \notin unsent
             /\ channel'[k].id = 0 => channel'[k].event \in Raw \cup unsure
             /\ channel'[k].event \in Raw => got[channel'[k].event] = 0
  BY <1>1 DEF FreshInv, EntryInv, RawInv
<1>3. ASSUME NEW j \in 1..Len(channel'), NEW k \in 1..Len(channel'),
             channel'[j].event \in Raw, channel'[j].event = channel'[k].event
      PROVE  j = k
  <2>1. /\ j + d \in 1..Len(channel) /\ channel'[j] = channel[j + d]
        /\ k + d \in 1..Len(channel) /\ channel'[k] = channel[k + d]
    BY <1>1
  <2>2. j + d = k + d
    BY <1>3, <2>1 DEF RawInv
  <2> QED  BY <2>2
<1> QED  BY <1>2, <1>3

\* The new entry's event is nobody's yet.
LEMMA StoreKeepsOnce ==
  ASSUME EventsInv, OnceInv, NEW p \in Publishers, NEW e \in Events, NEW id, StoreStep(p, e, id)
  PROVE  OnceInv'
<1>1. /\ e \in unsent \ Raw /\ unsent' = unsent \ {e} /\ unsure' \in {unsure, unsure \cup {e}}
      /\ UNCHANGED <<channel, lastId, got, cold>>
  BY DEF StoreStep
<1>2. StreamGrows
  BY StoreGrowsStream DEF EventsInv, StoreStep
<1>3. \A i \in 1..Len(stream') :
        \/ i \in 1..Len(stream) /\ stream'[i] = stream[i]
        \/ i = Len(stream) + 1 /\ stream'[i] = e
  <2>1. stream \in Seq(Events \ Raw) /\ e \in Events \ Raw
    BY DEF EventsInv, TypeOK, StoreStep
  <2>2. CASE stream' = stream
    BY <2>2
  <2>3. CASE stream' = Append(stream, e)
    BY <2>1, <2>3, AppendFacts
  <2> QED  BY <2>2, <2>3 DEF StoreStep
<1>4. \A q \in Publishers : \/ pub'[q] = pub[q]
                            \/ pub'[q].event = e /\ (pub'[q].id = 0 => e \in unsure')
  BY DEF StoreStep, EventsInv, TypeOK
<1>5. FreshInv'
  <2>1. \A f \in unsent' : got'[f] = 0 /\ f \notin unsure'
    BY <1>1 DEF OnceInv, FreshInv
  <2>2. \A i \in 1..Len(stream') : stream'[i] \notin unsent'
    BY <1>1, <1>3 DEF OnceInv, FreshInv
  <2>3. \A q \in Publishers : pub'[q] # Idle => pub'[q].event \notin unsent'
    BY <1>1, <1>4 DEF OnceInv, FreshInv
  <2>4. \A k \in 1..Len(channel') : channel'[k].event \notin unsent'
    BY <1>1 DEF OnceInv, FreshInv
  <2> QED  BY <2>1, <2>2, <2>3, <2>4 DEF FreshInv
<1>6. EntryInv'
  <2>1. ASSUME NEW i \in 1..Len(stream'), NEW j \in 1..Len(stream'), stream'[i] = stream'[j]
        PROVE  i = j
    <3>1. \A l \in 1..Len(stream) : stream[l] # e
      BY <1>1 DEF OnceInv, FreshInv
    <3>2. \/ i \in 1..Len(stream) /\ stream'[i] = stream[i]
          \/ i = Len(stream) + 1 /\ stream'[i] = e
      BY <1>3
    <3>3. \/ j \in 1..Len(stream) /\ stream'[j] = stream[j]
          \/ j = Len(stream) + 1 /\ stream'[j] = e
      BY <1>3
    <3> QED  BY <2>1, <3>1, <3>2, <3>3 DEF OnceInv, EntryInv
  <2>2. \A q \in Publishers : pub'[q] # Idle /\ pub'[q].id = 0 => pub'[q].event \in unsure'
    BY <1>1, <1>4 DEF OnceInv, EntryInv
  <2>3. \A k \in 1..Len(channel') : channel'[k].id = 0 => channel'[k].event \in Raw \cup unsure'
    BY <1>1 DEF OnceInv, EntryInv
  <2> QED  BY <2>1, <2>2, <2>3 DEF EntryInv
<1>7. MarkedInv'
  <2> SUFFICES ASSUME ~cold, NEW i \in 1..Len(stream'), got[stream'[i]] > 0
               PROVE  i <= lastId \/ stream'[i] \in unsure'
    BY <1>1 DEF MarkedInv
  <2>1. got[e] = 0
    BY <1>1 DEF OnceInv, FreshInv
  <2>2. i \in 1..Len(stream) /\ stream'[i] = stream[i]
    BY <1>3, <2>1
  <2> QED  BY <1>1, <2>2 DEF OnceInv, MarkedInv
<1>8. RawInv' /\ ReceivedOnce'
  BY <1>1 DEF OnceInv, RawInv, ReceivedOnce
<1> QED  BY <1>5, <1>6, <1>7, <1>8 DEF OnceInv

\* What is sent without an id is a request nobody has sent, or Redis failed on it.
LEMMA SendKeepsOnce ==
  ASSUME EventsInv, OnceInv, NEW e, NEW id, SendStep(e, id)
  PROVE  OnceInv'
<1>1. /\ e \in Events /\ id \in Nat /\ unsent' \subseteq unsent /\ unsure \subseteq unsure'
      /\ unsure' \subseteq unsure \cup {e} /\ e \notin unsent'
      /\ e \notin Raw => e \notin unsent
      /\ id = 0 => e \in Raw \cup unsure
      /\ e \in Raw => e \in unsent /\ unsure' = unsure
      /\ UNCHANGED <<stream, lastId, got, cold>>
  <2>1. id \in Nat /\ e \in Events
    BY DEF SendStep, Names, EventsInv, TypeOK
  <2>2. CASE e \in unsent \cap Raw /\ id = 0 /\ unsent' = unsent \ {e} /\ UNCHANGED unsure
    BY <2>1, <2>2 DEF SendStep
  <2>3. CASE /\ \E p \in Publishers : pub[p] # Idle /\ pub[p].event = e /\ pub[p].id = id
             /\ e \notin Raw /\ unsure' \in {unsure, unsure \cup {e}} /\ UNCHANGED unsent
    <3>1. e \notin unsent /\ (id = 0 => e \in unsure)
      BY <2>3 DEF OnceInv, FreshInv, EntryInv
    <3> QED  BY <2>1, <2>3, <3>1 DEF SendStep
  <2> QED  BY <2>2, <2>3 DEF SendStep
<1>2. \A q \in Publishers :
        pub'[q] # Idle => pub[q] # Idle /\ pub'[q].event = pub[q].event /\ pub'[q].id = pub[q].id
  BY DEF SendStep, Holding
<1>3. /\ Len(channel) \in Nat
      /\ \A k \in 1..Len(channel') :
           \/ k \in 1..Len(channel) /\ channel'[k] = channel[k]
           \/ k = Len(channel) + 1 /\ channel'[k].event = e /\ channel'[k].id = id
  <2>1. Len(channel) \in Nat
    BY DEF EventsInv, TypeOK
  <2>2. CASE channel' = channel
    BY <2>1, <2>2
  <2>3. CASE channel' # channel
    <3>1. /\ Len(channel') = Len(channel) + 1
          /\ \A k \in 1..Len(channel) : channel'[k] = channel[k]
          /\ channel'[Len(channel) + 1] = [event |-> e, id |-> id]
      BY <1>1, <2>3, SentAppends DEF SendStep, EventsInv
    <3>2. channel'[Len(channel) + 1].event = e /\ channel'[Len(channel) + 1].id = id
      BY <3>1
    <3> QED  BY <2>1, <3>1, <3>2
  <2> QED  BY <2>2, <2>3
<1>4. FreshInv'
  <2>1. \A f \in unsent' : got'[f] = 0 /\ f \notin unsure'
    BY <1>1 DEF OnceInv, FreshInv
  <2>2. \A i \in 1..Len(stream') : stream'[i] \notin unsent'
    BY <1>1 DEF OnceInv, FreshInv
  <2>3. \A q \in Publishers : pub'[q] # Idle => pub'[q].event \notin unsent'
    BY <1>1, <1>2 DEF OnceInv, FreshInv
  <2>4. \A k \in 1..Len(channel') : channel'[k].event \notin unsent'
    BY <1>1, <1>3 DEF OnceInv, FreshInv
  <2> QED  BY <2>1, <2>2, <2>3, <2>4 DEF FreshInv
<1>5. EntryInv'
  <2>1. \A q \in Publishers : pub'[q] # Idle /\ pub'[q].id = 0 => pub'[q].event \in unsure'
    BY <1>1, <1>2 DEF OnceInv, EntryInv
  <2>2. \A k \in 1..Len(channel') : channel'[k].id = 0 => channel'[k].event \in Raw \cup unsure'
    BY <1>1, <1>3 DEF OnceInv, EntryInv
  <2> QED  BY <1>1, <2>1, <2>2 DEF OnceInv, EntryInv
<1>6. MarkedInv' /\ ReceivedOnce'
  BY <1>1 DEF OnceInv, MarkedInv, ReceivedOnce
<1>7. RawInv'
  <2>1. e \in Raw => got[e] = 0 /\ \A k \in 1..Len(channel) : channel[k].event # e
    BY <1>1 DEF OnceInv, FreshInv
  <2>2. \A k \in 1..Len(channel') : channel'[k].event \in Raw => got'[channel'[k].event] = 0
    BY <1>1, <1>3, <2>1 DEF OnceInv, RawInv
  <2>3. ASSUME NEW j \in 1..Len(channel'), NEW k \in 1..Len(channel'),
               channel'[j].event \in Raw, channel'[j].event = channel'[k].event
        PROVE  j = k
    <3>1. \/ j \in 1..Len(channel) /\ channel'[j] = channel[j]
          \/ j = Len(channel) + 1 /\ channel'[j].event = e
      BY <1>3
    <3>2. \/ k \in 1..Len(channel) /\ channel'[k] = channel[k]
          \/ k = Len(channel) + 1 /\ channel'[k].event = e
      BY <1>3
    <3> QED  BY <2>1, <2>3, <3>1, <3>2 DEF OnceInv, RawInv
  <2> QED  BY <2>2, <2>3 DEF RawInv
<1> QED  BY <1>4, <1>5, <1>6, <1>7 DEF OnceInv

\* The connection moves on.
LEMMA TurnKeepsOnce ==
  ASSUME EventsInv, OnceInv, TurnStep
  PROVE  OnceInv'
<1>2. UNCHANGED <<stream, unsent, pub, got, published, unsure>>
  BY DEF TurnStep
<1>3. PICK d \in {0, 1} : Shrinks(d)
  BY Shrinking DEF TurnStep, EventsInv
<1>4. FreshInv' /\ EntryInv' /\ RawInv'
  BY <1>2, <1>3, ShrinkKeepsOnce DEF OnceInv, FreshInv, EntryInv, RawInv
<1>5. MarkedInv'
  <2>1. ~cold' => ~cold /\ lastId' = lastId
    BY DEF TurnStep
  <2> QED  BY <1>2, <2>1 DEF OnceInv, MarkedInv
<1>6. ReceivedOnce'
  <2>1. cold => cold'
    BY DEF TurnStep
  <2> QED  BY <1>2, <2>1 DEF OnceInv, ReceivedOnce
<1> QED  BY <1>4, <1>5, <1>6 DEF OnceInv

\* A duplicate is dropped.
LEMMA SkipKeepsOnce ==
  ASSUME EventsInv, OnceInv, SkipDuplicate
  PROVE  OnceInv'
<1>1. /\ channel # <<>> /\ channel' = Tail(channel)
      /\ UNCHANGED <<stream, unsent, pub, lastId, got, unsure, cold>>
  BY Skipping DEF EventsInv
<1>2. PICK d \in {0, 1} : Shrinks(d)
  BY <1>1, Shrinking DEF EventsInv
<1>3. FreshInv' /\ EntryInv' /\ RawInv'
  BY <1>1, <1>2, ShrinkKeepsOnce DEF OnceInv, FreshInv, EntryInv, RawInv
<1> QED  BY <1>1, <1>3 DEF OnceInv, MarkedInv, ReceivedOnce

\* What the browser receives lies above its last id, or comes off the channel.
Ahead(e, id) ==
    /\ ~cold /\ id # 0 => lastId < id
    /\ e \notin unsent
    /\ id = 0 => e \in Raw \cup unsure
    /\ e \in Raw => /\ channel # <<>> /\ channel[1].event = e
                    /\ channel' = <<>> \/ channel' = Tail(channel)

LEMMA ReceivesAhead ==
  ASSUME EventsInv, GapInv, OnceInv, YieldCaught \/ Forward
  PROVE  \E e, id : ReceiveStep(e, id) /\ Ahead(e, id)
<1> USE DEF publishing
<1>1. CASE YieldCaught
  <2>1. PICK i \in batch : Receive(stream[i], i) /\ batch' = batch \ {i}
    BY <1>1 DEF YieldCaught
  <2>2. i \in 1..Len(stream) /\ stream[i] \in Events \ Raw
    BY DEF EventsInv, TypeOK
  <2>3. Names(i, stream[i])
    BY <2>2 DEF Names
  <2>4. ReceiveStep(stream[i], i)
    BY <1>1, <2>1, <2>2, <2>3 DEF YieldCaught, ReceiveStep, EventsInv, TypeOK
  <2>5. Ahead(stream[i], i)
    BY <2>2 DEF Ahead, GapInv, BatchFits, OnceInv, FreshInv
  <2> QED  BY <2>4, <2>5
<1>2. CASE Forward
  <2>1. channel # <<>> /\ Receive(Head(channel).event, Head(channel).id)
        /\ ~Duplicate(Head(channel).id)
    BY <1>2 DEF Forward
  <2>2. Head(channel) = channel[1] /\ 1 \in 1..Len(channel) /\ channel[1] \in Message
    BY <2>1, TailFacts DEF EventsInv, TypeOK
  <2>3. /\ channel[1].event \in Events /\ channel[1].id \in Nat
        /\ Names(channel[1].id, channel[1].event)
    BY <2>2 DEF EventsInv, RefInv, Message
  <2>4. channel' \in {Tail(channel), <<>>} /\ conn' \in Where /\ UNCHANGED batch
    BY <1>2 DEF Forward, Where
  <2>5. ReceiveStep(channel[1].event, channel[1].id)
    BY <1>2, <2>1, <2>2, <2>3, <2>4 DEF Forward, ReceiveStep
  <2>6. channel[1].id # 0 => lastId < channel[1].id
    <3>1. lastId \in Nat
      BY IdsAreEntries
    <3> QED  BY <2>1, <2>2, <2>3, <3>1 DEF Duplicate
  <2>7. Ahead(channel[1].event, channel[1].id)
    BY <2>1, <2>2, <2>4, <2>6 DEF Ahead, OnceInv, FreshInv, EntryInv
  <2> QED  BY <2>5, <2>7
<1> QED  BY <1>1, <1>2

\* ... and so was not received before, or Redis failed on it.
LEMMA ReceiveKeepsOnce ==
  ASSUME EventsInv, OnceInv, NEW e, NEW id, ReceiveStep(e, id), Ahead(e, id)
  PROVE  OnceInv'
<1>1. /\ e \in Events /\ id \in 0..Len(stream) /\ (id # 0 => stream[id] = e)
      /\ Len(stream) \in Nat /\ lastId \in Nat
      /\ stream \in Seq(Events \ Raw) /\ got \in [Events -> Nat]
      /\ unsure \subseteq Events \ Raw
      /\ UNCHANGED <<stream, unsent, pub, unsure, cold>>
  BY DEF ReceiveStep, Names, EventsInv, TypeOK
<1>2. got'[e] = got[e] + 1 /\ \A f \in Events : f # e => got'[f] = got[f]
  BY <1>1 DEF ReceiveStep, Receive
<1>3. lastId' = IF id # 0 THEN id ELSE lastId
  BY DEF ReceiveStep, Receive, LastEventId
<1>4. PICK d \in {0, 1} : Shrinks(d)
  BY Shrinking DEF ReceiveStep, EventsInv
<1>5. ~cold /\ e \notin unsure => got[e] = 0
  <2> SUFFICES ASSUME ~cold, e \notin unsure
               PROVE  got[e] = 0
    OBVIOUS
  <2>1. CASE id = 0
    <3>1. e \in Raw /\ channel # <<>> /\ channel[1].event = e
      BY <2>1 DEF Ahead
    <3>2. 1 \in 1..Len(channel)
      BY <3>1, TailFacts DEF EventsInv, TypeOK
    <3> QED  BY <3>1, <3>2 DEF OnceInv, RawInv
  <2>2. CASE id # 0
    <3>1. id \in 1..Len(stream) /\ lastId < id
      BY <1>1, <2>2 DEF Ahead
    <3>2. ~(id <= lastId)
      BY <1>1, <3>1
    <3>3. ~(got[stream[id]] > 0)
      BY <1>1, <3>1, <3>2, <2>2 DEF OnceInv, MarkedInv
    <3>4. got[e] \in Nat
      BY <1>1
    <3> QED  BY <1>1, <2>2, <3>3, <3>4
  <2> QED  BY <2>1, <2>2
<1>6. FreshInv'
  <2>1. \A f \in unsent' : got'[f] = 0 /\ f \notin unsure'
    <3>1. unsent \subseteq Events /\ e \notin unsent
      BY DEF EventsInv, TypeOK, Ahead
    <3> QED  BY <1>1, <1>2, <3>1 DEF OnceInv, FreshInv
  <2>2. \A k \in 1..Len(channel') : channel'[k].event \notin unsent'
    BY <1>1, <1>4, ShrinkKeepsOnce DEF OnceInv
  <2> QED  BY <1>1, <2>1, <2>2 DEF OnceInv, FreshInv
<1>7. EntryInv'
  BY <1>1, <1>4, ShrinkKeepsOnce DEF OnceInv, EntryInv
<1>8. MarkedInv'
  <2> SUFFICES ASSUME ~cold, NEW i \in 1..Len(stream), got'[stream[i]] > 0
               PROVE  i <= lastId' \/ stream[i] \in unsure
    BY <1>1 DEF MarkedInv
  <2>1. stream[i] \in Events \ Raw
    BY <1>1
  <2>2. CASE stream[i] = e /\ id = 0
    BY <2>1, <2>2 DEF Ahead
  <2>3. CASE stream[i] = e /\ id # 0
    <3>1. id \in 1..Len(stream) /\ stream[id] = e
      BY <1>1, <2>3
    <3>2. i = id
      BY <2>3, <3>1 DEF OnceInv, EntryInv
    <3> QED  BY <1>1, <1>3, <2>3, <3>2
  <2>4. CASE stream[i] # e
    <3>1. i <= lastId \/ stream[i] \in unsure
      BY <1>2, <2>1, <2>4 DEF OnceInv, MarkedInv
    <3>2. lastId <= lastId' /\ lastId' \in Nat
      BY <1>1, <1>3 DEF Ahead
    <3> QED  BY <1>1, <3>1, <3>2
  <2> QED  BY <2>2, <2>3, <2>4
<1>9. RawInv'
  <2>1. ASSUME NEW k \in 1..Len(channel'), channel'[k].event \in Raw
        PROVE  got'[channel'[k].event] = 0
    <3>1. channel'[k].event \in Events /\ got[channel'[k].event] = 0
      BY <1>4, <2>1, ShrinkKeepsOnce, EventsAssumption DEF OnceInv
    <3>2. channel'[k].event # e
      <4> SUFFICES ASSUME e \in Raw
                   PROVE  channel'[k].event # e
        BY <2>1
      <4>1. channel # <<>> /\ channel[1].event = e /\ channel' = Tail(channel)
        BY DEF Ahead
      <4>2. /\ Len(channel) \in Nat \ {0} /\ Len(channel') = Len(channel) - 1
            /\ \A l \in 1 .. Len(channel) - 1 : channel'[l] = channel[l + 1]
        BY <4>1, TailFacts DEF EventsInv, TypeOK
      <4>3. k + 1 \in 1..Len(channel) /\ 1 \in 1..Len(channel) /\ k + 1 # 1
            /\ channel'[k] = channel[k + 1]
        BY <4>2
      <4> QED  BY <4>1, <4>3 DEF OnceInv, RawInv
    <3> QED  BY <1>2, <3>1, <3>2
  <2> QED  BY <1>4, <2>1, ShrinkKeepsOnce DEF OnceInv, RawInv
<1>10. ReceivedOnce'
  BY <1>1, <1>2, <1>5 DEF OnceInv, ReceivedOnce
<1> QED  BY <1>6, <1>7, <1>8, <1>9, <1>10 DEF OnceInv

LEMMA OnceInvariant == Spec => []OnceInv
<1>1. Init => OnceInv
  BY DEF Init, OnceInv, FreshInv, EntryInv, MarkedInv, RawInv, ReceivedOnce
<1>2. EventsInv /\ GapInv /\ OnceInv /\ [Next]_vars => OnceInv'
  <2> SUFFICES ASSUME EventsInv, GapInv, OnceInv, [Next]_vars
               PROVE  OnceInv'
    OBVIOUS
  <2>1. ASSUME NEW p \in Publishers, NEW e \in Events, Add(p, e) \/ AddFails(p, e)
        PROVE  OnceInv'
    BY <2>1, Storing, StoreKeepsOnce DEF EventsInv
  <2>2. CASE \/ \E p \in Publishers : Publish(p) \/ PublishFails(p)
             \/ \E e \in Events : PublishRaw(e)
    BY <2>2, Sending, SendKeepsOnce DEF EventsInv
  <2>3. CASE \/ Connect \/ Disconnect \/ SubscriptionLost \/ Subscribe \/ HotCatchup
             \/ ColdCatchup \/ HotAfterCold \/ CatchupFails \/ EndCatchup \/ CheckMissed
             \/ CheckFails
    BY <2>3, Turning, TurnKeepsOnce DEF EventsInv
  <2>4. CASE YieldCaught \/ Forward
    BY <2>4, ReceivesAhead, ReceiveKeepsOnce
  <2>5. CASE UNCHANGED vars
    BY <2>5 DEF OnceInv, FreshInv, EntryInv, MarkedInv, RawInv, ReceivedOnce, vars, publishing,
       serving
  <2> QED  BY <2>1, <2>2, <2>3, <2>4, <2>5, SkipKeepsOnce DEF Next, Serve
<1> QED  BY <1>1, <1>2, TypeCorrect, GapInvariant, PTL DEF Spec

\* The browser receives an event once, unless Redis raised on it or the browser came
\* back after the hot window.
THEOREM EventsAreReceivedOnce == Spec => []ReceivedOnce
<1>1. OnceInv => ReceivedOnce
  BY DEF OnceInv
<1> QED  BY <1>1, OnceInvariant, PTL

-----------------------------------------------------------------------------
(* Recursion                                                               *)

\* A non-empty set of numbers has a least element.
LEMMA LeastOf ==
    ASSUME NEW T \in SUBSET Nat, T # {}
    PROVE  \E x \in T : \A y \in T : x <= y
  <1> DEFINE R == OpToRel(<, Nat)
  <1>1. IsWellFoundedOn(R, Nat)
    BY NatLessThanWellFounded
  <1>2. \A x, y \in Nat : <<y, x>> \in R <=> y < x
    BY DEF OpToRel
  <1> HIDE DEF R
  <1>3. PICK x \in T : \A y \in T : <<y, x>> \notin R
    BY <1>1, WFMin
  <1>4. ASSUME NEW y \in T
        PROVE  x <= y
    <2>1. x \in Nat /\ y \in Nat
      OBVIOUS
    <2>2. ~(y < x)
      BY <1>2, <1>3, <2>1
    <2> QED  BY <2>1, <2>2
  <1> QED  BY <1>4

\* What a step makes of f at x depends on f at smaller arguments only.
Descends(D, F, size, step) ==
    /\ \A x \in D : size[x] \in Nat
    /\ \A f \in F : step[f] \in F
    /\ \A f, g \in F, x \in D :
         (\A y \in D : size[y] < size[x] => f[y] = g[y]) => step[f][x] = step[g][x]

\* A recursion whose calls are all of smaller arguments has a solution.
LEMMA RecursionSolved ==
    ASSUME NEW D, NEW R, R # {},
           NEW size, NEW step,
           Descends(D, [D -> R], size, step)
    PROVE  \E f \in [D -> R] : f = step[f]
  <1> USE DEF Descends
  <1> DEFINE Solves(n) == {f \in [D -> R] : \A x \in D : size[x] < n => f[x] = step[f][x]}
  <1>1. ASSUME NEW n \in Nat, NEW f \in Solves(n), NEW g \in Solves(n), NEW x \in D, size[x] < n
        PROVE  f[x] = g[x]
    <2> SUFFICES ASSUME f[x] # g[x]
                 PROVE  FALSE
      OBVIOUS
    <2> DEFINE T == {k \in Nat : \E y \in D : size[y] = k /\ k < n /\ f[y] # g[y]}
    <2>1. T \in SUBSET Nat /\ T # {}
      <3>1. size[x] \in T
        BY <1>1
      <3> QED  BY <3>1
    <2>2. PICK k \in T : \A l \in T : k <= l
      BY <2>1, LeastOf
    <2>3. PICK y \in D : size[y] < n /\ f[y] # g[y] /\ k = size[y]
      BY <2>2
    <2>4. ASSUME NEW z \in D, size[z] < size[y]
          PROVE  f[z] = g[z]
      <3>1. size[z] \in Nat /\ size[y] \in Nat
        OBVIOUS
      <3>2. size[z] \notin T
        BY <2>2, <2>3, <2>4, <3>1
      <3>3. size[z] < n
        BY <2>3, <2>4, <3>1
      <3> QED  BY <3>2, <3>3
    <2>5. f \in [D -> R] /\ g \in [D -> R] /\ f[y] = step[f][y] /\ g[y] = step[g][y]
      BY <2>3
    <2>6. step[f][y] = step[g][y]
      BY <2>4, <2>5
    <2> QED  BY <2>3, <2>5, <2>6
  <1>2. \A n \in Nat : Solves(n) # {}
    <2> SUFFICES ASSUME NEW m \in Nat, Solves(m) = {}
                 PROVE  FALSE
      OBVIOUS
    <2> DEFINE T == {n \in Nat : Solves(n) = {}}
    <2>1. PICK n \in T : \A l \in T : n <= l
      <3>1. T \in SUBSET Nat /\ m \in T
        OBVIOUS
      <3> HIDE DEF T
      <3> QED  BY <3>1, LeastOf
    <2>2. CASE n = 0
      <3>1. PICK r \in R : TRUE
        OBVIOUS
      <3>2. [x \in D |-> r] \in Solves(0)
        OBVIOUS
      <3> QED  BY <2>2, <3>2
    <2>3. CASE n # 0
      <3>1. n - 1 \in Nat /\ n \in Nat /\ ~(n <= n - 1)
        BY <2>3
      <3>2. PICK f \in [D -> R] : \A x \in D : size[x] < n - 1 => f[x] = step[f][x]
        BY <2>1, <3>1
      <3> DEFINE g == step[f]
      <3>3. g \in [D -> R]
        OBVIOUS
      <3>4. ASSUME NEW x \in D, size[x] < n
            PROVE  g[x] = step[g][x]
        <4>1. \A y \in D : size[y] < size[x] => f[y] = g[y]
          <5>1. \A y \in D : size[y] < size[x] => size[y] < n - 1
            BY <3>1, <3>4
          <5> QED  BY <3>2, <5>1
        <4>2. step[f][x] = step[g][x]
          BY <3>3, <4>1
        <4> QED  BY <4>2
      <3> HIDE DEF g
      <3>5. g \in Solves(n)
        BY <3>3, <3>4
      <3> QED  BY <3>5, <2>1
    <2> QED  BY <2>2, <2>3
  <1> DEFINE pick == [n \in Nat |-> CHOOSE f \in [D -> R] : f \in Solves(n)]
             F == [x \in D |-> pick[size[x] + 1][x]]
  <1>3. \A n \in Nat : pick[n] \in Solves(n)
    <2> SUFFICES ASSUME NEW n \in Nat
                 PROVE  pick[n] \in Solves(n)
      OBVIOUS
    <2>1. \E f \in [D -> R] : f \in Solves(n)
      BY <1>2
    <2> HIDE DEF Solves
    <2> QED  BY <2>1
  <1> HIDE DEF pick
  <1>4. F \in [D -> R]
    BY <1>3
  <1>5. ASSUME NEW x \in D
        PROVE  F[x] = step[F][x]
    <2> DEFINE n == size[x] + 1
               f == pick[n]
    <2>1. n \in Nat /\ size[x] < n /\ f \in Solves(n) /\ F[x] = f[x]
      BY <1>3
    <2>2. ASSUME NEW y \in D, size[y] < size[x]
          PROVE  F[y] = f[y]
      <3> DEFINE k == size[y] + 1
      <3>1. k \in Nat /\ size[y] < k /\ pick[k] \in Solves(k) /\ F[y] = pick[k][y]
        BY <1>3
      <3>2. f \in Solves(k)
        <4>1. \A z \in D : size[z] < k => size[z] < n
          BY <2>2
        <4> HIDE DEF k, n, f
        <4> QED  BY <2>1, <4>1
      <3> HIDE DEF k, n, f, F, Solves
      <3> QED  BY <1>1, <3>1, <3>2
    <2> HIDE DEF n, f, F
    <2>3. f \in [D -> R] /\ f[x] = step[f][x]
      BY <2>1
    <2>4. step[F][x] = step[f][x]
      BY <1>4, <2>2, <2>3
    <2> QED  BY <2>1, <2>3, <2>4
  <1> HIDE DEF F
  <1>6. F = step[F]
    BY <1>4, <1>5
  <1> QED  BY <1>4, <1>6

-----------------------------------------------------------------------------
(* Tags in a text                                                          *)

\* The least and the greatest element of a set of numbers.
LEMMA MinOf ==
    ASSUME NEW T \in SUBSET Nat, T # {}
    PROVE  Min(T) \in T /\ \A y \in T : Min(T) <= y
  <1>1. \E x \in T : \A y \in T : x <= y
    BY LeastOf
  <1> QED  BY <1>1 DEF Min

LEMMA MaxOf ==
    ASSUME NEW n \in Nat, NEW T \in SUBSET (0..n), T # {}
    PROVE  Max(T) \in T /\ \A y \in T : Max(T) >= y
  <1> DEFINE U == {k \in 0..n : n - k \in T}
  <1>1. U \in SUBSET Nat /\ U # {}
    <2>1. PICK x \in T : TRUE
      OBVIOUS
    <2>2. x \in 0..n
      OBVIOUS
    <2>3. n - x \in U
      BY <2>2
    <2>4. U \in SUBSET Nat
      OBVIOUS
    <2> HIDE DEF U
    <2> QED  BY <2>3, <2>4
  <1>2. PICK k \in U : \A l \in U : k <= l
    BY <1>1, LeastOf
  <1>3. ASSUME NEW y \in T
        PROVE  n - k >= y
    <2>1. y \in 0..n /\ n - y \in U
      OBVIOUS
    <2>2. k <= n - y /\ k \in 0..n
      BY <1>2, <2>1
    <2> QED  BY <2>1, <2>2
  <1>4. \E x \in T : \A y \in T : x >= y
    BY <1>2, <1>3
  <1> QED  BY <1>4 DEF Max

\* The tags are texts of two and of three letters.
LEMMA TagFacts ==
    ASSUME NEW inside \in BOOLEAN
    PROVE  /\ Tag(inside) \in Seq(Letters)
           /\ Len(Tag(inside)) \in {2, 3}
           /\ Len(Tag(inside)) \in Nat /\ Len(Tag(inside)) > 0
  <1>1. Open \in Seq(Letters) /\ Len(Open) = 2
    <2>1. "<" \in Letters /\ ">" \in Letters
      BY DEF Letters
    <2> HIDE DEF Letters
    <2> QED  BY <2>1 DEF Open
  <1>2. Close \in Seq(Letters) /\ Len(Close) = 3
    <2>1. "<" \in Letters /\ "/" \in Letters /\ ">" \in Letters
      BY DEF Letters
    <2> HIDE DEF Letters
    <2> QED  BY <2>1 DEF Close
  <1>3. CASE inside
    <2>1. Tag(inside) = Close
      BY <1>3 DEF Tag
    <2> QED  BY <1>2, <2>1
  <1>4. CASE ~inside
    <2>1. Tag(inside) = Open
      BY <1>4 DEF Tag
    <2> QED  BY <1>1, <2>1
  <1> QED  BY <1>3, <1>4

\* A part of a text, letter by letter.
LEMMA PartOf ==
    ASSUME NEW text \in Seq(Letters), NEW i \in 1..(Len(text) + 1), NEW j \in (i - 1)..Len(text)
    PROVE  /\ SubSeq(text, i, j) \in Seq(Letters)
           /\ Len(SubSeq(text, i, j)) = j - i + 1
           /\ \A k \in 1..(j - i + 1) : SubSeq(text, i, j)[k] = text[i + k - 1]
  <1>1. Len(text) \in Nat /\ i \in Int /\ j \in Int
    OBVIOUS
  <1>2. \A k \in i..j : text[k] \in Letters
    <2> SUFFICES ASSUME NEW k \in i..j
                 PROVE  text[k] \in Letters
      OBVIOUS
    <2>1. k \in 1..Len(text)
      BY <1>1
    <2> QED  BY <2>1, ElementOfSeq
  <1>3. /\ SubSeq(text, i, j) \in Seq(Letters)
        /\ Len(SubSeq(text, i, j)) = IF i <= j THEN j - i + 1 ELSE 0
        /\ \A k \in 1..(j - i + 1) : SubSeq(text, i, j)[k] = text[i + k - 1]
    BY <1>1, <1>2, SubSeqProperties
  <1>4. (IF i <= j THEN j - i + 1 ELSE 0) = j - i + 1
    BY <1>1
  <1> QED  BY <1>3, <1>4

\* Two parts of texts are equal when their letters are.
LEMMA SameText ==
    ASSUME NEW s \in Seq(Letters), NEW t \in Seq(Letters), Len(s) = Len(t),
           \A k \in 1..Len(s) : s[k] = t[k]
    PROVE  s = t
  BY SeqEqual

\* The tag stands at the i-th letter.
TagAt(text, tag, i) ==
    /\ i >= 1 /\ i + Len(tag) <= Len(text) + 1
    /\ \A k \in 1..Len(tag) : text[i + k - 1] = tag[k]

\* Where a tag is found in a text.
LEMMA FoundAt ==
    ASSUME NEW text \in Seq(Letters), NEW tag \in Seq(Letters), Len(tag) > 0,
           NEW i \in Nat
    PROVE  i \in Found(text, tag) <=> TagAt(text, tag, i)
  <1>1. Len(text) \in Nat /\ Len(tag) \in Nat
    OBVIOUS
  <1>2. CASE i >= 1 /\ i + Len(tag) <= Len(text) + 1
    <2> DEFINE part == SubSeq(text, i, i + Len(tag) - 1)
    <2>1. i \in 1..(Len(text) + 1) /\ i + Len(tag) - 1 \in (i - 1)..Len(text)
          /\ i \in 1..(Len(text) - Len(tag) + 1)
      BY <1>1, <1>2
    <2>2. /\ part \in Seq(Letters) /\ Len(part) = Len(tag)
          /\ \A k \in 1..Len(tag) : part[k] = text[i + k - 1]
      <3>1. (i + Len(tag) - 1) - i + 1 = Len(tag)
        BY <1>1
      <3> QED  BY <2>1, <3>1, PartOf
    <2>3. i \in Found(text, tag) <=> part = tag
      BY <2>1 DEF Found
    <2> HIDE DEF part
    <2>4. part = tag <=> \A k \in 1..Len(tag) : part[k] = tag[k]
      BY <2>2, SameText
    <2> QED  BY <1>2, <2>2, <2>3, <2>4 DEF TagAt
  <1>3. CASE ~(i >= 1 /\ i + Len(tag) <= Len(text) + 1)
    <2>1. i \notin 1..(Len(text) - Len(tag) + 1)
      BY <1>1, <1>3
    <2> QED  BY <1>3, <2>1 DEF Found, TagAt
  <1> QED  BY <1>2, <1>3

\* When a text begins with another.
LEMMA PrefixAt ==
    ASSUME NEW tag \in Seq(Letters), NEW text \in Seq(Letters)
    PROVE  IsPrefix(tag, text) <=>
             /\ Len(tag) <= Len(text)
             /\ \A k \in 1..Len(tag) : text[k] = tag[k]
  <1>1. Len(text) \in Nat /\ Len(tag) \in Nat /\ SubSeq(tag, 1, Len(tag)) = tag
    BY SubSeqFull
  <1>2. CASE Len(tag) <= Len(text)
    <2> DEFINE part == SubSeq(text, 1, Len(tag))
    <2>1. /\ part \in Seq(Letters) /\ Len(part) = Len(tag)
          /\ \A k \in 1..Len(tag) : part[k] = text[k]
      <3>1. /\ 1 \in 1..(Len(text) + 1) /\ Len(tag) \in (1 - 1)..Len(text)
            /\ Len(tag) - 1 + 1 = Len(tag)
            /\ \A k \in 1..Len(tag) : 1 + k - 1 = k
        BY <1>1, <1>2
      <3> QED  BY <3>1, PartOf
    <2>2. IsPrefix(tag, text) <=> tag = part
      BY <1>1, <1>2 DEF IsPrefix
    <2> HIDE DEF part
    <2>3. part = tag <=> \A k \in 1..Len(tag) : part[k] = tag[k]
      BY <2>1, SameText
    <2> QED  BY <1>2, <2>1, <2>2, <2>3
  <1>3. CASE ~(Len(tag) <= Len(text))
    BY <1>3 DEF IsPrefix
  <1> QED  BY <1>2, <1>3

\* When a text ends with another.
LEMMA SuffixAt ==
    ASSUME NEW end \in Seq(Letters), NEW text \in Seq(Letters)
    PROVE  IsSuffix(end, text) <=>
             /\ Len(end) <= Len(text)
             /\ \A k \in 1..Len(end) : text[Len(text) - Len(end) + k] = end[k]
  <1>1. \A s \in Seq(Letters) :
          /\ Reverse(s) \in Seq(Letters) /\ Len(Reverse(s)) = Len(s)
          /\ \A k \in 1..Len(s) : Reverse(s)[k] = s[(Len(s) - k) + 1]
    <2> SUFFICES ASSUME NEW s \in Seq(Letters)
                 PROVE  /\ Reverse(s) \in Seq(Letters) /\ Len(Reverse(s)) = Len(s)
                        /\ \A k \in 1..Len(s) : Reverse(s)[k] = s[(Len(s) - k) + 1]
      OBVIOUS
    <2>1. Len(s) \in Nat
      OBVIOUS
    <2>2. \A k \in 1..Len(s) : (Len(s) - k) + 1 \in 1..Len(s)
      BY <2>1
    <2>3. \A k \in 1..Len(s) : s[(Len(s) - k) + 1] \in Letters
      BY <2>2, ElementOfSeq
    <2> DEFINE r == Reverse(s)
               n == Len(s)
    <2>4. r \in [1..n -> Letters] /\ n \in Nat
      BY <2>1, <2>3 DEF Reverse
    <2> HIDE DEF r, n
    <2>5. r \in Seq(Letters) /\ Len(r) = n
      BY <2>4
    <2> QED  BY <2>5 DEF Reverse, r, n
  <1>2. Len(text) \in Nat /\ Len(end) \in Nat
    OBVIOUS
  <1>3. IsSuffix(end, text) <=>
          /\ Len(end) <= Len(text)
          /\ \A k \in 1..Len(end) : Reverse(text)[k] = Reverse(end)[k]
    BY <1>1, PrefixAt DEF IsSuffix
  <1>4. ASSUME Len(end) <= Len(text),
               \A k \in 1..Len(end) : Reverse(text)[k] = Reverse(end)[k],
               NEW k \in 1..Len(end)
        PROVE  text[Len(text) - Len(end) + k] = end[k]
    <2> DEFINE j == (Len(end) - k) + 1
    <2>1. /\ j \in 1..Len(end) /\ j \in 1..Len(text)
          /\ (Len(end) - j) + 1 = k /\ (Len(text) - j) + 1 = Len(text) - Len(end) + k
      BY <1>2, <1>4
    <2> HIDE DEF j
    <2> QED  BY <1>1, <1>4, <2>1
  <1>5. ASSUME Len(end) <= Len(text),
               \A k \in 1..Len(end) : text[Len(text) - Len(end) + k] = end[k],
               NEW k \in 1..Len(end)
        PROVE  Reverse(text)[k] = Reverse(end)[k]
    <2> DEFINE j == (Len(end) - k) + 1
    <2>1. /\ j \in 1..Len(end) /\ k \in 1..Len(text)
          /\ (Len(text) - k) + 1 = Len(text) - Len(end) + j
      BY <1>2, <1>5
    <2>2. Reverse(end)[k] = end[j] /\ Reverse(text)[k] = text[(Len(text) - k) + 1]
      BY <1>1, <2>1
    <2> HIDE DEF j
    <2> QED  BY <1>5, <2>1, <2>2
  <1> QED  BY <1>3, <1>4, <1>5

\* The beginning of the tag a text ends with is the longest one.
LEMMA PartialFacts ==
    ASSUME NEW text \in Seq(Letters), NEW tag \in Seq(Letters)
    PROVE  /\ Partial(text, tag) \in Nat
           /\ Partial(text, tag) <= Len(text) /\ Partial(text, tag) <= Len(tag)
           /\ \A k \in 1..Partial(text, tag) :
                text[Len(text) - Partial(text, tag) + k] = tag[k]
           /\ \A i \in Nat :
                i <= Len(text) /\ i <= Len(tag)
                  /\ (\A k \in 1..i : text[Len(text) - i + k] = tag[k])
                => i <= Partial(text, tag)
  <1>1. Len(text) \in Nat /\ Len(tag) \in Nat
    OBVIOUS
  <1> DEFINE m == Min({Len(text), Len(tag)})
             T == {0} \cup {i \in 1..m : IsSuffix(SubSeq(tag, 1, i), text)}
  <1>2. m \in Nat /\ m <= Len(text) /\ m <= Len(tag) /\ (m = Len(text) \/ m = Len(tag))
    <2> DEFINE S == {Len(text), Len(tag)}
    <2>1. S \in SUBSET Nat /\ S # {}
      BY <1>1
    <2> HIDE DEF S
    <2>2. Min(S) \in S /\ \A y \in S : Min(S) <= y
      BY <2>1, MinOf
    <2> QED  BY <1>1, <2>2 DEF S
  <1>3. Partial(text, tag) = Max(T)
    BY DEF Partial
  <1>4. ASSUME NEW i \in 1..m
        PROVE  IsSuffix(SubSeq(tag, 1, i), text) <=>
                 \A k \in 1..i : text[Len(text) - i + k] = tag[k]
    <2>1. 1 \in 1..(Len(tag) + 1) /\ i \in (1 - 1)..Len(tag) /\ i - 1 + 1 = i
          /\ i <= Len(text) /\ \A k \in 1..i : 1 + k - 1 = k
      BY <1>1, <1>2
    <2>2. /\ SubSeq(tag, 1, i) \in Seq(Letters) /\ Len(SubSeq(tag, 1, i)) = i
          /\ \A k \in 1..i : SubSeq(tag, 1, i)[k] = tag[k]
      BY <2>1, PartOf
    <2> DEFINE part == SubSeq(tag, 1, i)
    <2> HIDE DEF part, m, T
    <2>3. IsSuffix(part, text) <=>
             /\ Len(part) <= Len(text)
             /\ \A k \in 1..Len(part) : text[Len(text) - Len(part) + k] = part[k]
      BY <2>2, SuffixAt DEF part
    <2>4. part \in Seq(Letters) /\ Len(part) = i /\ \A k \in 1..i : part[k] = tag[k]
      BY <2>2 DEF part
    <2>5. IsSuffix(part, text) <=> \A k \in 1..i : text[Len(text) - i + k] = tag[k]
      BY <2>1, <2>3, <2>4
    <2> QED  BY <2>5 DEF part
  <1> HIDE DEF m
  <1>5. T \in SUBSET (0..m) /\ T # {}
    BY <1>2
  <1>6. Max(T) \in T /\ \A y \in T : Max(T) >= y
    BY <1>2, <1>5, MaxOf
  <1>7. \A i \in 1..m : i \in T <=> \A k \in 1..i : text[Len(text) - i + k] = tag[k]
    BY <1>2, <1>4
  <1> DEFINE n == Partial(text, tag)
  <1>8. n \in T /\ (\A y \in T : n >= y) /\ n \in 0..m
    BY <1>3, <1>5, <1>6
  <1> HIDE DEF n, T
  <1>9. n \in Nat /\ n <= Len(text) /\ n <= Len(tag)
    BY <1>1, <1>2, <1>8
  <1>10. \A k \in 1..n : text[Len(text) - n + k] = tag[k]
    <2>1. CASE n = 0
      BY <2>1
    <2>2. CASE n # 0
      BY <1>7, <1>8, <1>2, <2>2
    <2> QED  BY <2>1, <2>2
  <1>11. ASSUME NEW i \in Nat, i <= Len(text), i <= Len(tag),
                \A k \in 1..i : text[Len(text) - i + k] = tag[k]
         PROVE  i <= n
    <2>1. CASE i = 0
      BY <1>9, <2>1
    <2>2. CASE i # 0
      <3>1. i \in 1..m
        BY <1>1, <1>2, <1>11, <2>2
      <3>2. i \in T
        BY <1>7, <1>11, <3>1
      <3> QED  BY <1>8, <1>9, <3>2
    <2> QED  BY <2>1, <2>2
  <1> QED  BY <1>9, <1>10, <1>11 DEF n

-----------------------------------------------------------------------------
(* The reference                                                           *)

Reading == [text : Seq(Letters), inside : BOOLEAN]
Sides == [content : Seq(Letters), thoughts : Seq(Letters)]

\* One step of the reference.
SplitOnce(split, from) ==
    IF from.text = <<>> THEN [content |-> <<>>, thoughts |-> <<>>]
    ELSE IF IsPrefix(Tag(from.inside), from.text)
    THEN split[[text |-> SubSeq(from.text, Len(Tag(from.inside)) + 1, Len(from.text)),
                inside |-> ~from.inside]]
    ELSE LET more == split[[from EXCEPT !.text = Tail(@)]]
         IN IF from.inside
            THEN [more EXCEPT !.thoughts = <<Head(from.text)>> \o @]
            ELSE [more EXCEPT !.content = <<Head(from.text)>> \o @]

\* What is read after a tag or after a letter is shorter.
LEMMA ShorterReading ==
    ASSUME NEW from \in Reading, from.text # <<>>
    PROVE  /\ IsPrefix(Tag(from.inside), from.text) =>
                /\ [text |-> SubSeq(from.text, Len(Tag(from.inside)) + 1, Len(from.text)),
                    inside |-> ~from.inside] \in Reading
                /\ Len(SubSeq(from.text, Len(Tag(from.inside)) + 1, Len(from.text)))
                     < Len(from.text)
           /\ [from EXCEPT !.text = Tail(@)] \in Reading
           /\ Len([from EXCEPT !.text = Tail(@)].text) < Len(from.text)
           /\ Head(from.text) \in Letters
  <1> DEFINE text == from.text
             tag == Tag(from.inside)
  <1>1. text \in Seq(Letters) /\ from.inside \in BOOLEAN /\ Len(text) \in Nat
    BY DEF Reading
  <1>2. tag \in Seq(Letters) /\ Len(tag) \in {2, 3}
    BY <1>1, TagFacts
  <1> HIDE DEF tag
  <1>3. ASSUME IsPrefix(tag, text)
        PROVE  /\ SubSeq(text, Len(tag) + 1, Len(text)) \in Seq(Letters)
               /\ Len(SubSeq(text, Len(tag) + 1, Len(text))) < Len(text)
    <2> HIDE DEF text
    <2>1. Len(tag) <= Len(text)
      BY <1>1, <1>2, <1>3, PrefixAt
    <2> DEFINE n == Len(text)
               d == Len(tag)
    <2>2. d + 1 \in 1..(n + 1) /\ n \in ((d + 1) - 1)..n /\ n - (d + 1) + 1 < n
      <3>1. n \in Nat
        BY <1>1
      <3>2. d \in Nat /\ 0 < d
        BY <1>2
      <3>3. d <= n
        BY <2>1
      <3> HIDE DEF n, d
      <3> QED  BY <3>1, <3>2, <3>3
    <2> QED  BY <1>1, <2>2, PartOf
  <1>4. Tail(text) \in Seq(Letters) /\ Len(Tail(text)) < Len(text) /\ Head(text) \in Letters
    BY <1>1, HeadTailProperties
  <1>5. [from EXCEPT !.text = Tail(@)] \in Reading
        /\ [from EXCEPT !.text = Tail(@)].text = Tail(text)
    BY <1>1, <1>4 DEF Reading
  <1>6. IsPrefix(tag, text) =>
          [text |-> SubSeq(text, Len(tag) + 1, Len(text)), inside |-> ~from.inside] \in Reading
    BY <1>1, <1>3 DEF Reading
  <1> QED  BY <1>3, <1>4, <1>5, <1>6 DEF tag

\* A step of the reference gives both sides of a text.
LEMMA SplitOnceSides ==
    ASSUME NEW split, NEW from \in Reading,
           \A y \in Reading : Len(y.text) < Len(from.text) => split[y] \in Sides
    PROVE  SplitOnce(split, from) \in Sides
  <1>1. CASE from.text = <<>>
    BY <1>1, EmptySeq DEF SplitOnce, Sides
  <1>2. CASE from.text # <<>> /\ IsPrefix(Tag(from.inside), from.text)
    BY <1>2, ShorterReading DEF SplitOnce
  <1>3. CASE from.text # <<>> /\ ~IsPrefix(Tag(from.inside), from.text)
    <2> DEFINE more == split[[from EXCEPT !.text = Tail(@)]]
               letter == <<Head(from.text)>>
    <2>1. more \in Sides
      BY <1>3, ShorterReading
    <2>2. letter \in Seq(Letters)
      <3>1. Head(from.text) \in Letters
        BY <1>3, ShorterReading
      <3> QED  BY <3>1
    <2>3. SplitOnce(split, from) =
            IF from.inside THEN [more EXCEPT !.thoughts = letter \o @]
                           ELSE [more EXCEPT !.content = letter \o @]
      BY <1>3 DEF SplitOnce
    <2> HIDE DEF more, letter
    <2>4. letter \o more.thoughts \in Seq(Letters) /\ letter \o more.content \in Seq(Letters)
      BY <2>1, <2>2, ConcatProperties DEF Sides
    <2> QED  BY <2>1, <2>3, <2>4 DEF Sides
  <1> QED  BY <1>1, <1>2, <1>3

\* The reference is what its definition says, for every text.
LEMMA SplitUnfolds ==
    /\ Split \in [Reading -> Sides]
    /\ \A from \in Reading : Split[from] = SplitOnce(Split, from)
  <1> DEFINE size == [from \in Reading |-> Len(from.text)]
             step == [f \in [Reading -> Sides] |-> [from \in Reading |-> SplitOnce(f, from)]]
  <1>1. size \in [Reading -> Nat]
    BY DEF Reading
  <1>2. step \in [[Reading -> Sides] -> [Reading -> Sides]]
    BY SplitOnceSides
  <1>3. ASSUME NEW f \in [Reading -> Sides], NEW g \in [Reading -> Sides], NEW x \in Reading,
               \A y \in Reading : size[y] < size[x] => f[y] = g[y]
        PROVE  step[f][x] = step[g][x]
    <2>1. \A y \in Reading : Len(y.text) < Len(x.text) => f[y] = g[y]
      BY <1>3
    <2>2. CASE x.text = <<>>
      BY <2>2 DEF SplitOnce
    <2>3. CASE x.text # <<>>
      BY <2>1, <2>3, ShorterReading DEF SplitOnce
    <2> QED  BY <2>2, <2>3
  <1>4. Sides # {}
    <2>1. [content |-> <<>>, thoughts |-> <<>>] \in Sides
      BY EmptySeq DEF Sides
    <2> QED  BY <2>1
  <1>5. \E f \in [Reading -> Sides] : f = step[f]
    <2> HIDE DEF size, step
    <2>1. Descends(Reading, [Reading -> Sides], size, step)
      BY <1>1, <1>2, <1>3 DEF Descends
    <2> QED  BY ONLY <1>4, <2>1, RecursionSolved
  <1>6. PICK f \in [Reading -> Sides] : f = [from \in Reading |-> SplitOnce(f, from)]
    BY <1>5
  <1>7. Split = [from \in Reading |-> SplitOnce(Split, from)]
    BY <1>6 DEF Split, SplitOnce, Reading
  <1> DEFINE s == Split
  <1> HIDE DEF s
  <1>8. s = [from \in Reading |-> SplitOnce(s, from)]
    BY <1>7 DEF s
  <1>9. \A from \in Reading : s[from] = SplitOnce(s, from)
    BY <1>8
  <1>10. \A from \in Reading : s[from] \in Sides
    <2> SUFFICES ASSUME NEW from \in Reading, s[from] \notin Sides
                 PROVE  FALSE
      OBVIOUS
    <2> DEFINE T == {n \in Nat : \E y \in Reading : Len(y.text) = n /\ s[y] \notin Sides}
    <2>1. T \in SUBSET Nat /\ T # {}
      <3>1. Len(from.text) \in T
        BY DEF Reading
      <3> QED  BY <3>1
    <2>2. PICK n \in T : \A k \in T : n <= k
      <3> HIDE DEF T
      <3> QED  BY <2>1, LeastOf
    <2>3. PICK y \in Reading : Len(y.text) = n /\ s[y] \notin Sides
      OBVIOUS
    <2>4. ASSUME NEW z \in Reading, Len(z.text) < Len(y.text)
          PROVE  s[z] \in Sides
      <3>1. Len(z.text) \in Nat /\ n \in Nat
        BY DEF Reading
      <3>2. Len(z.text) \notin T
        <4> HIDE DEF T
        <4> QED  BY <2>2, <2>3, <2>4, <3>1
      <3> QED  BY <3>1, <3>2
    <2> QED  BY <1>9, <2>3, <2>4, SplitOnceSides
  <1> QED  BY <1>8, <1>9, <1>10 DEF s

\* A text, read from one side of the tags.
From(text, inside) == [text |-> text, inside |-> inside]

\* What is read first and what is read then.
Plus(a, b) == [content |-> a.content \o b.content, thoughts |-> a.thoughts \o b.thoughts]

\* A text without a tag, on its side.
Side(text, inside) ==
    [content |-> IF inside THEN <<>> ELSE text, thoughts |-> IF inside THEN text ELSE <<>>]

Past(text, n) == SubSeq(text, n + 1, Len(text))

\* Texts are put together in any order.
LEMMA TextsAssociate ==
    ASSUME NEW r \in Seq(Letters), NEW s \in Seq(Letters), NEW t \in Seq(Letters)
    PROVE  (r \o s) \o t = r \o (s \o t)
  BY ConcatAssociative

\* Sides are put together like texts.
LEMMA PlusFacts ==
    ASSUME NEW a \in Sides, NEW b \in Sides, NEW c \in Sides
    PROVE  /\ Plus(a, b) \in Sides
           /\ Plus(Plus(a, b), c) = Plus(a, Plus(b, c))
  <1>1. /\ a.content \in Seq(Letters) /\ a.thoughts \in Seq(Letters)
        /\ b.content \in Seq(Letters) /\ b.thoughts \in Seq(Letters)
        /\ c.content \in Seq(Letters) /\ c.thoughts \in Seq(Letters)
    BY DEF Sides
  <1>2. Plus(a, b) \in Sides
    BY <1>1, ConcatProperties DEF Plus, Sides
  <1>3. Plus(Plus(a, b), c) = Plus(a, Plus(b, c))
    <2> DEFINE a1 == a.content
               b1 == b.content
               c1 == c.content
               a2 == a.thoughts
               b2 == b.thoughts
               c2 == c.thoughts
    <2>1. /\ a1 \in Seq(Letters) /\ b1 \in Seq(Letters) /\ c1 \in Seq(Letters)
          /\ a2 \in Seq(Letters) /\ b2 \in Seq(Letters) /\ c2 \in Seq(Letters)
      BY <1>1
    <2> HIDE DEF a1, b1, c1, a2, b2, c2
    <2>2. (a1 \o b1) \o c1 = a1 \o (b1 \o c1)
      BY <2>1, TextsAssociate, SMTT(30)
    <2>3. (a2 \o b2) \o c2 = a2 \o (b2 \o c2)
      BY <2>1, TextsAssociate, SMTT(30)
    <2> QED  BY <2>2, <2>3 DEF Plus, a1, b1, c1, a2, b2, c2
  <1> QED  BY <1>2, <1>3

\* No text changes nothing.
LEMMA PlusNothing ==
    ASSUME NEW a \in Sides, NEW inside \in BOOLEAN
    PROVE  Plus(Side(<<>>, inside), a) = a
  <1>1. a.content \in Seq(Letters) /\ a.thoughts \in Seq(Letters)
    BY DEF Sides
  <1>2. <<>> \o a.content = a.content /\ <<>> \o a.thoughts = a.thoughts
    BY <1>1, ConcatEmptySeq
  <1> QED  BY <1>2 DEF Plus, Side, Sides

\* One side of a text, and two texts on the same side.
LEMMA SideFacts ==
    ASSUME NEW s \in Seq(Letters), NEW t \in Seq(Letters), NEW inside \in BOOLEAN
    PROVE  /\ Side(s, inside) \in Sides
           /\ Plus(Side(s, inside), Side(t, inside)) = Side(s \o t, inside)
  <1>1. <<>> \in Seq(Letters) /\ <<>> \o <<>> = <<>>
    BY EmptySeq, ConcatEmptySeq
  <1> QED  BY <1>1 DEF Side, Plus, Sides

\* The rest of a text.
LEMMA PastFacts ==
    ASSUME NEW t \in Seq(Letters), NEW n \in 0..Len(t)
    PROVE  /\ Past(t, n) \in Seq(Letters) /\ Len(Past(t, n)) = Len(t) - n
           /\ \A k \in 1..(Len(t) - n) : Past(t, n)[k] = t[n + k]
           /\ SubSeq(t, 1, n) \in Seq(Letters) /\ Len(SubSeq(t, 1, n)) = n
           /\ \A k \in 1..n : SubSeq(t, 1, n)[k] = t[k]
  <1> DEFINE l == Len(t)
  <1>1. l \in Nat /\ n \in 0..l
    OBVIOUS
  <1>2. /\ n + 1 \in 1..(l + 1) /\ l \in ((n + 1) - 1)..l /\ l - (n + 1) + 1 = l - n
        /\ 1 \in 1..(l + 1) /\ n \in (1 - 1)..l /\ n - 1 + 1 = n
        /\ \A k \in 1..(l - n) : (n + 1) + k - 1 = n + k
        /\ \A k \in 1..n : 1 + k - 1 = k
    <2> HIDE DEF l
    <2> QED  BY <1>1
  <1>3. /\ Past(t, n) \in Seq(Letters) /\ Len(Past(t, n)) = Len(t) - n
        /\ \A k \in 1..(Len(t) - n) : Past(t, n)[k] = t[n + k]
    <2>1. /\ Past(t, n) \in Seq(Letters) /\ Len(Past(t, n)) = l - (n + 1) + 1
          /\ \A k \in 1..(l - (n + 1) + 1) : Past(t, n)[k] = t[(n + 1) + k - 1]
      BY <1>2, PartOf DEF Past
    <2> QED  BY <1>2, <2>1
  <1>4. /\ SubSeq(t, 1, n) \in Seq(Letters) /\ Len(SubSeq(t, 1, n)) = n
        /\ \A k \in 1..n : SubSeq(t, 1, n)[k] = t[k]
    BY <1>2, PartOf
  <1> QED  BY <1>3, <1>4

\* A text and what follows it.
LEMMA ConcatFacts ==
    ASSUME NEW t \in Seq(Letters), NEW w \in Seq(Letters), NEW n \in 0..Len(t)
    PROVE  /\ t \o w \in Seq(Letters) /\ Len(t \o w) = Len(t) + Len(w)
           /\ n \in 0..Len(t \o w)
           /\ \A k \in 1..Len(t) : (t \o w)[k] = t[k]
           /\ Past(t \o w, n) = Past(t, n) \o w
           /\ SubSeq(t \o w, 1, n) = SubSeq(t, 1, n)
  <1>1. /\ Len(t) \in Nat /\ Len(w) \in Nat
        /\ t \o w \in Seq(Letters) /\ Len(t \o w) = Len(t) + Len(w)
        /\ \A k \in 1..(Len(t) + Len(w)) :
             (t \o w)[k] = IF k <= Len(t) THEN t[k] ELSE w[k - Len(t)]
    BY ConcatProperties
  <1> DEFINE tw == t \o w
  <1>2. n \in 0..Len(tw) /\ n \in Nat /\ n <= Len(t)
    BY <1>1
  <1> HIDE DEF tw
  <1>3. /\ Past(tw, n) \in Seq(Letters) /\ Len(Past(tw, n)) = Len(tw) - n
        /\ \A k \in 1..(Len(tw) - n) : Past(tw, n)[k] = tw[n + k]
        /\ SubSeq(tw, 1, n) \in Seq(Letters) /\ Len(SubSeq(tw, 1, n)) = n
        /\ \A k \in 1..n : SubSeq(tw, 1, n)[k] = tw[k]
    BY <1>1, <1>2, PastFacts DEF tw
  <1>4. /\ Past(t, n) \in Seq(Letters) /\ Len(Past(t, n)) = Len(t) - n
        /\ \A k \in 1..(Len(t) - n) : Past(t, n)[k] = t[n + k]
        /\ SubSeq(t, 1, n) \in Seq(Letters) /\ Len(SubSeq(t, 1, n)) = n
        /\ \A k \in 1..n : SubSeq(t, 1, n)[k] = t[k]
    BY PastFacts
  <1>5. SubSeq(tw, 1, n) = SubSeq(t, 1, n)
    <2>1. \A k \in 1..n : SubSeq(tw, 1, n)[k] = SubSeq(t, 1, n)[k]
      BY <1>1, <1>2, <1>3, <1>4 DEF tw
    <2> QED  BY <1>3, <1>4, <2>1, SameText
  <1> DEFINE r == Past(t, n)
  <1> HIDE DEF r
  <1>6. Past(tw, n) = r \o w
    <2>1. /\ r \o w \in Seq(Letters) /\ Len(r \o w) = Len(r) + Len(w)
          /\ \A k \in 1..(Len(r) + Len(w)) :
               (r \o w)[k] = IF k <= Len(r) THEN r[k] ELSE w[k - Len(r)]
      BY <1>4, ConcatProperties DEF r
    <2>2. Len(r) = Len(t) - n /\ \A k \in 1..(Len(t) - n) : r[k] = t[n + k]
      BY <1>4 DEF r
    <2>3. ASSUME NEW k \in 1..(Len(tw) - n)
          PROVE  Past(tw, n)[k] = (r \o w)[k]
      <3>1. /\ n + k \in 1..(Len(t) + Len(w)) /\ k \in 1..(Len(r) + Len(w))
            /\ (k <= Len(r) <=> n + k <= Len(t))
            /\ (k <= Len(r) => k \in 1..(Len(t) - n))
            /\ (n + k) - Len(t) = k - Len(r)
        BY <1>1, <1>2, <2>2, <2>3 DEF tw
      <3>2. Past(tw, n)[k] = IF n + k <= Len(t) THEN t[n + k] ELSE w[(n + k) - Len(t)]
        BY <1>1, <1>3, <2>3, <3>1 DEF tw
      <3>3. (r \o w)[k] = IF k <= Len(r) THEN r[k] ELSE w[k - Len(r)]
        BY <2>1, <3>1
      <3> QED  BY <2>2, <3>1, <3>2, <3>3
    <2>4. Len(Past(tw, n)) = Len(r \o w) /\ Len(Past(tw, n)) = Len(tw) - n
      BY <1>1, <1>2, <1>3, <2>1, <2>2 DEF tw
    <2> QED  BY <1>3, <2>1, <2>3, <2>4, SameText
  <1>7. \A k \in 1..Len(t) : tw[k] = t[k]
    BY <1>1 DEF tw
  <1> QED  BY <1>1, <1>2, <1>5, <1>6, <1>7 DEF tw, r

\* What the reference makes of nothing, of a tag and of a letter.
LEMMA SplitCases ==
    ASSUME NEW t \in Seq(Letters), NEW inside \in BOOLEAN
    PROVE  /\ From(t, inside) \in Reading
           /\ Split[From(t, inside)] \in Sides
           /\ t = <<>> => Split[From(t, inside)] = Side(<<>>, inside)
           /\ TagAt(t, Tag(inside), 1) =>
                Split[From(t, inside)] = Split[From(Past(t, Len(Tag(inside))), ~inside)]
           /\ t # <<>> /\ ~TagAt(t, Tag(inside), 1) =>
                Split[From(t, inside)] =
                  Plus(Side(SubSeq(t, 1, 1), inside), Split[From(Past(t, 1), inside)])
  <1> DEFINE from == From(t, inside)
             tag == Tag(inside)
             s == Split
  <1>1. /\ from \in Reading /\ from.text = t /\ from.inside = inside
        /\ [from EXCEPT !.text = Tail(@)] = From(Tail(t), inside)
        /\ from = From(t, inside)
    <2>1. from \in Reading /\ from.text = t /\ from.inside = inside
      BY DEF From, Reading
    <2>2. \A r \in Reading : \A u : [r EXCEPT !.text = u] = From(u, r.inside)
      BY DEF From, Reading
    <2>3. [from EXCEPT !.text = Tail(from.text)] = From(Tail(from.text), from.inside)
      <3> HIDE DEF from
      <3> QED  BY <2>1, <2>2
    <2> QED  BY <2>1, <2>3
  <1>2. tag \in Seq(Letters) /\ Len(tag) \in {2, 3}
    BY TagFacts
  <1>3. IsPrefix(tag, t) <=> TagAt(t, tag, 1)
    <2>1. Len(t) \in Nat /\ Len(tag) \in Nat /\ \A k \in 1..Len(tag) : 1 + k - 1 = k
      BY <1>2
    <2>2. Len(tag) <= Len(t) <=> 1 + Len(tag) <= Len(t) + 1
      BY <2>1
    <2> HIDE DEF tag
    <2> QED  BY <1>2, <2>1, <2>2, PrefixAt DEF TagAt
  <1>4. s \in [Reading -> Sides] /\ s[from] = SplitOnce(s, from)
    BY <1>1, SplitUnfolds
  <1> HIDE DEF s, from
  <1>5. t = <<>> => s[from] = Side(<<>>, inside)
    BY <1>1, <1>4 DEF SplitOnce, Side
  <1>6. ASSUME TagAt(t, tag, 1)
        PROVE  s[from] = s[From(Past(t, Len(tag)), ~inside)]
    <2>1. t # <<>>
      BY <1>2, <1>6 DEF TagAt
    <2> QED  BY <1>1, <1>3, <1>4, <1>6, <2>1 DEF SplitOnce, Past, From
  <1>7. ASSUME t # <<>>, ~TagAt(t, tag, 1)
        PROVE  s[from] = Plus(Side(SubSeq(t, 1, 1), inside), s[From(Past(t, 1), inside)])
    <2> DEFINE more == s[From(Tail(t), inside)]
               letter == <<Head(t)>>
    <2>1. Tail(t) \in Seq(Letters) /\ Head(t) \in Letters /\ Len(t) \in Nat /\ Len(t) # 0
      BY <1>7, HeadTailProperties, EmptySeq
    <2>2. Tail(t) = Past(t, 1)
      BY <1>7, TailIsSubSeq DEF Past
    <2>3. letter = SubSeq(t, 1, 1)
      <3>1. 1 \in 0..Len(t)
        BY <2>1
      <3>2. /\ SubSeq(t, 1, 1) \in Seq(Letters) /\ Len(SubSeq(t, 1, 1)) = 1
            /\ SubSeq(t, 1, 1)[1] = t[1]
        BY <3>1, PastFacts
      <3>3. letter \in Seq(Letters) /\ Len(letter) = 1 /\ letter[1] = t[1]
        BY <2>1
      <3> HIDE DEF letter
      <3> QED  BY <3>2, <3>3, SameText
    <2>4. more \in Sides
      BY <1>4, <2>1 DEF From, Reading
    <2>5. s[from] = IF inside THEN [more EXCEPT !.thoughts = letter \o @]
                              ELSE [more EXCEPT !.content = letter \o @]
      BY <1>1, <1>3, <1>4, <1>7 DEF SplitOnce
    <2>6. letter \in Seq(Letters)
      BY <2>1
    <2> HIDE DEF more, letter
    <2>7. s[from] = Plus(Side(letter, inside), more)
      <3>1. more.content \in Seq(Letters) /\ more.thoughts \in Seq(Letters)
        BY <2>4 DEF Sides
      <3>2. <<>> \o more.content = more.content /\ <<>> \o more.thoughts = more.thoughts
        BY <3>1, ConcatEmptySeq
      <3> QED  BY <2>4, <2>5, <3>2 DEF Plus, Side, Sides
    <2> QED  BY <2>2, <2>3, <2>7 DEF more
  <1>8. s[from] \in Sides
    BY <1>1, <1>4
  <1> QED  BY <1>1, <1>5, <1>6, <1>7, <1>8 DEF s, from

\* Text before the next tag is on its side.
LEMMA SplitPlain ==
    ASSUME NEW t \in Seq(Letters), NEW inside \in BOOLEAN, NEW m \in 0..Len(t),
           \A i \in 1..m : ~TagAt(t, Tag(inside), i)
    PROVE  Split[From(t, inside)] =
             Plus(Side(SubSeq(t, 1, m), inside), Split[From(Past(t, m), inside)])
  <1> DEFINE Good(n) == Split[From(t, inside)] =
               Plus(Side(SubSeq(t, 1, n), inside), Split[From(Past(t, n), inside)])
             T == {n \in 0..m : ~Good(n)}
  <1>1. Len(t) \in Nat /\ m \in 0..Len(t)
    OBVIOUS
  <1>2. Good(0)
    <2>1. 0 \in 0..Len(t)
      BY <1>1
    <2>2. SubSeq(t, 1, 0) = <<>> /\ Past(t, 0) = t
      BY SubSeqEmpty, SubSeqFull DEF Past
    <2>3. Split[From(t, inside)] \in Sides
      BY SplitCases
    <2>4. Plus(Side(<<>>, inside), Split[From(t, inside)]) = Split[From(t, inside)]
      BY <2>3, PlusNothing
    <2> QED  BY <2>2, <2>4
  <1>3. ASSUME NEW n \in 0..m, n < m, Good(n)
        PROVE  Good(n + 1)
    <2> DEFINE r == Past(t, n)
               a == SubSeq(t, 1, n)
               b == SubSeq(r, 1, 1)
    <2>1. n \in 0..Len(t) /\ n + 1 \in 0..Len(t) /\ n < Len(t) /\ n \in Nat
      BY <1>1, <1>3
    <2>2. /\ r \in Seq(Letters) /\ Len(r) = Len(t) - n
          /\ \A k \in 1..(Len(t) - n) : r[k] = t[n + k]
          /\ a \in Seq(Letters) /\ Len(a) = n /\ \A k \in 1..n : a[k] = t[k]
      BY <2>1, PastFacts
    <2>3. 1 \in 0..Len(r) /\ r # <<>> /\ Len(r) \in Nat
      BY <1>1, <2>1, <2>2
    <2> HIDE DEF r, a
    <2>4. ~TagAt(r, Tag(inside), 1)
      <3> DEFINE tag == Tag(inside)
      <3>1. tag \in Seq(Letters) /\ Len(tag) \in {2, 3}
        BY TagFacts
      <3> HIDE DEF tag
      <3> SUFFICES ASSUME TagAt(r, tag, 1)
                   PROVE  TagAt(t, tag, n + 1)
        BY <1>3, <2>1, <1>1 DEF tag
      <3>2. 1 + Len(tag) <= Len(r) + 1 /\ \A k \in 1..Len(tag) : r[1 + k - 1] = tag[k]
        BY DEF TagAt
      <3>3. n + 1 >= 1 /\ (n + 1) + Len(tag) <= Len(t) + 1
        BY <1>1, <2>1, <2>2, <3>1, <3>2
      <3>4. ASSUME NEW k \in 1..Len(tag)
            PROVE  t[(n + 1) + k - 1] = tag[k]
        <4>1. k \in 1..(Len(t) - n) /\ 1 + k - 1 = k /\ (n + 1) + k - 1 = n + k
          BY <1>1, <2>1, <2>2, <3>1, <3>2
        <4> QED  BY <2>2, <3>2, <4>1
      <3> QED  BY <3>3, <3>4 DEF TagAt
    <2>5. Split[From(r, inside)] =
            Plus(Side(b, inside), Split[From(Past(r, 1), inside)])
      BY <2>2, <2>3, <2>4, SplitCases
    <2>6. /\ b \in Seq(Letters) /\ Len(b) = 1 /\ b[1] = t[n + 1]
          /\ Past(r, 1) \in Seq(Letters) /\ Len(Past(r, 1)) = Len(t) - (n + 1)
          /\ \A k \in 1..(Len(t) - (n + 1)) : Past(r, 1)[k] = t[(n + 1) + k]
      <3>1. /\ Past(r, 1) \in Seq(Letters) /\ Len(Past(r, 1)) = Len(r) - 1
            /\ \A k \in 1..(Len(r) - 1) : Past(r, 1)[k] = r[1 + k]
            /\ b \in Seq(Letters) /\ Len(b) = 1 /\ \A k \in 1..1 : b[k] = r[k]
        BY <2>2, <2>3, PastFacts
      <3>2. Len(r) - 1 = Len(t) - (n + 1) /\ 1 \in 1..(Len(t) - n)
        BY <1>1, <2>1, <2>2
      <3>3. ASSUME NEW k \in 1..(Len(t) - (n + 1))
            PROVE  Past(r, 1)[k] = t[(n + 1) + k]
        <4>1. k \in 1..(Len(r) - 1) /\ 1 + k \in 1..(Len(t) - n) /\ n + (1 + k) = (n + 1) + k
          BY <1>1, <2>1, <3>2
        <4> QED  BY <2>2, <3>1, <4>1
      <3>4. b[1] = t[n + 1]
        BY <2>2, <3>1, <3>2
      <3> QED  BY <3>1, <3>2, <3>3, <3>4
    <2>7. Past(r, 1) = Past(t, n + 1)
      <3>1. /\ Past(t, n + 1) \in Seq(Letters) /\ Len(Past(t, n + 1)) = Len(t) - (n + 1)
            /\ \A k \in 1..(Len(t) - (n + 1)) : Past(t, n + 1)[k] = t[(n + 1) + k]
        BY <2>1, PastFacts
      <3> QED  BY <2>6, <3>1, SameText
    <2> HIDE DEF b
    <2>8. a \o b = SubSeq(t, 1, n + 1)
      <3>1. /\ SubSeq(t, 1, n + 1) \in Seq(Letters) /\ Len(SubSeq(t, 1, n + 1)) = n + 1
            /\ \A k \in 1..(n + 1) : SubSeq(t, 1, n + 1)[k] = t[k]
        BY <2>1, PastFacts
      <3>2. /\ a \o b \in Seq(Letters) /\ Len(a \o b) = n + 1
            /\ \A k \in 1..(n + 1) : (a \o b)[k] = IF k <= n THEN a[k] ELSE b[k - n]
        <4>1. /\ a \o b \in Seq(Letters) /\ Len(a \o b) = Len(a) + Len(b)
              /\ \A k \in 1..(Len(a) + Len(b)) :
                   (a \o b)[k] = IF k <= Len(a) THEN a[k] ELSE b[k - Len(a)]
          <5>1. a \in Seq(Letters) /\ b \in Seq(Letters)
            BY <2>2, <2>6
          <5> QED  BY ONLY <5>1, ConcatProperties
        <4> QED  BY <2>2, <2>6, <4>1
      <3>3. ASSUME NEW k \in 1..(n + 1)
            PROVE  (a \o b)[k] = t[k]
        <4>1. CASE k <= n
          BY <2>1, <2>2, <3>2, <4>1
        <4>2. CASE ~(k <= n)
          <5>1. k = n + 1 /\ k - n = 1
            BY <2>1, <4>2
          <5> QED  BY <2>6, <3>2, <4>2, <5>1
        <4> QED  BY <4>1, <4>2
      <3> QED  BY <3>1, <3>2, <3>3, SameText
    <2>9. Split[From(t, inside)] = Plus(Side(a, inside), Split[From(r, inside)])
      BY <1>3 DEF r, a
    <2> DEFINE x == Split[From(Past(r, 1), inside)]
    <2>10. x \in Sides /\ Side(a, inside) \in Sides /\ Side(b, inside) \in Sides
      BY <2>2, <2>6, SplitCases, SideFacts
    <2>11. Plus(Side(a, inside), Side(b, inside)) = Side(a \o b, inside)
      BY <2>2, <2>6, SideFacts
    <2> HIDE DEF x
    <2>12. Plus(Side(a, inside), Plus(Side(b, inside), x)) = Plus(Side(a \o b, inside), x)
      <3> DEFINE sa == Side(a, inside)
                 sb == Side(b, inside)
      <3>1. sa \in Sides /\ sb \in Sides
        BY <2>10
      <3> HIDE DEF sa, sb
      <3>2. Plus(Plus(sa, sb), x) = Plus(sa, Plus(sb, x))
        BY <2>10, <3>1, PlusFacts
      <3> QED  BY <2>11, <3>2 DEF sa, sb
    <2> QED  BY <2>5, <2>7, <2>8, <2>9, <2>12 DEF x
  <1> HIDE DEF Good
  <1>4. T = {}
    <2> SUFFICES ASSUME T # {}
                 PROVE  FALSE
      OBVIOUS
    <2>1. T \in SUBSET Nat
      OBVIOUS
    <2>2. PICK n \in T : \A k \in T : n <= k
      <3> HIDE DEF T
      <3> QED  BY <2>1, LeastOf
    <2>3. n # 0 /\ n \in 0..m
      BY <1>2
    <2>4. n - 1 \in 0..m /\ n - 1 < m /\ ~(n <= n - 1) /\ (n - 1) + 1 = n
      BY <2>3
    <2>5. Good(n - 1)
      BY <2>2, <2>4
    <2>6. Good((n - 1) + 1)
      BY <1>3, <2>4, <2>5
    <2> QED  BY <2>4, <2>6
  <1>5. m \in 0..m
    BY <1>1
  <1>6. Good(m)
    BY <1>4, <1>5
  <1> QED  BY <1>6 DEF Good

\* A text too short for the tag is on its side.
LEMMA SplitShort ==
    ASSUME NEW t \in Seq(Letters), NEW inside \in BOOLEAN, Len(t) < Len(Tag(inside))
    PROVE  Split[From(t, inside)] = Side(t, inside)
  <1> DEFINE tag == Tag(inside)
             m == Len(t)
  <1>1. tag \in Seq(Letters) /\ Len(tag) \in {2, 3} /\ m \in Nat /\ m \in 0..Len(t) /\ m < Len(tag)
    BY TagFacts
  <1> HIDE DEF tag
  <1>2. \A i \in 1..m : ~TagAt(t, tag, i)
    <2> HIDE DEF m
    <2>1. \A i \in 1..m : ~(i + Len(tag) <= m + 1)
      BY <1>1
    <2> QED  BY <2>1 DEF TagAt, m
  <1>3. Split[From(t, inside)] =
          Plus(Side(SubSeq(t, 1, m), inside), Split[From(Past(t, m), inside)])
    BY <1>1, <1>2, SplitPlain DEF tag
  <1>4. SubSeq(t, 1, m) = t /\ Past(t, m) = <<>>
    <2>1. SubSeq(t, 1, m) = t
      BY SubSeqFull
    <2>2. Past(t, m) \in Seq(Letters) /\ Len(Past(t, m)) = Len(t) - m
      BY <1>1, PastFacts
    <2>3. Len(Past(t, m)) = 0
      BY <1>1, <2>2
    <2> HIDE DEF m
    <2> QED  BY <2>1, <2>2, <2>3, EmptySeq
  <1>5. <<>> \in Seq(Letters) /\ t \o <<>> = t
    BY EmptySeq, ConcatEmptySeq
  <1>6. Split[From(<<>>, inside)] = Side(<<>>, inside)
    BY <1>5, SplitCases
  <1>7. Plus(Side(t, inside), Side(<<>>, inside)) = Side(t \o <<>>, inside)
    BY <1>5, SideFacts
  <1> QED  BY <1>3, <1>4, <1>5, <1>6, <1>7

-----------------------------------------------------------------------------
(* The parser                                                              *)

\* What is put on a side.
Out(letters, there) == IF there THEN letters ELSE <<>>

\* A delta adds to its own side.
LEMMA EmitFacts ==
    ASSUME NEW p \in Parser, NEW letters \in Seq(Letters)
    PROVE  /\ Emit(p, letters) \in Parser
           /\ Emit(p, letters).inside = p.inside
           /\ Emit(p, letters).pending = p.pending
           /\ Emit(p, letters).content = p.content \o Out(letters, ~p.inside)
           /\ Emit(p, letters).reasoning = p.reasoning \o Out(letters, p.inside)
           /\ Emit(p, letters).buffer = p.buffer \o Out(letters, p.inside)
  <1>1. /\ p.content \in Seq(Letters) /\ p.reasoning \in Seq(Letters \cup {"r"})
        /\ p.pending \in Seq(Letters) /\ p.inside \in BOOLEAN /\ p.buffer \in Seq(Letters)
        /\ p.events \in Seq([type : {"delta", "reasoning_delta"}, content : Seq(Letters)])
    BY DEF Parser
  <1> DEFINE E == [type : {"delta", "reasoning_delta"}, content : Seq(Letters)]
             ev(type) == [type |-> type, content |-> letters]
  <1>2. letters \in Seq(Letters \cup {"r"})
    BY SeqMonotonic
  <1>3. /\ p.content \o <<>> = p.content /\ p.reasoning \o <<>> = p.reasoning
        /\ p.buffer \o <<>> = p.buffer
    BY <1>1, ConcatEmptySeq
  <1>4. /\ p.content \o letters \in Seq(Letters) /\ p.buffer \o letters \in Seq(Letters)
        /\ p.reasoning \o letters \in Seq(Letters \cup {"r"})
    <2>1. p.content \o letters \in Seq(Letters) /\ p.buffer \o letters \in Seq(Letters)
      BY <1>1, ConcatProperties
    <2>2. p.reasoning \o letters \in Seq(Letters \cup {"r"})
      BY <1>1, <1>2, ConcatProperties
    <2> QED  BY <2>1, <2>2
  <1>5. /\ Append(p.events, ev("delta")) \in Seq(E)
        /\ Append(p.events, ev("reasoning_delta")) \in Seq(E)
    <2>1. ev("delta") \in E /\ ev("reasoning_delta") \in E
      OBVIOUS
    <2> DEFINE e1 == ev("delta")
               e2 == ev("reasoning_delta")
               s == p.events
    <2>2. e1 \in E /\ e2 \in E /\ s \in Seq(E)
      BY <1>1, <2>1
    <2> HIDE DEF e1, e2, E, s
    <2>3. Append(s, e1) \in Seq(E) /\ Append(s, e2) \in Seq(E)
      BY <2>2, AppendProperties
    <2> QED  BY <2>3 DEF e1, e2, s
  <1>6. CASE letters = <<>>
    <2>1. Emit(p, letters) = p
      BY <1>6 DEF Emit
    <2> QED  BY <1>3, <1>6, <2>1 DEF Out
  <1>7. CASE letters # <<>> /\ p.inside
    <2>1. Emit(p, letters) =
            [p EXCEPT !.reasoning = @ \o letters, !.buffer = @ \o letters,
                      !.events = Append(@, ev("reasoning_delta"))]
      BY <1>7 DEF Emit
    <2>2. Emit(p, letters) \in Parser
      BY <1>1, <1>4, <1>5, <2>1 DEF Parser
    <2> QED  BY <1>3, <1>7, <2>1, <2>2 DEF Out, Parser
  <1>8. CASE letters # <<>> /\ ~p.inside
    <2>1. Emit(p, letters) =
            [p EXCEPT !.content = @ \o letters, !.events = Append(@, ev("delta"))]
      BY <1>8 DEF Emit
    <2>2. Emit(p, letters) \in Parser
      BY <1>1, <1>4, <1>5, <2>1 DEF Parser
    <2> QED  BY <1>3, <1>8, <2>1, <2>2 DEF Out, Parser
  <1> QED  BY <1>6, <1>7, <1>8

\* A tag takes the parser to the other side.
LEMMA CrossFacts ==
    ASSUME NEW p \in Parser, NEW before \in Seq(Letters)
    PROVE  /\ Cross(p, before) \in Parser
           /\ Cross(p, before).inside = ~p.inside
           /\ Cross(p, before).content = p.content \o Out(before, ~p.inside)
           /\ Cross(p, before).reasoning = p.reasoning \o Out(before, p.inside)
  <1> DEFINE e == Emit(p, before)
             b == IF p.inside /\ before # <<>> THEN <<>> ELSE e.buffer
  <1>1. /\ e \in Parser /\ e.inside = p.inside
        /\ e.content = p.content \o Out(before, ~p.inside)
        /\ e.reasoning = p.reasoning \o Out(before, p.inside)
    BY EmitFacts
  <1>2. b \in Seq(Letters)
    BY <1>1, EmptySeq DEF Parser
  <1>3. Cross(p, before) = [e EXCEPT !.inside = ~@, !.buffer = b]
    BY DEF Cross
  <1> HIDE DEF e, b
  <1> QED  BY <1>1, <1>2, <1>3 DEF Parser

\* What is left to scan behind the first tag.
Behind(p) ==
    LET i == Min(Found(p.pending, Tag(p.inside)))
    IN [Cross(p, SubSeq(p.pending, 1, i - 1)) EXCEPT
          !.pending = SubSeq(p.pending, i + Len(Tag(p.inside)), Len(p.pending))]

\* What is emitted, and held back, without a tag.
Held(p) ==
    LET kept == Len(p.pending) - Partial(p.pending, Tag(p.inside))
    IN [Emit(p, SubSeq(p.pending, 1, kept)) EXCEPT
          !.pending = SubSeq(p.pending, kept + 1, Len(p.pending))]

\* One step of the scan.
ScanOnce(scan, p) ==
    IF Found(p.pending, Tag(p.inside)) # {} THEN scan[Behind(p)] ELSE Held(p)

\* The first tag found is the first tag, and what is behind it is shorter.
LEMMA BehindFacts ==
    ASSUME NEW p \in Parser, Found(p.pending, Tag(p.inside)) # {}
    PROVE  \E i \in 1..Len(p.pending) :
             /\ TagAt(p.pending, Tag(p.inside), i)
             /\ \A j \in 1..(i - 1) : ~TagAt(p.pending, Tag(p.inside), j)
             /\ i - 1 + Len(Tag(p.inside)) \in 1..Len(p.pending)
             /\ Behind(p) \in Parser
             /\ Behind(p).inside = ~p.inside
             /\ Behind(p).pending = Past(p.pending, i - 1 + Len(Tag(p.inside)))
             /\ Len(Behind(p).pending) < Len(p.pending)
             /\ Behind(p).content = p.content \o Out(SubSeq(p.pending, 1, i - 1), ~p.inside)
             /\ Behind(p).reasoning = p.reasoning \o Out(SubSeq(p.pending, 1, i - 1), p.inside)
  <1> DEFINE text == p.pending
             tag == Tag(p.inside)
             tags == Found(text, tag)
             i == Min(tags)
             before == SubSeq(text, 1, i - 1)
             n == i - 1 + Len(tag)
             left == Past(text, n)
             crossed == Cross(p, before)
  <1>1. text \in Seq(Letters) /\ Len(text) \in Nat /\ p.inside \in BOOLEAN
    BY DEF Parser
  <1>2. tag \in Seq(Letters) /\ Len(tag) \in Nat /\ Len(tag) > 0
    BY <1>1, TagFacts
  <1>3. tags # {} /\ tags \in SUBSET Nat
    <2>1. tags # {}
      OBVIOUS
    <2> HIDE DEF tag, text
    <2>2. tags \in SUBSET Nat
      BY <1>1, <1>2 DEF Found
    <2> QED  BY <2>1, <2>2
  <1> HIDE DEF tag, text
  <1>4. i \in tags /\ \A j \in tags : i <= j
    BY <1>3, MinOf
  <1>5. \A j \in Nat : j \in tags <=> TagAt(text, tag, j)
    BY <1>1, <1>2, FoundAt
  <1> HIDE DEF tags, i
  <1>6. i \in Nat /\ TagAt(text, tag, i)
    BY <1>3, <1>4, <1>5
  <1>7. i >= 1 /\ i + Len(tag) <= Len(text) + 1
    BY <1>6 DEF TagAt
  <1>8. \A j \in 1..(i - 1) : ~TagAt(text, tag, j)
    <2> SUFFICES ASSUME NEW j \in 1..(i - 1), TagAt(text, tag, j)
                 PROVE  FALSE
      OBVIOUS
    <2>1. j \in Nat /\ ~(i <= j)
      BY <1>6
    <2> QED  BY <1>4, <1>5, <2>1
  <1>9. i \in 1..Len(text) /\ n \in 1..Len(text) /\ n \in 0..Len(text) /\ i - 1 \in 0..Len(text)
        /\ i + Len(tag) = n + 1 /\ Len(text) - n < Len(text)
    <2> DEFINE l == Len(text)
               d == Len(tag)
    <2>1. l \in Nat /\ d \in Nat /\ d >= 1 /\ i \in Nat /\ i >= 1 /\ i + d <= l + 1
      <3>1. l \in Nat
        BY <1>1
      <3>2. d \in Nat /\ d >= 1
        <4>1. d \in Nat /\ d > 0
          BY <1>2
        <4> HIDE DEF d
        <4> QED  BY <4>1
      <3> QED  BY <1>6, <1>7, <3>1, <3>2
    <2> HIDE DEF l, d
    <2>2. /\ i \in 1..l /\ i - 1 + d \in 1..l /\ i - 1 + d \in 0..l /\ i - 1 \in 0..l
          /\ i + d = (i - 1 + d) + 1 /\ l - (i - 1 + d) < l
      BY <2>1
    <2> QED  BY <2>2 DEF l, d
  <1> HIDE DEF n
  <1>10. /\ before \in Seq(Letters)
         /\ left \in Seq(Letters) /\ Len(left) = Len(text) - n
    BY <1>1, <1>9, PastFacts
  <1> HIDE DEF left, before
  <1>11. /\ crossed \in Parser /\ crossed.inside = ~p.inside
         /\ crossed.content = p.content \o Out(before, ~p.inside)
         /\ crossed.reasoning = p.reasoning \o Out(before, p.inside)
    BY <1>10, CrossFacts
  <1> HIDE DEF crossed
  <1>12. Behind(p) = [crossed EXCEPT !.pending = left]
    BY <1>9 DEF Behind, crossed, left, Past, before, i, tags, tag, text
  <1>13. /\ Behind(p) \in Parser /\ Behind(p).inside = ~p.inside
         /\ Behind(p).pending = left
         /\ Behind(p).content = p.content \o Out(before, ~p.inside)
         /\ Behind(p).reasoning = p.reasoning \o Out(before, p.inside)
    BY <1>10, <1>11, <1>12 DEF Parser
  <1>14. Len(left) < Len(text)
    BY <1>9, <1>10
  <1> QED  BY <1>6, <1>8, <1>9, <1>13, <1>14 DEF text, tag, n, left, before

\* Without a tag all but the beginning of one is put on its side.
LEMMA HeldFacts ==
    ASSUME NEW p \in Parser, Found(p.pending, Tag(p.inside)) = {}
    PROVE  \E kept \in 0..Len(p.pending) :
             /\ \A i \in Nat : ~TagAt(p.pending, Tag(p.inside), i)
             /\ \A i \in Nat :
                  i <= Len(p.pending) /\ i <= Len(Tag(p.inside))
                    /\ (\A k \in 1..i : p.pending[Len(p.pending) - i + k] = Tag(p.inside)[k])
                  => i <= Len(p.pending) - kept
             /\ Len(p.pending) - kept < Len(Tag(p.inside))
             /\ Held(p) \in Parser
             /\ Held(p).inside = p.inside
             /\ Held(p).pending = Past(p.pending, kept)
             /\ Held(p).content = p.content \o Out(SubSeq(p.pending, 1, kept), ~p.inside)
             /\ Held(p).reasoning = p.reasoning \o Out(SubSeq(p.pending, 1, kept), p.inside)
  <1> DEFINE text == p.pending
             tag == Tag(p.inside)
             n == Partial(text, tag)
             kept == Len(text) - n
             before == SubSeq(text, 1, kept)
             left == Past(text, kept)
             emitted == Emit(p, before)
  <1>1. text \in Seq(Letters) /\ Len(text) \in Nat /\ p.inside \in BOOLEAN
    BY DEF Parser
  <1>2. tag \in Seq(Letters) /\ Len(tag) \in {2, 3}
    BY <1>1, TagFacts
  <1> HIDE DEF tag, text
  <1>3. \A i \in Nat : ~TagAt(text, tag, i)
    <2>1. \A i \in Nat : i \in Found(text, tag) <=> TagAt(text, tag, i)
      <3>1. Len(tag) > 0
        BY <1>2
      <3> QED  BY <1>1, <1>2, <3>1, FoundAt
    <2> QED  BY <2>1 DEF text, tag
  <1>4. /\ n \in Nat /\ n <= Len(text) /\ n <= Len(tag)
        /\ \A k \in 1..n : text[Len(text) - n + k] = tag[k]
        /\ \A i \in Nat :
             i <= Len(text) /\ i <= Len(tag) /\ (\A k \in 1..i : text[Len(text) - i + k] = tag[k])
             => i <= n
    BY <1>1, <1>2, PartialFacts
  <1> HIDE DEF n
  <1>5. kept \in 0..Len(text) /\ Len(text) - kept = n
    BY <1>1, <1>4
  <1>6. n < Len(tag)
    <2> SUFFICES ASSUME n = Len(tag)
                 PROVE  FALSE
      BY <1>2, <1>4
    <2> DEFINE i == Len(text) - n + 1
    <2>1. i \in Nat /\ i >= 1 /\ i + Len(tag) <= Len(text) + 1
          /\ \A k \in 1..n : i + k - 1 = Len(text) - n + k
      BY <1>1, <1>2, <1>4
    <2> HIDE DEF i
    <2>2. TagAt(text, tag, i)
      BY <1>4, <2>1 DEF TagAt
    <2> QED  BY <1>3, <2>1, <2>2
  <1> HIDE DEF kept
  <1>7. /\ before \in Seq(Letters)
        /\ left \in Seq(Letters) /\ Len(left) = Len(text) - kept
    BY <1>1, <1>5, PastFacts
  <1> HIDE DEF left, before
  <1>8. /\ emitted \in Parser /\ emitted.inside = p.inside
        /\ emitted.content = p.content \o Out(before, ~p.inside)
        /\ emitted.reasoning = p.reasoning \o Out(before, p.inside)
    BY <1>7, EmitFacts
  <1> HIDE DEF emitted
  <1>9. Held(p) = [emitted EXCEPT !.pending = left]
    BY DEF Held, emitted, left, Past, before, kept, n, tag, text
  <1>10. /\ Held(p) \in Parser /\ Held(p).inside = p.inside
         /\ Held(p).pending = left
         /\ Held(p).content = p.content \o Out(before, ~p.inside)
         /\ Held(p).reasoning = p.reasoning \o Out(before, p.inside)
    BY <1>7, <1>8, <1>9 DEF Parser
  <1>11. /\ \A i \in Nat :
             i <= Len(text) /\ i <= Len(tag) /\ (\A k \in 1..i : text[Len(text) - i + k] = tag[k])
             => i <= Len(text) - kept
         /\ Len(text) - kept < Len(tag)
    BY <1>4, <1>5, <1>6
  <1> QED  BY <1>3, <1>5, <1>10, <1>11 DEF text, tag, left, before

\* The scan is what its definition says, for every parser.
LEMMA ScanUnfolds ==
    /\ Scan \in [Parser -> Parser]
    /\ \A p \in Parser : Scan[p] = ScanOnce(Scan, p)
  <1> DEFINE size == [p \in Parser |-> Len(p.pending)]
             step == [f \in [Parser -> Parser] |-> [p \in Parser |-> ScanOnce(f, p)]]
  <1>1. \A p \in Parser : Len(p.pending) \in Nat
    BY DEF Parser
  <1>2. ASSUME NEW f, NEW p \in Parser,
               \A q \in Parser : Len(q.pending) < Len(p.pending) => f[q] \in Parser
        PROVE  ScanOnce(f, p) \in Parser
    BY <1>2, BehindFacts, HeldFacts DEF ScanOnce
  <1>3. \A f \in [Parser -> Parser] : step[f] \in [Parser -> Parser]
    <2>1. \A f \in [Parser -> Parser], p \in Parser : ScanOnce(f, p) \in Parser
      BY <1>2
    <2> QED  BY <2>1
  <1>4. ASSUME NEW f \in [Parser -> Parser], NEW g \in [Parser -> Parser], NEW p \in Parser,
               \A q \in Parser : size[q] < size[p] => f[q] = g[q]
        PROVE  step[f][p] = step[g][p]
    <2>1. \A q \in Parser : Len(q.pending) < Len(p.pending) => f[q] = g[q]
      BY <1>4
    <2>2. ScanOnce(f, p) = ScanOnce(g, p)
      BY <2>1, BehindFacts DEF ScanOnce
    <2> QED  BY <2>2
  <1>5. Parser # {}
    <2>1. Fresh \in Parser
      BY EmptySeq DEF Fresh, Parser
    <2> QED  BY <2>1
  <1>6. \E f \in [Parser -> Parser] : f = step[f]
    <2>1. \A p \in Parser : size[p] \in Nat
      BY <1>1
    <2> HIDE DEF size, step
    <2>2. Descends(Parser, [Parser -> Parser], size, step)
      BY <1>3, <1>4, <2>1 DEF Descends
    <2> QED  BY ONLY <1>5, <2>2, RecursionSolved
  <1>7. PICK f \in [Parser -> Parser] : f = [p \in Parser |-> ScanOnce(f, p)]
    BY <1>6
  <1>8. Scan = [p \in Parser |-> ScanOnce(Scan, p)]
    BY <1>7 DEF Scan, ScanOnce, Behind, Held
  <1> DEFINE s == Scan
  <1> HIDE DEF s
  <1>9. s = [p \in Parser |-> ScanOnce(s, p)]
    BY <1>8 DEF s
  <1>10. \A p \in Parser : s[p] = ScanOnce(s, p)
    BY <1>9
  <1>11. \A p \in Parser : s[p] \in Parser
    <2> SUFFICES ASSUME NEW p \in Parser, s[p] \notin Parser
                 PROVE  FALSE
      OBVIOUS
    <2> DEFINE T == {n \in Nat : \E q \in Parser : Len(q.pending) = n /\ s[q] \notin Parser}
    <2>1. T \in SUBSET Nat /\ T # {}
      <3>1. Len(p.pending) \in T
        BY <1>1
      <3> QED  BY <3>1
    <2>2. PICK n \in T : \A k \in T : n <= k
      <3> HIDE DEF T
      <3> QED  BY <2>1, LeastOf
    <2>3. PICK q \in Parser : Len(q.pending) = n /\ s[q] \notin Parser
      OBVIOUS
    <2>4. ASSUME NEW r \in Parser, Len(r.pending) < Len(q.pending)
          PROVE  s[r] \in Parser
      <3>1. Len(r.pending) \in Nat /\ n \in Nat
        BY <1>1
      <3>2. Len(r.pending) \notin T
        <4> HIDE DEF T
        <4> QED  BY <2>2, <2>3, <2>4, <3>1
      <3> QED  BY <3>1, <3>2
    <2> QED  BY <1>2, <1>10, <2>3, <2>4
  <1> QED  BY <1>9, <1>10, <1>11 DEF s

\* The rest of the rest.
LEMMA PastPast ==
    ASSUME NEW t \in Seq(Letters), NEW n \in 0..Len(t), NEW m \in 0..(Len(t) - n)
    PROVE  Past(Past(t, n), m) = Past(t, n + m)
  <1> DEFINE r == Past(t, n)
  <1>1. /\ r \in Seq(Letters) /\ Len(r) = Len(t) - n
        /\ \A k \in 1..(Len(t) - n) : r[k] = t[n + k]
    BY PastFacts
  <1>2. Len(t) \in Nat /\ n \in Nat /\ m \in Nat /\ n + m \in 0..Len(t) /\ m \in 0..Len(r)
    BY <1>1
  <1> HIDE DEF r
  <1>3. /\ Past(r, m) \in Seq(Letters) /\ Len(Past(r, m)) = Len(r) - m
        /\ \A k \in 1..(Len(r) - m) : Past(r, m)[k] = r[m + k]
    BY <1>1, <1>2, PastFacts
  <1>4. /\ Past(t, n + m) \in Seq(Letters) /\ Len(Past(t, n + m)) = Len(t) - (n + m)
        /\ \A k \in 1..(Len(t) - (n + m)) : Past(t, n + m)[k] = t[(n + m) + k]
    BY <1>2, PastFacts
  <1>5. Len(r) - m = Len(t) - (n + m)
    BY <1>1, <1>2
  <1>6. ASSUME NEW k \in 1..(Len(r) - m)
        PROVE  Past(r, m)[k] = Past(t, n + m)[k]
    <2>1. m + k \in 1..(Len(t) - n) /\ n + (m + k) = (n + m) + k
      BY <1>1, <1>2
    <2> QED  BY <1>1, <1>3, <1>4, <1>5, <2>1
  <1>7. Len(Past(r, m)) = Len(Past(t, n + m))
    BY <1>3, <1>4, <1>5
  <1>8. \A k \in 1..Len(Past(r, m)) : Past(r, m)[k] = Past(t, n + m)[k]
    BY <1>3, <1>6
  <1> QED  BY <1>3, <1>4, <1>7, <1>8, SameText DEF r

\* A tag of a text is a tag of what begins there.
LEMMA TagPast ==
    ASSUME NEW t \in Seq(Letters), NEW tag \in Seq(Letters), NEW n \in 0..Len(t),
           TagAt(t, tag, n + 1)
    PROVE  TagAt(Past(t, n), tag, 1)
  <1>1. Len(t) \in Nat /\ Len(tag) \in Nat /\ n \in Nat
    OBVIOUS
  <1>2. /\ Len(Past(t, n)) = Len(t) - n
        /\ \A k \in 1..(Len(t) - n) : Past(t, n)[k] = t[n + k]
    BY PastFacts
  <1>3. (n + 1) + Len(tag) <= Len(t) + 1 /\ \A k \in 1..Len(tag) : t[(n + 1) + k - 1] = tag[k]
    BY DEF TagAt
  <1>4. 1 + Len(tag) <= Len(Past(t, n)) + 1
    BY <1>1, <1>2, <1>3
  <1>5. ASSUME NEW k \in 1..Len(tag)
        PROVE  Past(t, n)[1 + k - 1] = tag[k]
    <2>1. 1 + k - 1 = k /\ (n + 1) + k - 1 = n + k /\ k \in 1..(Len(t) - n)
      BY <1>1, <1>3
    <2> QED  BY <1>2, <1>3, <2>1
  <1> QED  BY <1>4, <1>5 DEF TagAt

\* A tag that ends within a text stands in it whatever follows.
LEMMA TagWithin ==
    ASSUME NEW t \in Seq(Letters), NEW w \in Seq(Letters), NEW tag \in Seq(Letters),
           NEW i \in Nat, i >= 1, i + Len(tag) <= Len(t) + 1
    PROVE  TagAt(t \o w, tag, i) <=> TagAt(t, tag, i)
  <1> DEFINE tw == t \o w
  <1>1. Len(t) \in Nat /\ Len(w) \in Nat /\ Len(tag) \in Nat
    OBVIOUS
  <1>2. Len(tw) = Len(t) + Len(w) /\ \A k \in 1..Len(t) : tw[k] = t[k]
    <2>1. 0 \in 0..Len(t)
      BY <1>1
    <2> QED  BY <2>1, ConcatFacts
  <1> HIDE DEF tw
  <1>3. i + Len(tag) <= Len(tw) + 1
    BY <1>1, <1>2
  <1>4. \A k \in 1..Len(tag) : tw[i + k - 1] = t[i + k - 1]
    <2>1. \A k \in 1..Len(tag) : i + k - 1 \in 1..Len(t)
      BY <1>1
    <2> QED  BY <1>2, <2>1
  <1> QED  BY <1>3, <1>4 DEF TagAt, tw

\* The parser went from p to q rightly: what it has put on each side, with what
\* it would still read, is what it would have read, whatever comes next.
Moves(p, q) ==
    \E c, th \in Seq(Letters) :
      /\ q.content = p.content \o c
      /\ q.reasoning = p.reasoning \o th
      /\ \A w \in Seq(Letters) :
           Split[From(p.pending \o w, p.inside)] =
             Plus([content |-> c, thoughts |-> th], Split[From(q.pending \o w, q.inside)])

\* One right move after another is one.
LEMMA MovesOn ==
    ASSUME NEW p \in Parser, NEW q \in Parser, NEW r \in Parser, Moves(p, q), Moves(q, r)
    PROVE  Moves(p, r)
  <1>1. PICK c1 \in Seq(Letters), t1 \in Seq(Letters) :
          /\ q.content = p.content \o c1
          /\ q.reasoning = p.reasoning \o t1
          /\ \A w \in Seq(Letters) :
               Split[From(p.pending \o w, p.inside)] =
                 Plus([content |-> c1, thoughts |-> t1], Split[From(q.pending \o w, q.inside)])
    BY DEF Moves
  <1>2. PICK c2 \in Seq(Letters), t2 \in Seq(Letters) :
          /\ r.content = q.content \o c2
          /\ r.reasoning = q.reasoning \o t2
          /\ \A w \in Seq(Letters) :
               Split[From(q.pending \o w, q.inside)] =
                 Plus([content |-> c2, thoughts |-> t2], Split[From(r.pending \o w, r.inside)])
    BY DEF Moves
  <1> DEFINE c == c1 \o c2
             th == t1 \o t2
             a == [content |-> c1, thoughts |-> t1]
             b == [content |-> c2, thoughts |-> t2]
  <1>3. c \in Seq(Letters) /\ th \in Seq(Letters)
    BY ConcatProperties
  <1>4. a \in Sides /\ b \in Sides /\ Plus(a, b) = [content |-> c, thoughts |-> th]
    BY DEF Sides, Plus
  <1>5. r.content = p.content \o c
    <2> DEFINE x == p.content
               L == Letters
    <2>1. x \in Seq(L) /\ c1 \in Seq(L) /\ c2 \in Seq(L)
      BY DEF Parser
    <2> HIDE DEF x, L
    <2>2. (x \o c1) \o c2 = x \o (c1 \o c2)
      BY <2>1, ConcatAssociative
    <2> QED  BY <1>1, <1>2, <2>2 DEF x
  <1>6. r.reasoning = p.reasoning \o th
    <2> DEFINE x == p.reasoning
               L == Letters \cup {"r"}
    <2>1. x \in Seq(L) /\ t1 \in Seq(L) /\ t2 \in Seq(L)
      BY SeqMonotonic DEF Parser
    <2> HIDE DEF x, L
    <2>2. (x \o t1) \o t2 = x \o (t1 \o t2)
      BY <2>1, ConcatAssociative
    <2> QED  BY <1>1, <1>2, <2>2 DEF x
  <1>7. ASSUME NEW w \in Seq(Letters)
        PROVE  Split[From(p.pending \o w, p.inside)] =
                 Plus([content |-> c, thoughts |-> th], Split[From(r.pending \o w, r.inside)])
    <2> DEFINE x == Split[From(r.pending \o w, r.inside)]
    <2>1. x \in Sides
      <3>1. r.pending \in Seq(Letters) /\ r.inside \in BOOLEAN
        BY DEF Parser
      <3>2. r.pending \o w \in Seq(Letters)
        BY <3>1, ConcatProperties
      <3> QED  BY <3>1, <3>2, SplitCases
    <2>2. Split[From(p.pending \o w, p.inside)] = Plus(a, Plus(b, x))
      BY <1>1, <1>2
    <2> HIDE DEF x, a, b
    <2>3. a \in Sides /\ b \in Sides /\ x \in Sides
      BY <1>4, <2>1
    <2>4. Plus(Plus(a, b), x) = Plus(a, Plus(b, x))
      BY ONLY <2>3, PlusFacts
    <2> QED  BY <1>4, <2>2, <2>4 DEF x
  <1> HIDE DEF c, th
  <1> QED  BY <1>3, <1>5, <1>6, <1>7 DEF Moves

\* A text on its side, as the two sides.
LEMMA OutFacts ==
    ASSUME NEW s \in Seq(Letters), NEW inside \in BOOLEAN
    PROVE  /\ Out(s, inside) \in Seq(Letters)
           /\ Side(s, inside) = [content |-> Out(s, ~inside), thoughts |-> Out(s, inside)]
  BY EmptySeq DEF Out, Side

\* Crossing a tag is a right move.
LEMMA BehindMoves ==
    ASSUME NEW p \in Parser, Found(p.pending, Tag(p.inside)) # {}
    PROVE  Moves(p, Behind(p))
  <1> DEFINE text == p.pending
             here == p.inside
             tag == Tag(here)
             q == Behind(p)
  <1>1. text \in Seq(Letters) /\ Len(text) \in Nat /\ here \in BOOLEAN
    BY DEF Parser
  <1>2. tag \in Seq(Letters) /\ Len(tag) \in Nat /\ Len(tag) > 0
    BY <1>1, TagFacts
  <1>3. PICK i \in 1..Len(text) :
          /\ TagAt(text, tag, i)
          /\ \A j \in 1..(i - 1) : ~TagAt(text, tag, j)
          /\ i - 1 + Len(tag) \in 1..Len(text)
          /\ q.inside = ~here
          /\ q.pending = Past(text, i - 1 + Len(tag))
          /\ q.content = p.content \o Out(SubSeq(text, 1, i - 1), ~here)
          /\ q.reasoning = p.reasoning \o Out(SubSeq(text, 1, i - 1), here)
    BY BehindFacts
  <1> DEFINE m == i - 1
             before == SubSeq(text, 1, m)
             c == Out(before, ~here)
             th == Out(before, here)
  <1>4. m \in Nat /\ m \in 0..Len(text) /\ m + 1 = i /\ m + Len(tag) \in 0..Len(text)
    BY <1>1, <1>2, <1>3
  <1>5. before \in Seq(Letters)
    BY <1>1, <1>4, PastFacts
  <1>6. /\ c \in Seq(Letters) /\ th \in Seq(Letters)
        /\ Side(before, here) = [content |-> c, thoughts |-> th]
    BY <1>1, <1>5, OutFacts
  <1>7. i >= 1 /\ i + Len(tag) <= Len(text) + 1
    BY <1>3 DEF TagAt
  <1>8. ASSUME NEW w \in Seq(Letters)
        PROVE  Split[From(text \o w, here)] =
                 Plus([content |-> c, thoughts |-> th], Split[From(q.pending \o w, q.inside)])
    <2> DEFINE tw == text \o w
               r == Past(tw, m)
    <2>1. /\ tw \in Seq(Letters) /\ Len(tw) \in Nat /\ m \in 0..Len(tw)
          /\ SubSeq(tw, 1, m) = before
      BY <1>1, <1>4, ConcatFacts
    <2>2. m + Len(tag) \in 0..Len(tw) /\ Past(tw, m + Len(tag)) = q.pending \o w
      <3> DEFINE n == m + Len(tag)
      <3>1. n \in 0..Len(text) /\ q.pending = Past(text, n)
        BY <1>3, <1>4
      <3> HIDE DEF n, q
      <3>2. n \in 0..Len(tw) /\ Past(tw, n) = Past(text, n) \o w
        <4> HIDE DEF text
        <4> QED  BY <1>1, <3>1, ConcatFacts
      <3> QED  BY <3>1, <3>2 DEF n
    <2>3. /\ TagAt(tw, tag, m + 1)
          /\ \A j \in 1..m : ~TagAt(tw, tag, j)
      <3> HIDE DEF tag, text
      <3>1. TagAt(tw, tag, i)
        BY <1>1, <1>2, <1>3, <1>7, TagWithin DEF tag, text
      <3>2. ASSUME NEW j \in 1..m
            PROVE  ~TagAt(tw, tag, j)
        <4>1. j \in Nat /\ j >= 1 /\ j + Len(tag) <= Len(text) + 1
          BY <1>1, <1>2, <1>4, <1>7
        <4>2. ~TagAt(text, tag, j)
          BY <1>3 DEF tag, text
        <4> QED  BY <1>1, <1>2, <4>1, <4>2, TagWithin
      <3> QED  BY <1>4, <3>1, <3>2
    <2> HIDE DEF tw, before, text, tag
    <2>4. Split[From(tw, here)] = Plus(Side(before, here), Split[From(r, here)])
      BY <1>1, <2>1, <2>3, SplitPlain DEF tag
    <2>5. TagAt(r, tag, 1)
      BY <1>2, <2>1, <2>3, TagPast
    <2>6. r \in Seq(Letters)
      BY <2>1, PastFacts
    <2>7. Split[From(r, here)] = Split[From(Past(r, Len(tag)), ~here)]
      <3> HIDE DEF r
      <3> QED  BY <1>1, <2>5, <2>6, SplitCases DEF tag
    <2>8. Past(r, Len(tag)) = q.pending \o w
      <3>1. Len(tag) \in 0..(Len(tw) - m)
        BY <1>2, <1>4, <2>1, <2>2
      <3>2. Past(r, Len(tag)) = Past(tw, m + Len(tag))
        BY <2>1, <3>1, PastPast
      <3> QED  BY <2>2, <3>2
    <2> HIDE DEF r, q, c, th
    <2> QED  BY <1>3, <1>6, <2>4, <2>7, <2>8 DEF tw, tag, text
  <1> HIDE DEF c, th
  <1> QED  BY <1>3, <1>6, <1>8 DEF Moves, c, th

\* Holding back what may be the beginning of a tag is a right move.
LEMMA HeldMoves ==
    ASSUME NEW p \in Parser, Found(p.pending, Tag(p.inside)) = {}
    PROVE  Moves(p, Held(p)) /\ Len(Held(p).pending) < Len(Tag(Held(p).inside))
  <1> DEFINE text == p.pending
             here == p.inside
             tag == Tag(here)
             q == Held(p)
  <1>1. text \in Seq(Letters) /\ Len(text) \in Nat /\ here \in BOOLEAN
    BY DEF Parser
  <1>2. tag \in Seq(Letters) /\ Len(tag) \in Nat /\ Len(tag) > 0
    BY <1>1, TagFacts
  <1>3. PICK kept \in 0..Len(text) :
          /\ \A i \in Nat : ~TagAt(text, tag, i)
          /\ \A i \in Nat :
               i <= Len(text) /\ i <= Len(tag)
                 /\ (\A k \in 1..i : text[Len(text) - i + k] = tag[k])
               => i <= Len(text) - kept
          /\ Len(text) - kept < Len(tag)
          /\ q.inside = here
          /\ q.pending = Past(text, kept)
          /\ q.content = p.content \o Out(SubSeq(text, 1, kept), ~here)
          /\ q.reasoning = p.reasoning \o Out(SubSeq(text, 1, kept), here)
    BY HeldFacts
  <1> DEFINE before == SubSeq(text, 1, kept)
             c == Out(before, ~here)
             th == Out(before, here)
  <1>4. kept \in Nat /\ kept <= Len(text)
    BY <1>1
  <1>5. before \in Seq(Letters) /\ Len(Past(text, kept)) = Len(text) - kept
    BY <1>1, PastFacts
  <1>6. /\ c \in Seq(Letters) /\ th \in Seq(Letters)
        /\ Side(before, here) = [content |-> c, thoughts |-> th]
    BY <1>1, <1>5, OutFacts
  <1>7. ASSUME NEW w \in Seq(Letters)
        PROVE  Split[From(text \o w, here)] =
                 Plus([content |-> c, thoughts |-> th], Split[From(q.pending \o w, q.inside)])
    <2> DEFINE tw == text \o w
    <2>1. /\ tw \in Seq(Letters) /\ Len(tw) = Len(text) + Len(w) /\ kept \in 0..Len(tw)
          /\ \A k \in 1..Len(text) : tw[k] = text[k]
          /\ SubSeq(tw, 1, kept) = before
          /\ Past(tw, kept) = q.pending \o w
      <3>1. q.pending = Past(text, kept)
        BY <1>3
      <3> HIDE DEF q, text, tag
      <3>2. /\ tw \in Seq(Letters) /\ Len(tw) = Len(text) + Len(w) /\ kept \in 0..Len(tw)
            /\ \A k \in 1..Len(text) : tw[k] = text[k]
            /\ SubSeq(tw, 1, kept) = before
            /\ Past(tw, kept) = Past(text, kept) \o w
        BY <1>1, ConcatFacts
      <3> HIDE DEF tw, before
      <3> QED  BY <3>1, <3>2
    <2>2. Len(w) \in Nat
      OBVIOUS
    <2>3. \A j \in 1..kept : ~TagAt(tw, tag, j)
      <3> SUFFICES ASSUME NEW j \in 1..kept, TagAt(tw, tag, j)
                   PROVE  FALSE
        OBVIOUS
      <3> HIDE DEF tag, text, tw
      <3>1. j \in Nat /\ j >= 1 /\ j <= Len(text)
        BY <1>1, <1>4
      <3>2. CASE j + Len(tag) <= Len(text) + 1
        <4>1. TagAt(text, tag, j)
          BY <1>1, <1>2, <3>1, <3>2, TagWithin DEF tw
        <4> QED  BY <1>3, <3>1, <4>1 DEF tag, text
      <3>3. CASE ~(j + Len(tag) <= Len(text) + 1)
        <4> DEFINE l == Len(text)
                   d == Len(tag)
                   i == l - j + 1
        <4>1. l \in Nat /\ d \in Nat /\ j <= l /\ ~(j + d <= l + 1)
          BY <1>1, <1>2, <3>1, <3>3
        <4>2. i \in Nat /\ i <= l /\ i <= d /\ l - i = j - 1
          <5> HIDE DEF l, d
          <5> QED  BY <3>1, <4>1
        <4>3. ASSUME NEW k \in 1..i
              PROVE  text[l - i + k] = tag[k]
          <5>1. j + k - 1 = l - i + k /\ j + k - 1 \in 1..l /\ k \in 1..d
            <6> HIDE DEF l, d
            <6> QED  BY <3>1, <4>1, <4>2
          <5>2. tw[j + k - 1] = tag[k]
            BY <5>1 DEF TagAt
          <5>3. tw[j + k - 1] = text[j + k - 1]
            BY <2>1, <5>1 DEF text, tw
          <5> QED  BY <5>1, <5>2, <5>3
        <4>4. i <= l - kept
          BY <1>3, <4>2, <4>3 DEF tag, text
        <4> HIDE DEF l, d
        <4>5. kept \in Nat /\ j <= kept
          BY <1>4
        <4> QED  BY <3>1, <4>1, <4>4, <4>5
      <3> QED  BY <3>2, <3>3
    <2> HIDE DEF tw, before, text, tag
    <2>4. Split[From(tw, here)] = Plus(Side(before, here), Split[From(Past(tw, kept), here)])
      BY <1>1, <2>1, <2>3, SplitPlain DEF tag
    <2> HIDE DEF q, c, th
    <2> QED  BY <1>3, <1>6, <2>1, <2>4 DEF tw, text
  <1>8. Len(q.pending) < Len(Tag(q.inside))
    BY <1>3, <1>5
  <1> HIDE DEF c, th
  <1> QED  BY <1>3, <1>6, <1>7, <1>8 DEF Moves, c, th

\* The scan is a right move, and holds back less than a tag.
LEMMA ScanMoves ==
    ASSUME NEW p \in Parser
    PROVE  /\ Scan[p] \in Parser
           /\ Moves(p, Scan[p])
           /\ Len(Scan[p].pending) < Len(Tag(Scan[p].inside))
  <1> DEFINE Good(q) == Moves(q, Scan[q]) /\ Len(Scan[q].pending) < Len(Tag(Scan[q].inside))
             T == {n \in Nat : \E q \in Parser : Len(q.pending) = n /\ ~Good(q)}
  <1>1. \A q \in Parser : Scan[q] \in Parser /\ Len(q.pending) \in Nat
    <2>1. \A q \in Parser : Len(q.pending) \in Nat
      BY DEF Parser
    <2> QED  BY <2>1, ScanUnfolds
  <1>2. ASSUME NEW q \in Parser, Found(q.pending, Tag(q.inside)) # {}, Good(Behind(q))
        PROVE  Good(q)
    <2>1. Scan[q] = Scan[Behind(q)]
      BY <1>2, ScanUnfolds DEF ScanOnce
    <2>2. Behind(q) \in Parser /\ Moves(q, Behind(q))
      BY <1>2, BehindFacts, BehindMoves
    <2>3. Moves(q, Scan[Behind(q)])
      BY <1>1, <1>2, <2>2, MovesOn
    <2> QED  BY <1>2, <2>1, <2>3
  <1>3. ASSUME NEW q \in Parser, Found(q.pending, Tag(q.inside)) = {}
        PROVE  Good(q)
    <2>1. Scan[q] = Held(q)
      BY <1>3, ScanUnfolds DEF ScanOnce
    <2> QED  BY <1>3, <2>1, HeldMoves
  <1> HIDE DEF Good
  <1>4. \A q \in Parser : Good(q)
    <2> SUFFICES ASSUME NEW r \in Parser, ~Good(r)
                 PROVE  FALSE
      OBVIOUS
    <2>1. T \in SUBSET Nat /\ T # {}
      <3>1. Len(r.pending) \in T
        BY <1>1
      <3> QED  BY <3>1
    <2>2. PICK n \in T : \A k \in T : n <= k
      <3> HIDE DEF T
      <3> QED  BY <2>1, LeastOf
    <2>3. PICK q \in Parser : Len(q.pending) = n /\ ~Good(q)
      OBVIOUS
    <2>4. Found(q.pending, Tag(q.inside)) # {}
      BY <1>3, <2>3
    <2>5. Behind(q) \in Parser /\ Len(Behind(q).pending) < Len(q.pending)
      BY <2>4, BehindFacts
    <2>6. Good(Behind(q))
      <3>1. Len(Behind(q).pending) \in Nat /\ n \in Nat
        BY <1>1, <2>5
      <3>2. Len(Behind(q).pending) \notin T
        <4> HIDE DEF T
        <4> QED  BY <2>2, <2>3, <2>5, <3>1
      <3> QED  BY <2>5, <3>1, <3>2
    <2> QED  BY <1>2, <2>3, <2>4, <2>6
  <1> QED  BY <1>1, <1>4 DEF Good

-----------------------------------------------------------------------------
(* The invariant of the calls                                              *)

\* What the parameters of a request are called.
ParamNames == Refusable \cup {"max_completion_tokens"}

\* A call of the model, one whose pieces are gathered, one handed over.
ModelCall == [name : Tools, pieces : Nat, sent : Nat]
OpenCall == [call : Nat, got : Nat]
HandedCall == [call : Nat, args : {"whole", "none"}]
Request == [params : SUBSET ParamNames, refuses : SUBSET Refusable,
            refusals : Seq(ParamNames), attempt : 0..(MaxRetries - 1)]

CallsTypeOK ==
    /\ provider \in Providers /\ kind \in Kinds
    /\ pc \in {"turn", "asking", "streaming", "waiting", "done", "failed"}
    /\ iteration \in 0..MaxIterations /\ spent \in Nat
    /\ finish \in {"none", "stop", "length"} /\ result \in {"none", "whole", "cut"}
    /\ request \in Request
    /\ said \in [text : Seq(Letters), calls : Seq(ModelCall)]
    /\ parse \in Parser /\ parse.events = <<>>
    /\ open \in Seq(OpenCall) /\ tools \in Seq(HandedCall)

\* Nothing has come before the answer begins.
Blank ==
    pc = "asking" =>
      /\ said = Nothing /\ parse = Fresh
      /\ open = <<>> /\ tools = <<>> /\ finish = "none"

\* Only streams stream; a structured completion has nothing to be refused.
Served ==
    /\ pc \in {"streaming", "waiting"} => kind = "stream"
    /\ kind = "structured" => request.params = {} /\ request.refusals = <<>>

\* Three refusals at most, the last of the effort.
LastIsEffort(refusals) ==
    /\ IsInjective(refusals)
    /\ refusals[Len(refusals)] = "reasoning_effort"

\* A parameter refused is not among those sent; of two the first was max_tokens,
\* or the call has failed.
Asked ==
    \/ request.refusals = <<>>
    \/ /\ pc = "asking"
       /\ \E p \in {"temperature", "max_tokens"} :
            request.refusals = <<p>> /\ p \notin request.params
    \/ /\ pc = "asking" /\ request.refusals = <<"max_tokens", "temperature">>
       /\ request.params \cap {"temperature", "max_tokens"} = {}
    \/ /\ pc = "failed"
       /\ \/ request.refusals = <<"temperature", "max_tokens">>
          \/ LastIsEffort(request.refusals)

\* The calls handed over and then those begun are the calls of the answer.  A
\* call has got what was sent of it, and Anthropic's are begun one by one.
Gathered ==
    /\ \A i \in DOMAIN tools : tools[i].call = i
    /\ pc = "streaming" /\ finish = "none" =>
         /\ Len(tools) + Len(open) = Len(said.calls)
         /\ \A i \in DOMAIN open :
              /\ open[i].call = Len(tools) + i
              /\ open[i].got = said.calls[open[i].call].sent
         /\ \A i \in DOMAIN tools : tools[i].args = "whole"
         /\ provider = "anthropic" => Len(open) <= 1
    /\ pc \in {"streaming", "waiting", "done"} /\ finish = "stop" =>
         /\ Len(tools) = Len(said.calls)
         /\ \A i \in DOMAIN tools : tools[i].args = "whole"
    /\ pc = "done" /\ kind = "structured" => result = "whole"

\* What the parser has put on each side, after the model's own reasoning if there
\* was any, and what it would read of its pending text, is what there is to read
\* in the text of the turn, whatever comes next; and it holds back less than a tag.
ReadSoFar ==
    pc = "streaming" =>
      /\ \E own \in {<<>>, <<"r">>}, th \in Seq(Letters) :
           /\ parse.reasoning = own \o th
           /\ \A w \in Seq(Letters) :
                Split[From(said.text \o w, FALSE)] =
                  Plus([content |-> parse.content, thoughts |-> th],
                       Split[From(parse.pending \o w, parse.inside)])
      /\ Len(parse.pending) < Len(Tag(parse.inside))

CallsInv ==
    /\ CallsTypeOK /\ Blank /\ Served /\ Asked /\ Gathered /\ ReadSoFar /\ SplitRight

-----------------------------------------------------------------------------
(* Pieces, chunks and the parser                                           *)

\* A further piece of a call leaves the other calls alone.
LEMMA PieceSent ==
    ASSUME NEW calls \in Seq(ModelCall), NEW k \in 1..Len(calls)
    PROVE  LET more == [calls EXCEPT ![k].sent = @ + 1]
           IN /\ more \in Seq(ModelCall) /\ Len(more) = Len(calls)
              /\ more[k].sent = calls[k].sent + 1
              /\ \A j \in 1..Len(calls) : j # k => more[j] = calls[j]
              /\ \A j \in 1..Len(calls) : more[j].pieces = calls[j].pieces
  <1> DEFINE c == [calls[k] EXCEPT !.sent = @ + 1]
             more == [calls EXCEPT ![k] = c]
  <1>1. calls[k] \in ModelCall
    BY ElementOfSeq
  <1>2. c \in ModelCall /\ c.sent = calls[k].sent + 1 /\ c.pieces = calls[k].pieces
    <2> DEFINE r == calls[k]
    <2>1. r \in ModelCall
      BY <1>1
    <2> HIDE DEF r
    <2>2. LET d == [r EXCEPT !.sent = @ + 1]
          IN d \in ModelCall /\ d.sent = r.sent + 1 /\ d.pieces = r.pieces
      BY <2>1, SMTT(30) DEF ModelCall
    <2> QED  BY <2>2 DEF r
  <1> HIDE DEF c
  <1>3. /\ more \in Seq(ModelCall) /\ Len(more) = Len(calls)
        /\ \A j \in 1..Len(calls) : more[j] = IF j = k THEN c ELSE calls[j]
    BY <1>2, ExceptSeq
  <1>4. more = [calls EXCEPT ![k].sent = @ + 1]
    BY DEF c
  <1> HIDE DEF more
  <1> QED  BY <1>2, <1>3, <1>4

\* So does a piece that is gathered.
LEMMA PieceGathered ==
    ASSUME NEW calls \in Seq(OpenCall), NEW k \in 1..Len(calls)
    PROVE  LET more == AddPiece(calls, k)
           IN /\ more \in Seq(OpenCall) /\ Len(more) = Len(calls)
              /\ more[k].got = calls[k].got + 1
              /\ \A j \in 1..Len(calls) : j # k => more[j] = calls[j]
              /\ \A j \in 1..Len(calls) : more[j].call = calls[j].call
  <1> DEFINE c == [calls[k] EXCEPT !.got = @ + 1]
             more == [calls EXCEPT ![k] = c]
  <1>1. calls[k] \in OpenCall
    BY ElementOfSeq
  <1>2. c \in OpenCall /\ c.got = calls[k].got + 1 /\ c.call = calls[k].call
    BY <1>1, SMTT(30) DEF OpenCall
  <1> HIDE DEF c
  <1>3. /\ more \in Seq(OpenCall) /\ Len(more) = Len(calls)
        /\ \A j \in 1..Len(calls) : more[j] = IF j = k THEN c ELSE calls[j]
    BY <1>2, ExceptSeq
  <1>4. more = AddPiece(calls, k)
    BY DEF c, AddPiece
  <1> HIDE DEF more
  <1> QED  BY <1>2, <1>3, <1>4

\* The calls that are handed over stand behind those that were, each with its
\* number.
LEMMA HandedOver ==
    ASSUME open \in Seq(OpenCall), tools \in Seq(HandedCall), HandOver
    PROVE  /\ tools' \in Seq(HandedCall) /\ open' = <<>>
           /\ Len(tools') = Len(tools) + Len(open)
           /\ \A i \in 1..Len(tools) : tools'[i] = tools[i]
           /\ \A i \in 1..Len(open) : tools'[Len(tools) + i] = Loads(open[i])
  <1> DEFINE l == Len(open)
             k == Len(tools)
             more == [i \in 1..l |-> Loads(open[i])]
  <1>1. l \in Nat /\ k \in Nat /\ DOMAIN open = 1..l
    BY LenProperties
  <1>2. \A i \in 1..l : Loads(open[i]) \in HandedCall
    <2> SUFFICES ASSUME NEW i \in 1..l
                 PROVE  Loads(open[i]) \in HandedCall
      OBVIOUS
    <2>1. open[i] \in OpenCall
      BY ElementOfSeq
    <2> QED  BY <2>1 DEF Loads, OpenCall, HandedCall
  <1>3. tools' = tools \o more /\ open' = <<>>
    BY <1>1 DEF HandOver
  <1>4. more \in Seq(HandedCall) /\ Len(more) = l
    BY <1>1, <1>2
  <1>5. \A i \in 1..l : more[i] = Loads(open[i])
    OBVIOUS
  <1> HIDE DEF more, l, k
  <1>6. /\ tools \o more \in Seq(HandedCall) /\ Len(tools \o more) = k + l
        /\ \A i \in 1..(k + l) : (tools \o more)[i] = IF i <= k THEN tools[i] ELSE more[i - k]
    <2> DEFINE S == HandedCall
    <2>1. tools \in Seq(S) /\ more \in Seq(S) /\ Len(more) = l /\ Len(tools) = k
      BY <1>4 DEF k
    <2> HIDE DEF S
    <2>2. /\ tools \o more \in Seq(S) /\ Len(tools \o more) = Len(tools) + Len(more)
          /\ \A i \in 1..(Len(tools) + Len(more)) :
               (tools \o more)[i] = IF i <= Len(tools) THEN tools[i] ELSE more[i - Len(tools)]
      BY <2>1, ConcatProperties
    <2> QED  BY <2>1, <2>2 DEF S
  <1> DEFINE both == tools \o more
  <1> HIDE DEF both
  <1>7. \A i \in 1..k : both[i] = tools[i]
    BY <1>1, <1>6 DEF both
  <1>8. \A i \in 1..l : both[k + i] = more[i]
    <2> SUFFICES ASSUME NEW i \in 1..l
                 PROVE  both[k + i] = more[i]
      OBVIOUS
    <2>1. k + i \in 1..(k + l) /\ ~(k + i <= k) /\ (k + i) - k = i
      BY <1>1
    <2> QED  BY <1>6, <2>1 DEF both
  <1> QED  BY <1>3, <1>5, <1>6, <1>7, <1>8 DEF both, l, k

\* A chunk of a bounded length is a text.
LEMMA ChunkFacts ==
    ASSUME NEW n \in Int, NEW chunk \in BoundedSeq(Letters, n)
    PROVE  chunk \in Seq(Letters)
  BY DEF BoundedSeq, SeqOf

\* What the parser makes of a chunk.
LEMMA TakeFacts ==
    ASSUME NEW p \in Parser, NEW chunk \in Seq(Letters)
    PROVE  LET q == Take(p, chunk)
           IN /\ q \in Parser
              /\ Len(q.pending) < Len(Tag(q.inside))
              /\ \E c, th \in Seq(Letters) :
                   /\ q.content = p.content \o c
                   /\ q.reasoning = p.reasoning \o th
                   /\ \A w \in Seq(Letters) :
                        Split[From(p.pending \o (chunk \o w), p.inside)] =
                          Plus([content |-> c, thoughts |-> th],
                               Split[From(q.pending \o w, q.inside)])
  <1> DEFINE first == [p EXCEPT !.pending = @ \o chunk]
             q == Scan[first]
  <1>1. p.pending \in Seq(Letters) /\ p.pending \o chunk \in Seq(Letters)
    BY ConcatProperties DEF Parser
  <1>2. /\ first \in Parser /\ first.pending = p.pending \o chunk /\ first.inside = p.inside
        /\ first.content = p.content /\ first.reasoning = p.reasoning
    BY <1>1 DEF Parser
  <1>3. Take(p, chunk) = q
    BY DEF Take
  <1>4. q \in Parser /\ Moves(first, q) /\ Len(q.pending) < Len(Tag(q.inside))
    <2> HIDE DEF first
    <2> QED  BY <1>2, ScanMoves
  <1> HIDE DEF first, q
  <1>5. PICK c \in Seq(Letters), th \in Seq(Letters) :
          /\ q.content = first.content \o c
          /\ q.reasoning = first.reasoning \o th
          /\ \A w \in Seq(Letters) :
               Split[From(first.pending \o w, first.inside)] =
                 Plus([content |-> c, thoughts |-> th], Split[From(q.pending \o w, q.inside)])
    BY <1>4 DEF Moves
  <1>6. ASSUME NEW w \in Seq(Letters)
        PROVE  (p.pending \o chunk) \o w = p.pending \o (chunk \o w)
    <2> DEFINE x == p.pending
    <2>1. x \in Seq(Letters)
      BY <1>1
    <2> HIDE DEF x
    <2>2. (x \o chunk) \o w = x \o (chunk \o w)
      BY <2>1, TextsAssociate
    <2> QED  BY <2>2 DEF x
  <1>7. q.content = p.content \o c /\ q.reasoning = p.reasoning \o th
    BY <1>2, <1>5
  <1>8. \A w \in Seq(Letters) :
          Split[From(p.pending \o (chunk \o w), p.inside)] =
            Plus([content |-> c, thoughts |-> th], Split[From(q.pending \o w, q.inside)])
    BY <1>2, <1>5, <1>6
  <1> QED  BY <1>3, <1>4, <1>7, <1>8

\* What the types say of the parts of the state.
LEMMA CallsTypeFacts ==
    ASSUME CallsTypeOK
    PROVE  /\ said.text \in Seq(Letters) /\ said.calls \in Seq(ModelCall)
           /\ request.params \in SUBSET ParamNames
           /\ request.refuses \in SUBSET Refusable
           /\ request.refusals \in Seq(ParamNames)
           /\ request.attempt \in 0..(MaxRetries - 1)
           /\ parse.pending \in Seq(Letters) /\ parse.inside \in BOOLEAN
           /\ parse.content \in Seq(Letters) /\ parse.reasoning \in Seq(Letters \cup {"r"})
           /\ parse.buffer \in Seq(Letters)
           /\ DOMAIN open = 1..Len(open) /\ DOMAIN tools = 1..Len(tools)
           /\ DOMAIN said.calls = 1..Len(said.calls)
           /\ Len(open) \in Nat /\ Len(tools) \in Nat /\ Len(said.calls) \in Nat
  <1>1. /\ said.text \in Seq(Letters) /\ said.calls \in Seq(ModelCall)
        /\ request.params \in SUBSET ParamNames
        /\ request.refuses \in SUBSET Refusable
        /\ request.refusals \in Seq(ParamNames)
        /\ request.attempt \in 0..(MaxRetries - 1)
    BY DEF CallsTypeOK, Request
  <1>2. /\ parse.pending \in Seq(Letters) /\ parse.inside \in BOOLEAN
        /\ parse.content \in Seq(Letters) /\ parse.reasoning \in Seq(Letters \cup {"r"})
        /\ parse.buffer \in Seq(Letters)
    BY DEF CallsTypeOK, Parser
  <1>3. open \in Seq(OpenCall) /\ tools \in Seq(HandedCall)
    BY DEF CallsTypeOK
  <1>4. \A S, s : s \in Seq(S) => DOMAIN s = 1..Len(s) /\ Len(s) \in Nat
    BY LenProperties
  <1> QED  BY <1>1, <1>2, <1>3, <1>4

\* A fresh turn, and nothing asked.
LEMMA FreshFacts ==
    /\ Fresh \in Parser /\ Fresh.events = <<>>
    /\ Nothing \in [text : Seq(Letters), calls : Seq(ModelCall)]
    /\ NoRequest \in Request /\ NoRequest.params = {} /\ NoRequest.refusals = <<>>
    /\ \A S : <<>> \in Seq(S)
  <1>1. \A S : <<>> \in Seq(S)
    BY EmptySeq
  <1>2. 0 \in 0..(MaxRetries - 1)
    BY CallsAssumption
  <1> QED  BY <1>1, <1>2 DEF Fresh, Parser, Nothing, NoRequest, Request

\* What the agent keeps of a parser once its events are sent.
LEMMA SentFacts ==
    ASSUME NEW p \in Parser
    PROVE  LET q == [p EXCEPT !.events = <<>>]
           IN /\ q \in Parser /\ q.events = <<>>
              /\ q.content = p.content /\ q.reasoning = p.reasoning
              /\ q.pending = p.pending /\ q.inside = p.inside
  BY EmptySeq DEF Parser

\* The end of the stream shows what was held back, on its side.
LEMMA FlushFacts ==
    ASSUME NEW p \in Parser
    PROVE  LET q == Flush(p)
           IN /\ q \in Parser /\ q.inside = p.inside /\ q.pending = <<>>
              /\ q.content = p.content \o Out(p.pending, ~p.inside)
              /\ q.reasoning =
                   p.reasoning \o Out(p.pending, p.inside) \o Out(p.buffer, p.inside)
  <1> DEFINE empty == [p EXCEPT !.pending = <<>>]
             shown == Emit(empty, p.pending)
             again == Emit(shown, p.buffer)
             done == [again EXCEPT !.buffer = <<>>]
  <1>1. p.pending \in Seq(Letters) /\ p.buffer \in Seq(Letters) /\ p.inside \in BOOLEAN
    BY DEF Parser
  <1>2. /\ empty \in Parser /\ empty.inside = p.inside /\ empty.pending = <<>>
        /\ empty.content = p.content /\ empty.reasoning = p.reasoning
    BY EmptySeq DEF Parser
  <1>3. /\ shown \in Parser /\ shown.inside = p.inside /\ shown.pending = <<>>
        /\ shown.content = p.content \o Out(p.pending, ~p.inside)
        /\ shown.reasoning = p.reasoning \o Out(p.pending, p.inside)
    <2> DEFINE w == p.pending
    <2>1. w \in Seq(Letters)
      BY <1>1
    <2> HIDE DEF empty, w
    <2>2. /\ Emit(empty, w) \in Parser /\ Emit(empty, w).inside = empty.inside
          /\ Emit(empty, w).pending = empty.pending
          /\ Emit(empty, w).content = empty.content \o Out(w, ~empty.inside)
          /\ Emit(empty, w).reasoning = empty.reasoning \o Out(w, empty.inside)
      BY <1>2, <2>1, EmitFacts
    <2> QED  BY <1>2, <2>2 DEF w
  <1>4. /\ again \in Parser /\ again.inside = p.inside /\ again.pending = <<>>
        /\ again.content = shown.content \o Out(p.buffer, ~p.inside)
        /\ again.reasoning = shown.reasoning \o Out(p.buffer, p.inside)
    <2> DEFINE w == p.buffer
    <2>1. w \in Seq(Letters)
      BY <1>1
    <2> HIDE DEF shown, w
    <2>2. /\ Emit(shown, w) \in Parser /\ Emit(shown, w).inside = shown.inside
          /\ Emit(shown, w).pending = shown.pending
          /\ Emit(shown, w).content = shown.content \o Out(w, ~shown.inside)
          /\ Emit(shown, w).reasoning = shown.reasoning \o Out(w, shown.inside)
      BY <1>3, <2>1, EmitFacts
    <2> QED  BY <1>3, <2>2 DEF w
  <1>5. ASSUME NEW r \in Parser
        PROVE  LET q == [r EXCEPT !.buffer = <<>>]
               IN /\ q \in Parser /\ q.content = r.content /\ q.reasoning = r.reasoning
                  /\ q.pending = r.pending /\ q.inside = r.inside
    BY EmptySeq DEF Parser
  <1>6. /\ done \in Parser /\ done.inside = p.inside /\ done.pending = <<>>
        /\ done.content = again.content /\ done.reasoning = again.reasoning
    <2> HIDE DEF again
    <2> QED  BY <1>4, <1>5
  <1>7. Flush(p) = IF p.inside THEN done ELSE shown
    BY DEF Flush
  <1> HIDE DEF done, again, shown, empty
  <1>8. CASE p.inside
    <2>1. again.content = shown.content
      <3>1. Out(p.buffer, ~p.inside) = <<>>
        BY <1>8 DEF Out
      <3>2. shown.content \in Seq(Letters)
        BY <1>3 DEF Parser
      <3> DEFINE x == shown.content
      <3> HIDE DEF x
      <3>3. x \o <<>> = x
        BY <3>2, ConcatEmptySeq DEF x
      <3> QED  BY <1>4, <3>1, <3>3 DEF x
    <2> QED  BY <1>3, <1>4, <1>6, <1>7, <1>8, <2>1
  <1>9. CASE ~p.inside
    <2>1. Out(p.buffer, p.inside) = <<>>
      BY <1>9 DEF Out
    <2>2. shown.reasoning \in Seq(Letters \cup {"r"})
      BY <1>3 DEF Parser
    <2> DEFINE x == shown.reasoning
    <2> HIDE DEF x
    <2>3. x \o <<>> = x
      <3> DEFINE L == Letters \cup {"r"}
      <3>1. x \in Seq(L)
        BY <2>2 DEF x
      <3> HIDE DEF L
      <3> QED  BY <3>1, ConcatEmptySeq
    <2> QED  BY <1>3, <1>7, <1>9, <2>1, <2>3 DEF x
  <1> QED  BY <1>8, <1>9

-----------------------------------------------------------------------------
(* Every step keeps the types                                              *)

\* The types hold at the beginning.
LEMMA CallsInitOK ==
    CallsInit => CallsInv
  <1> SUFFICES ASSUME CallsInit
               PROVE  CallsInv
    OBVIOUS
  <1>1. CallsTypeOK
    <2>1. 0 \in 0..MaxIterations
      BY CallsAssumption
    <2> QED  BY <2>1, FreshFacts DEF CallsInit, CallsTypeOK
  <1>2. Blank /\ Served /\ ReadSoFar /\ SplitRight
    BY FreshFacts DEF CallsInit, Blank, Served, ReadSoFar, SplitRight
  <1>3. Asked
    BY FreshFacts DEF CallsInit, Asked
  <1>4. Gathered
    BY DEF CallsInit, Gathered
  <1> QED  BY <1>1, <1>2, <1>3, <1>4 DEF CallsInv

\* A fresh turn and a call that gives up have their types.
LEMMA FreshTurnTypes ==
    ASSUME FreshTurn
    PROVE  /\ said' \in [text : Seq(Letters), calls : Seq(ModelCall)]
           /\ parse' \in Parser /\ parse'.events = <<>>
           /\ open' \in Seq(OpenCall) /\ tools' \in Seq(HandedCall) /\ finish' = "none"
  BY FreshFacts DEF FreshTurn

\* The requests have their types.
LEMMA RequestStep ==
    ASSUME CallsTypeOK, [CallsNext]_callsVars
    PROVE  request' \in Request
  <1> USE DEF CallsTypeOK
  <1>1. CASE Ask
    <2>1. CASE request' = NoRequest
      BY <2>1, FreshFacts
    <2>2. CASE \E series \in {"o1", "o3", "gpt"}, effort \in BOOLEAN :
                 \E no \in SUBSET (Refusable \cap Params(series, effort)) :
                   request' = [NoRequest EXCEPT !.params = Params(series, effort), !.refuses = no]
      <3>0. PICK series \in {"o1", "o3", "gpt"}, effort \in BOOLEAN :
              \E no \in SUBSET (Refusable \cap Params(series, effort)) :
                request' = [NoRequest EXCEPT !.params = Params(series, effort), !.refuses = no]
        BY <2>2
      <3>1. PICK no \in SUBSET (Refusable \cap Params(series, effort)) :
              request' = [NoRequest EXCEPT !.params = Params(series, effort), !.refuses = no]
        BY <3>0
      <3>2. Params(series, effort) \in SUBSET ParamNames
        BY DEF Params, ParamNames, Refusable
      <3>3. ASSUME NEW params \in SUBSET ParamNames, NEW r \in Request
            PROVE  [r EXCEPT !.params = params, !.refuses = no] \in Request
        BY DEF Request
      <3> QED  BY <3>1, <3>2, <3>3, FreshFacts
    <2> QED  BY <1>1, <2>1, <2>2 DEF Ask
  <1>2. CASE Refused
    <2>1. PICK p \in request.params \cap request.refuses :
            request' = [request EXCEPT !.params = Without(@, p), !.refusals = Append(@, p)]
      BY <1>2 DEF Refused
    <2>2. p \in ParamNames /\ Without(request.params, p) \in SUBSET ParamNames
      BY CallsTypeFacts DEF Without, ParamNames, Refusable
    <2>3. Append(request.refusals, p) \in Seq(ParamNames)
      BY <2>2, CallsTypeFacts, AppendProperties
    <2>4. ASSUME NEW params \in SUBSET ParamNames, NEW refusals \in Seq(ParamNames)
          PROVE  [request EXCEPT !.params = params, !.refusals = refusals] \in Request
      BY DEF Request
    <2> QED  BY <2>1, <2>2, <2>3, <2>4
  <1>3. CASE StructuredArrives \/ Again
    <2>1. \/ \E n \in 0..(MaxRetries - 1) : request' = [request EXCEPT !.attempt = n]
      <3>1. request.attempt \in 0..(MaxRetries - 1) /\ MaxRetries \in Nat \ {0}
        BY CallsTypeFacts, CallsAssumption
      <3>2. CASE StructuredArrives
        <4>1. CASE pc' = "asking"
          <5>1. request.attempt < MaxRetries - 1
            BY <3>2, <4>1 DEF StructuredArrives, Structured
          <5>2. request.attempt + 1 \in 0..(MaxRetries - 1)
            BY <3>1, <5>1
          <5> QED  BY <3>2, <4>1, <5>2 DEF StructuredArrives
        <4>2. CASE pc' # "asking"
          <5>1. 0 \in 0..(MaxRetries - 1)
            BY <3>1
          <5> QED  BY <3>2, <4>2, <5>1 DEF StructuredArrives
        <4> QED  BY <4>1, <4>2
      <3>3. CASE Again
        <4>1. request.attempt + 1 \in 0..(MaxRetries - 1)
          BY <3>1, <3>3 DEF Again
        <4> QED  BY <3>3, <4>1 DEF Again
      <3> QED  BY <1>3, <3>2, <3>3
    <2>2. ASSUME NEW n \in 0..(MaxRetries - 1)
          PROVE  [request EXCEPT !.attempt = n] \in Request
      BY DEF Request
    <2> QED  BY <2>1, <2>2
  <1>4. CASE GivesUp
    BY <1>4, FreshFacts DEF GivesUp
  <1>5. CASE Completes \/ Begins
    BY <1>5, FreshFacts DEF Completes, Begins
  <1>6. CASE UNCHANGED request
    BY <1>6
  <1> QED
    BY <1>1, <1>2, <1>3, <1>4, <1>5, <1>6
       DEF CallsNext, callsVars, OutOfTurns, StructuredFails, RequestFails, StreamFails, Reasons,
           TextArrives, CallBegins, PieceArrives, BlockStops, Finishes, Final, UserAnswers,
           ResultArrives, EndsEarly, Ended

\* What the model has said, and the calls, have their types.
LEMMA AnswerStep ==
    ASSUME CallsTypeOK, [CallsNext]_callsVars
    PROVE  /\ said' \in [text : Seq(Letters), calls : Seq(ModelCall)]
           /\ parse' \in Parser /\ parse'.events = <<>>
           /\ open' \in Seq(OpenCall) /\ tools' \in Seq(HandedCall)
  <1> DEFINE Same == UNCHANGED <<said, parse, open, tools>>
             SaidOK(s) == s \in [text : Seq(Letters), calls : Seq(ModelCall)]
  <1>1. CASE Same
    BY <1>1 DEF CallsTypeOK
  <1>2. CASE FreshTurn
    BY <1>2, FreshTurnTypes
  <1>3. ASSUME NEW s, SaidOK(s), NEW text \in Seq(Letters)
        PROVE  SaidOK([s EXCEPT !.text = text])
    BY <1>3
  <1>4. ASSUME NEW s, SaidOK(s), NEW calls \in Seq(ModelCall)
        PROVE  SaidOK([s EXCEPT !.calls = calls])
    BY <1>4
  <1>5. SaidOK(said) /\ SaidOK(Nothing)
    BY FreshFacts DEF CallsTypeOK
  <1>6. CASE Completes
    <2>1. PICK n \in 0..2, name \in Tools :
            /\ said' = [Nothing EXCEPT !.calls =
                          [i \in 1..n |-> [name |-> name, pieces |-> 0, sent |-> 0]]]
            /\ tools' = Complete(said'.calls)
      BY <1>6 DEF Completes
    <2> DEFINE calls == [i \in 1..n |-> [name |-> name, pieces |-> 0, sent |-> 0]]
    <2>2. calls \in Seq(ModelCall) /\ Len(calls) = n /\ DOMAIN calls = 1..n /\ n \in Nat
      BY DEF ModelCall
    <2>3. said'.calls = calls
      BY <2>1 DEF Nothing
    <2>4. tools' = [i \in 1..n |-> [call |-> i, args |-> "whole"]]
      BY <2>1, <2>2, <2>3 DEF Complete
    <2>5. tools' \in Seq(HandedCall)
      BY <2>2, <2>4 DEF HandedCall
    <2> HIDE DEF calls, SaidOK
    <2>6. SaidOK(said')
      BY <1>4, <1>5, <2>1, <2>2 DEF calls
    <2> QED  BY <1>6, <2>5, <2>6 DEF Completes, CallsTypeOK, SaidOK
  <1>7. CASE Reasons
    <2>1. parse' = [[parse EXCEPT !.reasoning = <<"r">>] EXCEPT !.events = <<>>]
      BY <1>7 DEF Reasons, Sends
    <2>2. [parse EXCEPT !.reasoning = <<"r">>] \in Parser
      <3>1. <<"r">> \in Seq(Letters \cup {"r"})
        OBVIOUS
      <3>2. ASSUME NEW p \in Parser, NEW s \in Seq(Letters \cup {"r"})
            PROVE  [p EXCEPT !.reasoning = s] \in Parser
        BY DEF Parser
      <3> QED  BY <3>1, <3>2 DEF CallsTypeOK
    <2>3. parse' \in Parser /\ parse'.events = <<>>
      BY <2>1, <2>2, SentFacts
    <2> QED  BY <1>7, <2>3 DEF Reasons, CallsTypeOK
  <1>8. CASE TextArrives
    <2>1. PICK chunk \in BoundedSeq(Letters, MaxText - spent) :
            /\ said' = [said EXCEPT !.text = @ \o chunk]
            /\ parse' = [Take(parse, chunk) EXCEPT !.events = <<>>]
      BY <1>8 DEF TextArrives, Sends
    <2>2. chunk \in Seq(Letters)
      <3>1. MaxText - spent \in Int
        BY CallsAssumption DEF CallsTypeOK
      <3> QED  BY <3>1, ChunkFacts
    <2>3. Take(parse, chunk) \in Parser
      BY <2>2, TakeFacts DEF CallsTypeOK
    <2>4. parse' \in Parser /\ parse'.events = <<>>
      BY <2>1, <2>3, SentFacts
    <2>5. said.text \o chunk \in Seq(Letters)
      BY <2>2, CallsTypeFacts, ConcatProperties
    <2> HIDE DEF SaidOK
    <2>6. SaidOK(said')
      BY <1>3, <1>5, <2>1, <2>5
    <2> QED  BY <1>8, <2>4, <2>6 DEF TextArrives, CallsTypeOK, SaidOK
  <1>9. CASE CallBegins
    <2>1. PICK name \in Tools, n \in 0..MaxPieces :
            said' = [said EXCEPT !.calls = Append(@, [name |-> name, pieces |-> n, sent |-> 0])]
      BY <1>9 DEF CallBegins
    <2> DEFINE call == [name |-> name, pieces |-> n, sent |-> 0]
               more == Append(said.calls, call)
    <2>2. call \in ModelCall
      BY CallsAssumption DEF ModelCall
    <2> HIDE DEF call
    <2>3. more \in Seq(ModelCall) /\ Len(more) \in Nat
      BY <2>2, CallsTypeFacts, AppendProperties
    <2>4. SaidOK(said') /\ said'.calls = more
      BY <2>1, <2>3, CallsTypeFacts DEF CallsTypeOK, call
    <2> HIDE DEF more, SaidOK
    <2>5. open' \in Seq(OpenCall)
      <3>1. [call |-> Len(said'.calls), got |-> 0] \in OpenCall
        BY <2>3, <2>4 DEF OpenCall
      <3> QED  BY <1>9, <3>1, AppendProperties DEF CallBegins, CallsTypeOK
    <2> QED  BY <1>9, <2>4, <2>5 DEF CallBegins, CallsTypeOK, SaidOK
  <1>10. CASE PieceArrives
    <2>1. PICK i \in 1..Len(open) :
            /\ said' = [said EXCEPT !.calls[open[i].call].sent = @ + 1]
            /\ open' = AddPiece(open, i)
      BY <1>10, CallsTypeFacts DEF PieceArrives
    <2>2. open' \in Seq(OpenCall)
      BY <2>1, PieceGathered DEF CallsTypeOK
    <2> DEFINE k == open[i].call
               more == [said.calls EXCEPT ![k].sent = @ + 1]
    <2> HIDE DEF k
    <2>3. more \in Seq(ModelCall)
      <3>1. CASE k \in 1..Len(said.calls)
        <4> DEFINE calls == said.calls
        <4>1. calls \in Seq(ModelCall)
          BY CallsTypeFacts
        <4> HIDE DEF calls
        <4>2. [calls EXCEPT ![k].sent = @ + 1] \in Seq(ModelCall)
          BY <3>1, <4>1, PieceSent DEF calls
        <4> QED  BY <4>2 DEF calls
      <3>2. CASE k \notin 1..Len(said.calls)
        <4>1. more = said.calls
          BY <3>2, CallsTypeFacts, SMTT(30)
        <4> QED  BY <4>1, CallsTypeFacts
      <3> QED  BY <3>1, <3>2
    <2>4. said' = [said EXCEPT !.calls = more]
      BY <2>1 DEF k
    <2> HIDE DEF more, SaidOK
    <2>5. SaidOK(said')
      BY <1>4, <1>5, <2>3, <2>4
    <2> QED  BY <1>10, <2>2, <2>5 DEF PieceArrives, CallsTypeOK, SaidOK
  <1>11. CASE BlockStops \/ Finishes
    <2>1. HandOver /\ UNCHANGED <<said, parse>>
      BY <1>11 DEF BlockStops, Finishes
    <2> QED  BY <2>1, HandedOver, FreshFacts DEF CallsTypeOK
  <1>12. CASE Final
    <2>1. parse' = [Flush(parse) EXCEPT !.events = <<>>]
      BY <1>12 DEF Final, Sends
    <2>2. parse' \in Parser /\ parse'.events = <<>>
      BY <2>1, FlushFacts, SentFacts DEF CallsTypeOK
    <2> QED  BY <1>12, <2>2, FreshFacts DEF Final, CallsTypeOK
  <1> QED
    BY <1>1, <1>2, <1>6, <1>7, <1>8, <1>9, <1>10, <1>11, <1>12
       DEF CallsNext, callsVars, turn, Ask, OutOfTurns, Refused, StructuredArrives, StructuredFails,
           Again, GivesUp, RequestFails, StreamFails, Begins, UserAnswers, ResultArrives, EndsEarly,
           Ended

\* Every step keeps the types.
LEMMA CallsTypeStep ==
    ASSUME CallsTypeOK, [CallsNext]_callsVars
    PROVE  CallsTypeOK'
  <1> USE DEF CallsTypeOK
  <1>1. /\ provider' \in Providers /\ kind' \in Kinds
        /\ pc' \in {"turn", "asking", "streaming", "waiting", "done", "failed"}
    <2>1. CASE StructuredArrives
      BY <2>1 DEF StructuredArrives, Structured
    <2>2. CASE ~StructuredArrives
      BY <2>2
         DEF CallsNext, callsVars, rest, Ask, OutOfTurns, Refused, Completes, StructuredFails,
             Again, 
             GivesUp, RequestFails, StreamFails, Begins, Reasons, TextArrives, CallBegins,
             PieceArrives, BlockStops, Finishes, Final, UserAnswers, ResultArrives, EndsEarly, Ended
    <2> QED  BY <2>1, <2>2
  <1>2. iteration' \in 0..MaxIterations
    <2>1. CASE Ask
      <3>1. iteration' = iteration + 1 /\ iteration < MaxIterations
        BY <2>1 DEF Ask
      <3>2. MaxIterations \in Nat
        BY CallsAssumption
      <3> QED  BY <3>1, <3>2
    <2>2. CASE UNCHANGED iteration
      BY <2>2
    <2> QED
      BY <2>1, <2>2
         DEF CallsNext, callsVars, rest, OutOfTurns, Refused, Completes, StructuredArrives,
             StructuredFails, RequestFails, StreamFails, Begins, Reasons, TextArrives, CallBegins,
             PieceArrives, BlockStops, Finishes, Final, UserAnswers, ResultArrives, EndsEarly, Ended
  <1>3. spent' \in Nat
    <2>1. CASE TextArrives
      <3>1. PICK chunk \in BoundedSeq(Letters, MaxText - spent) : spent' = spent + Len(chunk)
        BY <2>1 DEF TextArrives
      <3>2. MaxText - spent \in Int
        BY CallsAssumption
      <3>3. Len(chunk) \in Nat
        BY <3>2, ChunkFacts
      <3> QED  BY <3>1, <3>3
    <2>2. CASE CallBegins
      BY <2>2 DEF CallBegins
    <2>3. CASE UNCHANGED spent
      BY <2>3
    <2> QED
      BY <2>1, <2>2, <2>3
         DEF CallsNext, callsVars, Ask, OutOfTurns, Refused, Completes, StructuredArrives,
             StructuredFails, RequestFails, StreamFails, Begins, Reasons, PieceArrives, BlockStops,
             Finishes, Final, UserAnswers, ResultArrives, EndsEarly, Ended
  <1>4. finish' \in {"none", "stop", "length"} /\ result' \in {"none", "whole", "cut"}
    BY DEF CallsNext, callsVars, rest, turn, FreshTurn, Ask, OutOfTurns, Refused, Completes,
           StructuredArrives, StructuredFails, Again, GivesUp, RequestFails, StreamFails, Begins,
           Reasons, TextArrives, CallBegins, PieceArrives, BlockStops, Finishes, Final, UserAnswers,
           ResultArrives, EndsEarly, Ended
  <1> QED  BY <1>1, <1>2, <1>3, <1>4, RequestStep, AnswerStep

-----------------------------------------------------------------------------
(* What is asked, and the calls gathered                                   *)

\* While the model is asked there is nothing of its answer.
LEMMA BlankStep ==
    ASSUME CallsInv, [CallsNext]_callsVars
    PROVE  Blank'
  <1> USE DEF Blank
  <1>1. CASE Ask
    BY <1>1 DEF Ask, FreshTurn
  <1>2. CASE Refused \/ StructuredArrives
    BY <1>2 DEF CallsInv, Refused, StructuredArrives, turn
  <1>3. CASE StructuredFails
    BY <1>3 DEF CallsInv, StructuredFails, Again, GivesUp, turn
  <1>4. CASE pc' # "asking"
    BY <1>4
  <1>5. CASE UNCHANGED callsVars
    BY <1>5 DEF CallsInv, callsVars, turn
  <1> QED
    BY <1>1, <1>2, <1>3, <1>4, <1>5
       DEF CallsNext, OutOfTurns, Completes, GivesUp, RequestFails, StreamFails, Begins, Reasons,
           Streaming, TextArrives, CallBegins, PieceArrives, BlockStops, Finishes, Final,
           UserAnswers, ResultArrives, EndsEarly, Ended

\* Every call is served by the right request.
LEMMA ServedStep ==
    ASSUME CallsInv, [CallsNext]_callsVars
    PROVE  Served'
  <1> USE DEF Served
  <1>1. /\ CallsTypeOK /\ kind' = kind
        /\ pc \in {"streaming", "waiting"} => kind = "stream"
        /\ kind = "structured" => request.params = {} /\ request.refusals = <<>>
    BY DEF CallsInv, CallsNext, callsVars, rest, Ask, OutOfTurns, Refused, Completes,
           StructuredArrives, StructuredFails, RequestFails, StreamFails, Begins, Reasons,
           TextArrives, CallBegins, PieceArrives, BlockStops, Finishes, Final, UserAnswers,
           ResultArrives, EndsEarly, Ended
  <1>2. pc' \in {"streaming", "waiting"} => kind' = "stream"
    <2>1. CASE StructuredArrives
      BY <2>1 DEF StructuredArrives, Structured
    <2>2. CASE ~StructuredArrives
      BY <1>1, <2>2
         DEF CallsNext, callsVars, Ask, OutOfTurns, Refused, Completes, StructuredFails, Again,
             GivesUp, RequestFails, StreamFails, Begins, Reasons, TextArrives, CallBegins, Streaming,
             PieceArrives, BlockStops, Finishes, Final, UserAnswers, ResultArrives, EndsEarly, Ended
    <2> QED  BY <2>1, <2>2
  <1>3. ASSUME kind = "structured"
        PROVE  request'.params = {} /\ request'.refusals = <<>>
    <2>1. CASE StructuredArrives
      <3>1. PICK n : request' = [request EXCEPT !.attempt = n]
        BY <2>1 DEF StructuredArrives
      <3> QED  BY <1>1, <1>3, <3>1 DEF CallsTypeOK, Request
    <2>2. CASE StructuredFails
      <3>1. CASE Again
        BY <1>1, <1>3, <3>1 DEF Again, CallsTypeOK, Request
      <3>2. CASE GivesUp
        BY <3>2, FreshFacts DEF GivesUp
      <3> QED  BY <2>2, <3>1, <3>2 DEF StructuredFails
    <2>3. CASE request' = NoRequest
      BY <2>3, FreshFacts
    <2>4. CASE UNCHANGED request
      BY <1>1, <1>3, <2>4
    <2> QED
      BY <1>1, <1>3, <2>1, <2>2, <2>3, <2>4
         DEF CallsNext, callsVars, Ask, OutOfTurns, Refused, Completes, GivesUp, RequestFails,
             StreamFails, Begins, Reasons, TextArrives, CallBegins, Streaming, PieceArrives,
             BlockStops, Finishes, Final, UserAnswers, ResultArrives, EndsEarly, Ended
  <1> QED  BY <1>1, <1>2, <1>3

\* Two one after the other.
LEMMA AppendPair ==
    ASSUME NEW a, NEW b
    PROVE  Append(<<a>>, b) = <<a, b>>
  <1> DEFINE S == {a, b}
             one == <<a>>
             two == <<a, b>>
  <1>1. one \in Seq(S) /\ Len(one) = 1 /\ one[1] = a /\ b \in S
    OBVIOUS
  <1>2. two \in Seq(S) /\ Len(two) = 2 /\ two[1] = a /\ two[2] = b
    OBVIOUS
  <1> HIDE DEF S, one, two
  <1>3. /\ Append(one, b) \in Seq(S) /\ Len(Append(one, b)) = 2
        /\ Append(one, b)[1] = a /\ Append(one, b)[2] = b
    <2>1. one \in Seq(S) /\ b \in S
      BY <1>1
    <2>2. /\ Append(one, b) \in Seq(S) /\ Len(Append(one, b)) = Len(one) + 1
          /\ \A i \in 1..Len(one) : Append(one, b)[i] = one[i]
          /\ Append(one, b)[Len(one) + 1] = b
      BY ONLY <2>1, AppendProperties
    <2>3. 1 \in 1..Len(one) /\ Len(one) + 1 = 2
      BY <1>1
    <2> QED  BY <1>1, <2>2, <2>3
  <1>4. Append(one, b) = two
    <2>1. \A i \in 1..2 : i = 1 \/ i = 2
      OBVIOUS
    <2>2. \A i \in 1..2 : Append(one, b)[i] = two[i]
      BY <1>2, <1>3, <2>1
    <2> QED  BY <1>2, <1>3, <2>2, SeqEqual
  <1> QED  BY <1>4 DEF one, two

\* No parameter is refused twice.
LEMMA AskedInjective ==
    ASSUME Asked
    PROVE  IsInjective(request.refusals)
  <1> DEFINE r == request.refusals
  <1>1. CASE r = <<>>
    BY <1>1 DEF IsInjective
  <1>2. CASE \E p \in {"temperature", "max_tokens"} : r = <<p>>
    BY <1>2 DEF IsInjective
  <1>3. CASE r = <<"max_tokens", "temperature">>
    BY <1>3 DEF IsInjective
  <1>4. CASE r = <<"temperature", "max_tokens">>
    BY <1>4 DEF IsInjective
  <1>5. CASE LastIsEffort(r)
    BY <1>5 DEF LastIsEffort
  <1> QED  BY <1>1, <1>2, <1>3, <1>4, <1>5 DEF Asked

\* Refusals are settled one after the other.
LEMMA AskedStep ==
    ASSUME CallsInv, [CallsNext]_callsVars
    PROVE  Asked'
  <1>1. CallsTypeOK /\ Asked /\ Served
    BY DEF CallsInv
  <1>2. CASE Refused
    <2> DEFINE params == request.params
               refusals == request.refusals
    <2>1. PICK p \in params \cap request.refuses :
            /\ request' = [request EXCEPT !.params = Without(@, p), !.refusals = Append(@, p)]
            /\ IF Settles(refusals, p) THEN pc' = "asking" ELSE pc' = "failed"
      BY <1>2 DEF Refused
    <2>2. /\ request'.params = Without(params, p) /\ request'.refusals = Append(refusals, p)
          /\ p \in Refusable /\ params \in SUBSET ParamNames
          /\ refusals \in Seq(ParamNames)
      BY <1>1, <2>1, CallsTypeFacts DEF CallsTypeOK, Request
    <2>3. p \notin Without(params, p) /\ \A q : q # p /\ q \notin params
            /\ q # "max_completion_tokens" => q \notin Without(params, p)
      BY <2>2 DEF Without
    <2>4. CASE refusals = <<>> /\ p # "reasoning_effort"
      <3>1. Append(refusals, p) = <<p>> /\ Settles(refusals, p)
        BY <2>4 DEF Settles
      <3>2. p \in {"temperature", "max_tokens"}
        BY <2>2, <2>4 DEF Refusable
      <3> QED  BY <2>1, <2>2, <2>3, <3>1, <3>2 DEF Asked
    <2>5. CASE /\ \E q \in {"temperature", "max_tokens"} : refusals = <<q>> /\ q \notin params
               /\ p # "reasoning_effort"
      <3>1. PICK q \in {"temperature", "max_tokens"} : refusals = <<q>> /\ q \notin params
        BY <2>5
      <3>2. q # p /\ Append(refusals, p) = <<q, p>>
        <4>1. q # p
          BY <3>1
        <4>2. Append(<<q>>, p) = <<q, p>>
          BY ONLY AppendPair
        <4> QED  BY <3>1, <4>1, <4>2
      <3>3. CASE p = "temperature"
        <4>1. Settles(refusals, p) /\ q = "max_tokens"
          BY <3>1, <3>2, <3>3 DEF Settles
        <4>2. Without(params, p) \cap {"temperature", "max_tokens"} = {}
          BY <2>3, <3>1, <3>3, <4>1
        <4> QED  BY <2>1, <2>2, <3>2, <3>3, <4>1, <4>2 DEF Asked
      <3>4. CASE p = "max_tokens"
        <4>1. q = "temperature" /\ refusals # <<>>
          BY <3>1, <3>2, <3>4
        <4>2. ~Settles(refusals, p)
          BY <3>4, <4>1 DEF Settles
        <4> QED  BY <2>1, <2>2, <3>2, <3>4, <4>1, <4>2 DEF Asked
      <3> QED  BY <2>2, <2>5, <3>3, <3>4 DEF Refusable
    <2>6. CASE /\ params \cap {"temperature", "max_tokens"} = {}
               /\ p # "reasoning_effort"
      BY <2>1, <2>2, <2>6 DEF Refusable
    <2>7. CASE p = "reasoning_effort"
      <3>1. ~Settles(refusals, p)
        BY <2>7 DEF Settles
      <3>2. IsInjective(refusals)
        BY <1>1, <1>2, AskedInjective DEF Refused
      <3>3. \A i \in DOMAIN refusals : refusals[i] # p
        <4>1. \A q \in {"temperature", "max_tokens"} : \A i \in DOMAIN <<q>> : <<q>>[i] # p
          BY <2>7
        <4>2. \A i \in DOMAIN <<"max_tokens", "temperature">> :
                <<"max_tokens", "temperature">>[i] # p
          BY <2>7
        <4> QED  BY <1>1, <1>2, <4>1, <4>2 DEF Asked, Refused
      <3>4. LastIsEffort(Append(refusals, p))
        BY <2>2, <2>7, <3>2, <3>3, AppendProperties DEF LastIsEffort, IsInjective, ParamNames
      <3> QED  BY <2>1, <2>2, <3>1, <3>4 DEF Asked
    <2> QED  BY <1>1, <1>2, <2>4, <2>5, <2>6, <2>7 DEF Asked, Refused
  <1>3. CASE request'.refusals = <<>>
    BY <1>3 DEF Asked
  <1>4. CASE StructuredArrives \/ StructuredFails
    <2>1. kind' = "structured"
      BY <1>4 DEF StructuredArrives, StructuredFails, rest, Again, GivesUp
    <2> QED  BY <2>1, ServedStep DEF Served, Asked
  <1>5. CASE UNCHANGED <<pc, request>>
    BY <1>1, <1>5 DEF Asked
  <1>6. CASE request' = NoRequest
    BY <1>3, <1>6, FreshFacts
  <1>7. CASE Ask
    <2>1. \/ request' = NoRequest
          \/ \E a, b : request' = [NoRequest EXCEPT !.params = a, !.refuses = b]
      BY <1>7 DEF Ask
    <2>2. ASSUME NEW a, NEW b
          PROVE  [NoRequest EXCEPT !.params = a, !.refuses = b].refusals = <<>>
      BY DEF NoRequest
    <2>3. request'.refusals = <<>>
      BY <2>1, <2>2, FreshFacts
    <2> QED  BY <1>3, <2>3
  <1>8. CASE pc # "asking" /\ pc # "failed" /\ UNCHANGED request
    BY <1>1, <1>3, <1>8 DEF Asked
  <1> QED
    BY <1>2, <1>4, <1>5, <1>6, <1>7, <1>8
       DEF CallsNext, callsVars, OutOfTurns, Completes, GivesUp, RequestFails, StreamFails, Begins,
           Reasons, TextArrives, CallBegins, Streaming, PieceArrives, BlockStops, Finishes, Final,
           UserAnswers, ResultArrives, EndsEarly, Ended

\* The calls stay gathered.
LEMMA GatheredStep ==
    ASSUME CallsInv, [CallsNext]_callsVars
    PROVE  Gathered'
  <1>1. CallsTypeOK /\ CallsTypeOK' /\ Gathered /\ Served /\ Blank
    BY CallsTypeStep DEF CallsInv
  <1> DEFINE Numbered == \A i \in DOMAIN tools : tools[i].call = i
             Whole == \A i \in DOMAIN tools : tools[i].args = "whole"
             All == Len(tools) = Len(said.calls)
             Lined == Len(tools) + Len(open) = Len(said.calls)
             Begun == \A i \in DOMAIN open :
                        /\ open[i].call = Len(tools) + i
                        /\ open[i].got = said.calls[open[i].call].sent
             Single == provider = "anthropic" => Len(open) <= 1
             Calls ==
               /\ Numbered
               /\ pc = "streaming" /\ finish = "none" => Lined /\ Begun /\ Whole /\ Single
               /\ pc \in {"streaming", "waiting", "done"} /\ finish = "stop" => All /\ Whole
             Result == pc = "done" /\ kind = "structured" => result = "whole"
  <1>2. Calls /\ Result
    BY <1>1 DEF Gathered
  <1>3. Result'
    <2>1. CASE StructuredArrives
      BY <2>1 DEF StructuredArrives, Structured
    <2>2. CASE Completes
      BY <2>2 DEF Completes, rest
    <2>3. CASE Final
      BY <1>1, <2>3 DEF Final, Served, rest
    <2>4. CASE pc' # "done"
      BY <2>4
    <2>5. CASE UNCHANGED callsVars
      BY <1>2, <2>5 DEF callsVars, rest
    <2> QED
      BY <2>1, <2>2, <2>3, <2>4, <2>5
         DEF CallsNext, Ask, OutOfTurns, Refused, StructuredFails, Again, GivesUp, RequestFails,
             StreamFails, Begins, Reasons, TextArrives, CallBegins, Streaming, PieceArrives,
             BlockStops, Finishes, UserAnswers, ResultArrives, EndsEarly, Ended
  <1>4. /\ open \in Seq(OpenCall) /\ tools \in Seq(HandedCall) /\ said.calls \in Seq(ModelCall)
        /\ DOMAIN open = 1..Len(open) /\ DOMAIN tools = 1..Len(tools)
        /\ Len(open) \in Nat /\ Len(tools) \in Nat /\ Len(said.calls) \in Nat
    BY <1>1, CallsTypeFacts DEF CallsTypeOK
  <1>5. /\ DOMAIN open' = 1..Len(open') /\ DOMAIN tools' = 1..Len(tools')
        /\ Len(open') \in Nat /\ Len(tools') \in Nat /\ Len(said'.calls) \in Nat
    <2>1. /\ said'.calls \in Seq(ModelCall) /\ open' \in Seq(OpenCall)
          /\ tools' \in Seq(HandedCall)
      BY <1>1 DEF CallsTypeOK
    <2>2. \A S, s : s \in Seq(S) => DOMAIN s = 1..Len(s) /\ Len(s) \in Nat
      BY LenProperties
    <2> QED  BY <2>1, <2>2
  <1>6. Calls'
    <2>1. CASE /\ UNCHANGED turn
               /\ \/ Begins \/ StructuredArrives
                  \/ UNCHANGED <<pc, provider>>
                  \/ pc' \notin {"streaming", "waiting", "done"}
      <3>1. CASE Begins
        BY <1>1, <2>1, <3>1 DEF Begins, Accepts, Blank, turn, Nothing
      <3>2. CASE UNCHANGED <<pc, provider>>
        BY <1>2, <2>1, <3>2 DEF turn
      <3>3. CASE pc' \notin {"streaming", "waiting", "done"}
        BY <1>2, <2>1, <3>3 DEF turn
      <3>4. CASE StructuredArrives
        BY <1>1, <1>2, <2>1, <3>4 DEF StructuredArrives, Structured, Blank, turn
      <3> QED  BY <2>1, <3>1, <3>2, <3>3, <3>4
    <2>2. CASE FreshTurn /\ pc' \notin {"streaming", "waiting", "done"}
      BY <2>2 DEF FreshTurn
    <2>3. CASE Completes
      <3> DEFINE l == Len(said'.calls)
      <3>1. /\ tools' = [i \in DOMAIN said'.calls |-> [call |-> i, args |-> "whole"]]
            /\ pc' = "done" /\ finish' = "stop"
        BY <2>3 DEF Completes, Complete
      <3>2. DOMAIN said'.calls = 1..l /\ l \in Nat
        BY <1>1, LenProperties DEF CallsTypeOK
      <3> HIDE DEF l
      <3>3. tools' = [i \in 1..l |-> [call |-> i, args |-> "whole"]]
        BY <3>1, <3>2
      <3>4. Len(tools') = l /\ Numbered' /\ Whole'
        BY <3>2, <3>3
      <3> QED  BY <3>1, <3>4 DEF l
    <2>4. CASE /\ UNCHANGED <<pc, provider, open, tools, finish>> /\ said'.calls = said.calls
      BY <1>2, <2>4
    <2>5. CASE CallBegins
      <3>1. PICK c \in ModelCall :
              /\ c.sent = 0
              /\ said' = [said EXCEPT !.calls = Append(@, c)]
              /\ open' = Append(open, [call |-> Len(said'.calls), got |-> 0])
        <4>1. \A name \in Tools, n \in 0..MaxPieces :
                LET c == [name |-> name, pieces |-> n, sent |-> 0]
                IN c \in ModelCall /\ c.sent = 0
          BY CallsAssumption DEF ModelCall
        <4>2. PICK name \in Tools, n \in 0..MaxPieces :
                said' = [said EXCEPT !.calls =
                           Append(@, [name |-> name, pieces |-> n, sent |-> 0])]
          BY <2>5 DEF CallBegins
        <4> QED  BY <2>5, <4>1, <4>2 DEF CallBegins
      <3> DEFINE calls == said.calls
                 k == Len(calls)
                 l == Len(open)
                 m == Len(tools)
                 o == [call |-> k + 1, got |-> 0]
      <3>2. said'.calls = Append(calls, c)
        BY <1>1, <3>1 DEF CallsTypeOK
      <3>3. calls \in Seq(ModelCall) /\ k \in Nat /\ l \in Nat /\ m \in Nat
        BY <1>4
      <3>4. UNCHANGED <<pc, provider, tools, finish>> /\ pc = "streaming" /\ finish = "none"
        BY <2>5 DEF CallBegins, rest, Streaming
      <3>5. Numbered /\ Lined /\ Begun /\ Whole
        BY <1>2, <3>4
      <3> HIDE DEF calls
      <3>6. /\ Len(said'.calls) = k + 1 /\ said'.calls[k + 1] = c
            /\ \A j \in 1..k : said'.calls[j] = calls[j]
        BY <3>1, <3>2, <3>3, AppendProperties
      <3>7. open' = Append(open, o) /\ o \in OpenCall
        BY <3>1, <3>3, <3>6 DEF OpenCall
      <3>8. o.call = k + 1 /\ o.got = 0
        OBVIOUS
      <3> HIDE DEF o
      <3>9. /\ Len(open') = l + 1 /\ open'[l + 1] = o
            /\ \A j \in 1..l : open'[j] = open[j]
        BY <1>4, <3>7, AppendProperties
      <3>10. m + l = k
        BY <3>5 DEF calls
      <3>11. \A j \in 1..l : open[j].call = m + j /\ open[j].got = calls[m + j].sent
        BY <1>4, <3>5 DEF calls
      <3>12. DOMAIN open' = 1..(l + 1)
        BY <1>5, <3>9
      <3> HIDE DEF k, l, m
      <3>13. Begun'
        <4> SUFFICES ASSUME NEW j \in 1..(l + 1)
                     PROVE  open'[j].call = m + j /\ open'[j].got = said'.calls[open'[j].call].sent
          BY <3>4, <3>12 DEF m
        <4>1. CASE j = l + 1
          BY <3>1, <3>3, <3>6, <3>8, <3>9, <3>10, <4>1
        <4>2. CASE j # l + 1
          <5>1. j \in 1..l /\ m + j \in 1..k
            BY <3>3, <3>10, <4>2
          <5> QED  BY <3>6, <3>9, <3>11, <5>1
        <4> QED  BY <4>1, <4>2
      <3>14. Lined'
        <4>1. m + (l + 1) = k + 1
          BY <3>3, <3>10
        <4> QED  BY <3>4, <3>6, <3>9, <4>1 DEF m
      <3>15. Single'
        <4>1. provider' = "anthropic" => open = <<>>
          BY <2>5, <3>4 DEF CallBegins
        <4>2. open = <<>> => l = 0
          BY DEF l
        <4> QED  BY <3>9, <4>1, <4>2
      <3> QED  BY <3>4, <3>5, <3>13, <3>14, <3>15
    <2>6. CASE PieceArrives
      <3>1. PICK i \in 1..Len(open) :
              /\ said' = [said EXCEPT !.calls[open[i].call].sent = @ + 1]
              /\ open' = AddPiece(open, i)
        BY <1>4, <2>6 DEF PieceArrives
      <3> DEFINE calls == said.calls
                 n == Len(calls)
                 l == Len(open)
                 m == Len(tools)
                 k == m + i
      <3>2. UNCHANGED <<pc, provider, tools, finish>> /\ pc = "streaming" /\ finish = "none"
        BY <2>6 DEF PieceArrives, rest, Streaming
      <3>3. Numbered /\ Lined /\ Begun /\ Whole /\ Single
        BY <1>2, <3>2
      <3>4. \A j \in 1..l : open[j].call = m + j /\ open[j].got = calls[m + j].sent
        BY <1>4, <3>3
      <3>5. said'.calls = [calls EXCEPT ![k].sent = @ + 1]
        BY <1>1, <3>1, <3>4 DEF CallsTypeOK
      <3>6. calls \in Seq(ModelCall) /\ n \in Nat /\ l \in Nat /\ m \in Nat /\ m + l = n
        BY <1>4, <3>3
      <3>7. /\ Len(open') = l /\ open'[i].got = open[i].got + 1
            /\ \A j \in 1..l : j # i => open'[j] = open[j]
            /\ \A j \in 1..l : open'[j].call = open[j].call
        BY <1>4, <3>1, PieceGathered
      <3> HIDE DEF calls, n, l, m, k
      <3>8. k \in 1..n
        BY <3>1, <3>6 DEF k, l
      <3>9. /\ Len(said'.calls) = n /\ said'.calls[k].sent = calls[k].sent + 1
            /\ \A j \in 1..n : j # k => said'.calls[j] = calls[j]
        BY <3>5, <3>6, <3>8, PieceSent DEF n
      <3>10. Begun'
        <4> SUFFICES ASSUME NEW j \in 1..l
                     PROVE  open'[j].call = m + j /\ open'[j].got = said'.calls[open'[j].call].sent
          BY <1>5, <3>2, <3>7 DEF m
        <4>1. open'[j].call = m + j
          BY <3>4, <3>7
        <4>2. CASE j = i
          BY <3>4, <3>7, <3>9, <4>1, <4>2 DEF k
        <4>3. CASE j # i
          <5>1. m + j \in 1..n /\ m + j # k
            BY <3>6, <4>3 DEF k
          <5> QED  BY <3>4, <3>7, <3>9, <4>1, <4>3, <5>1
        <4> QED  BY <4>1, <4>2, <4>3
      <3>11. Lined' /\ Single'
        BY <3>2, <3>3, <3>6, <3>7, <3>9 DEF n, m, l, calls
      <3> QED  BY <3>2, <3>3, <3>10, <3>11
    <2>7. CASE BlockStops \/ Finishes
      <3>1. /\ UNCHANGED <<pc, provider, said>> /\ pc = "streaming" /\ finish = "none" /\ HandOver
        BY <2>7 DEF BlockStops, Finishes, rest, Streaming
      <3>2. Numbered /\ Lined /\ Begun /\ Whole /\ Single
        BY <1>2, <3>1
      <3> DEFINE l == Len(open)
                 m == Len(tools)
                 n == Len(said.calls)
      <3>3. /\ open' = <<>> /\ Len(tools') = m + l
            /\ \A i \in 1..m : tools'[i] = tools[i]
            /\ \A i \in 1..l : tools'[m + i] = Loads(open[i])
        BY <1>4, <3>1, HandedOver
      <3>4. l \in Nat /\ m \in Nat /\ n \in Nat /\ m + l = n
        BY <1>4, <3>2
      <3>5. \A i \in 1..l : open[i].call = m + i /\ open[i].got = said.calls[open[i].call].sent
        BY <1>4, <3>2
      <3>6. \A i \in 1..m : tools[i].call = i /\ tools[i].args = "whole"
        BY <1>4, <3>2
      <3>7. DOMAIN tools' = 1..(m + l)
        BY <1>5, <3>3
      <3> HIDE DEF l, m, n
      <3>8. \A i \in 1..(m + l) : i \in 1..m \/ \E j \in 1..l : i = m + j
        <4> SUFFICES ASSUME NEW i \in 1..(m + l), i \notin 1..m
                     PROVE  \E j \in 1..l : i = m + j
          OBVIOUS
        <4>1. i - m \in 1..l /\ i = m + (i - m)
          BY <3>4
        <4> QED  BY <4>1
      <3>9. \A i \in 1..l : Loads(open[i]).call = m + i
        BY <3>5 DEF Loads
      <3>10. Numbered'
        BY <3>3, <3>6, <3>7, <3>8, <3>9
      <3>11. ASSUME \A i \in 1..l : AllSent(open[i])
             PROVE  Whole'
        <4>1. \A i \in 1..l : Loads(open[i]).args = "whole"
          BY <3>5, <3>11 DEF Loads, AllSent
        <4> QED  BY <3>3, <3>6, <3>7, <3>8, <4>1
      <3>12. Len(tools') = n
        BY <3>3, <3>4
      <3>13. CASE BlockStops
        <4>1. provider = "anthropic" /\ AllSent(open[1]) /\ finish' = finish
          BY <3>13 DEF BlockStops
        <4>2. l <= 1
          BY <3>2, <4>1 DEF l
        <4>3. \A i \in 1..l : AllSent(open[i])
          <5>1. \A i \in 1..l : i = 1
            BY <3>4, <4>2
          <5> QED  BY <4>1, <5>1
        <4>4. Lined' /\ Begun' /\ Single'
          <5>1. Len(open') = 0
            BY <3>3
          <5>2. DOMAIN open' = {}
            BY <1>5, <5>1
          <5>3. Lined'
            BY <3>1, <3>4, <3>12, <5>1 DEF n
          <5> QED  BY <5>1, <5>2, <5>3
        <4> QED  BY <3>1, <3>10, <3>11, <4>1, <4>3, <4>4
      <3>14. CASE Finishes
        <4>1. \/ finish' = "stop" /\ \A i \in 1..l : AllSent(open[i])
              \/ finish' = "length"
          BY <1>4, <3>14 DEF Finishes, l
        <4>2. All'
          BY <3>1, <3>12 DEF n
        <4> QED  BY <3>10, <3>11, <4>1, <4>2
      <3> QED  BY <2>7, <3>13, <3>14
    <2>8. CASE Final
      <3>1. UNCHANGED <<said, tools, finish>> /\ pc = "streaming" /\ pc' \in {"done", "waiting"}
        BY <2>8 DEF Final
      <3> QED  BY <1>2, <3>1
    <2>9. CASE Reasons \/ TextArrives
      <3>1. said'.calls = said.calls
        <4>1. \A text : [said EXCEPT !.text = text].calls = said.calls
          BY <1>1 DEF CallsTypeOK
        <4> QED  BY <2>9, <4>1 DEF Reasons, TextArrives
      <3> QED  BY <2>4, <2>9, <3>1 DEF Reasons, TextArrives, rest
    <2> HIDE DEF Calls
    <2> QED
      BY <2>1, <2>2, <2>3, <2>5, <2>6, <2>7, <2>8, <2>9
         DEF CallsNext, callsVars, rest, Ask, OutOfTurns, Refused, StructuredFails, Again, GivesUp,
             RequestFails, StreamFails, Begins, StructuredArrives, UserAnswers, ResultArrives,
             EndsEarly, Ended
  <1> HIDE DEF Calls, Result
  <1>7. Gathered' <=> Calls' /\ Result'
    BY DEF Gathered, Calls, Result
  <1> QED  BY <1>3, <1>6, <1>7

-----------------------------------------------------------------------------
(* What is read of the text                                                *)

\* The model's own reasoning, if the thoughts begin with it.
Own(thoughts) ==
    IF thoughts # <<>> /\ thoughts[1] = "r" THEN <<"r">> ELSE <<>>

\* While a text is read, and when it has been.
Reads(text, p) ==
    LET split == Split[From(text, FALSE)]
        held(here) == IF p.inside = here THEN p.pending ELSE <<>>
    IN /\ p.content \o held(FALSE) = split.content
       /\ p.reasoning \o held(TRUE) = Own(p.reasoning) \o split.thoughts

HasRead(text, p) ==
    LET split == Split[From(text, FALSE)]
        held(here) == IF p.inside = here THEN p.pending ELSE <<>>
    IN /\ p.content \o held(FALSE) = split.content
       /\ IF p.inside THEN IsPrefix(Own(p.reasoning) \o split.thoughts, p.reasoning)
          ELSE p.reasoning \o held(TRUE) = Own(p.reasoning) \o split.thoughts

\* The text of the turn is one or the other.
LEMMA SplitRightCases ==
    /\ SplitRight <=>
         /\ pc = "streaming" => Reads(said.text, parse)
         /\ pc \in {"waiting", "done"} => HasRead(said.text, parse)
    /\ SplitRight' <=>
         /\ pc' = "streaming" => Reads(said'.text, parse')
         /\ pc' \in {"waiting", "done"} => HasRead(said'.text, parse')
  BY DEF SplitRight, Reads, HasRead, From, Own

\* The model's own reasoning is told apart from the thoughts it writes.
LEMMA OwnFacts ==
    ASSUME NEW own \in {<<>>, <<"r">>}, NEW th \in Seq(Letters)
    PROVE  /\ own \o th \in Seq(Letters \cup {"r"}) /\ own \in Seq(Letters \cup {"r"})
           /\ th \in Seq(Letters \cup {"r"})
           /\ Own(own \o th) = own
  <1> DEFINE L == Letters \cup {"r"}
             s == own \o th
  <1>1. own \in Seq(L) /\ th \in Seq(L)
    <2>1. <<>> \in Seq(L) /\ <<"r">> \in Seq(L)
      OBVIOUS
    <2>2. th \in Seq(L)
      BY SeqMonotonic
    <2> QED  BY <2>1, <2>2
  <1>2. Len(th) \in Nat /\ (\A i \in 1..Len(th) : th[i] \in Letters) /\ "r" \notin Letters
    BY ElementOfSeq, LenProperties DEF Letters
  <1>3. \/ own = <<>> /\ Len(own) = 0
        \/ own = <<"r">> /\ Len(own) = 1 /\ own[1] = "r"
    OBVIOUS
  <1> HIDE DEF L
  <1>4. /\ s \in Seq(L) /\ Len(s) = Len(own) + Len(th)
        /\ \A i \in 1..(Len(own) + Len(th)) :
             s[i] = IF i <= Len(own) THEN own[i] ELSE th[i - Len(own)]
    BY <1>1, ConcatProperties
  <1> HIDE DEF s
  <1>5. Own(s) = own
    <2>1. CASE own = <<>> /\ Len(own) = 0
      <3>1. CASE Len(th) = 0
        BY <1>4, <2>1, <3>1, EmptySeq DEF Own
      <3>2. CASE Len(th) # 0
        <4>1. 1 \in 1..Len(th) /\ s[1] = th[1]
          BY <1>2, <1>4, <2>1, <3>2
        <4> QED  BY <1>2, <2>1, <4>1 DEF Own
      <3> QED  BY <3>1, <3>2
    <2>2. CASE own = <<"r">> /\ Len(own) = 1 /\ own[1] = "r"
      <3>1. s[1] = "r" /\ Len(s) # 0
        BY <1>2, <1>4, <2>2
      <3>2. s # <<>>
        BY <3>1
      <3> QED  BY <2>2, <3>1, <3>2 DEF Own
    <2> QED  BY <1>3, <2>1, <2>2
  <1> QED  BY <1>1, <1>4, <1>5 DEF s, L

\* Thoughts are put together in any order too.
LEMMA ThoughtsAssociate ==
    ASSUME NEW r \in Seq(Letters \cup {"r"}), NEW s \in Seq(Letters \cup {"r"}),
           NEW t \in Seq(Letters \cup {"r"})
    PROVE  (r \o s) \o t = r \o (s \o t)
  <1> DEFINE L == Letters \cup {"r"}
  <1>1. r \in Seq(L) /\ s \in Seq(L) /\ t \in Seq(L)
    OBVIOUS
  <1> HIDE DEF L
  <1> QED  BY <1>1, ConcatAssociative

\* What is right for whatever comes next is right when nothing does: while the
\* text is read, and once what was held back has been shown.
LEMMA ReadsRight ==
    ASSUME NEW text \in Seq(Letters), NEW p \in Parser,
           NEW own \in {<<>>, <<"r">>}, NEW th \in Seq(Letters),
           p.reasoning = own \o th,
           Split[From(text, FALSE)] =
             Plus([content |-> p.content, thoughts |-> th], Side(p.pending, p.inside))
    PROVE  /\ Reads(text, p)
           /\ ~p.inside => HasRead(text, p)
           /\ HasRead(text, [Flush(p) EXCEPT !.events = <<>>])
  <1> DEFINE split == Split[From(text, FALSE)]
             here == p.inside
             held == p.pending
             q == [Flush(p) EXCEPT !.events = <<>>]
  <1>1. /\ held \in Seq(Letters) /\ here \in BOOLEAN /\ p.content \in Seq(Letters)
        /\ p.buffer \in Seq(Letters)
    BY DEF Parser
  <1>2. /\ Side(held, here) = [content |-> Out(held, ~here), thoughts |-> Out(held, here)]
        /\ Out(held, here) \in Seq(Letters) /\ Out(held, ~here) \in Seq(Letters)
        /\ Out(p.buffer, here) \in Seq(Letters)
    BY <1>1, OutFacts
  <1>3. /\ split.content = p.content \o Out(held, ~here)
        /\ split.thoughts = th \o Out(held, here)
    <2> DEFINE x == [content |-> p.content, thoughts |-> th]
               y == [content |-> Out(held, ~here), thoughts |-> Out(held, here)]
    <2>1. split = Plus(x, y)
      BY <1>2
    <2>2. /\ x.content = p.content /\ x.thoughts = th
          /\ y.content = Out(held, ~here) /\ y.thoughts = Out(held, here)
      OBVIOUS
    <2> HIDE DEF x, y, split
    <2>3. split.content = x.content \o y.content /\ split.thoughts = x.thoughts \o y.thoughts
      BY <2>1 DEF Plus
    <2> QED  BY <2>2, <2>3
  <1>4. /\ own \in Seq(Letters \cup {"r"}) /\ th \in Seq(Letters \cup {"r"})
        /\ Own(p.reasoning) = own
    BY OwnFacts
  <1>5. p.reasoning \o Out(held, here) = own \o split.thoughts
    <2> DEFINE o == Out(held, here)
    <2>1. o \in Seq(Letters \cup {"r"})
      BY <1>2, SeqMonotonic
    <2> HIDE DEF o
    <2>2. (own \o th) \o o = own \o (th \o o)
      BY <1>4, <2>1, ThoughtsAssociate
    <2> QED  BY <1>3, <2>2 DEF o
  <1>6. /\ (IF here = FALSE THEN held ELSE <<>>) = Out(held, ~here)
        /\ (IF here = TRUE THEN held ELSE <<>>) = Out(held, here)
    BY <1>1 DEF Out
  <1>7. Reads(text, p)
    BY <1>3, <1>4, <1>5, <1>6 DEF Reads
  <1>8. ~here => HasRead(text, p)
    BY <1>3, <1>4, <1>5, <1>6 DEF HasRead
  <1>9. /\ q.inside = here /\ q.pending = <<>>
        /\ q.content = p.content \o Out(held, ~here)
        /\ q.reasoning = (p.reasoning \o Out(held, here)) \o Out(p.buffer, here)
    <2> DEFINE f == Flush(p)
    <2>1. /\ f \in Parser /\ f.inside = here /\ f.pending = <<>>
          /\ f.content = p.content \o Out(held, ~here)
          /\ f.reasoning = (p.reasoning \o Out(held, here)) \o Out(p.buffer, here)
      BY FlushFacts
    <2> HIDE DEF f, held, here
    <2>2. /\ q.content = f.content /\ q.reasoning = f.reasoning
          /\ q.pending = f.pending /\ q.inside = f.inside
      BY <2>1, SentFacts DEF f
    <2> QED  BY <2>1, <2>2
  <1> DEFINE thoughts == own \o split.thoughts
             b == Out(p.buffer, here)
  <1>10. q.reasoning = thoughts \o b
    BY <1>5, <1>9
  <1>11. split.thoughts \in Seq(Letters) /\ split.content \in Seq(Letters)
    <2>1. th \o Out(held, here) \in Seq(Letters)
      BY <1>2, ConcatProperties
    <2>2. p.content \o Out(held, ~here) \in Seq(Letters)
      BY <1>1, <1>2, ConcatProperties
    <2> QED  BY <1>3, <2>1, <2>2
  <1>12. thoughts \in Seq(Letters \cup {"r"}) /\ Own(thoughts) = own
    <2> DEFINE x == split.thoughts
    <2>1. x \in Seq(Letters)
      BY <1>11
    <2> HIDE DEF x
    <2>2. own \o x \in Seq(Letters \cup {"r"}) /\ Own(own \o x) = own
      BY <2>1, OwnFacts
    <2> QED  BY <2>2 DEF x
  <1>13. b \in Seq(Letters \cup {"r"})
    BY <1>2, SeqMonotonic
  <1>14. q.content \o <<>> = split.content
    <2> DEFINE x == split.content
    <2>1. x \in Seq(Letters) /\ q.content = x
      BY <1>3, <1>9, <1>11
    <2> HIDE DEF x, q
    <2>2. x \o <<>> = x
      BY <2>1, ConcatEmptySeq
    <2> QED  BY <2>1, <2>2 DEF x
  <1> HIDE DEF q, thoughts, b
  <1>15. HasRead(text, q)
    <2>1. CASE ~here
      <3>1. b = <<>>
        BY <2>1 DEF b, Out
      <3>2. thoughts \o <<>> = thoughts
        <4> DEFINE L == Letters \cup {"r"}
        <4>1. thoughts \in Seq(L)
          BY <1>12
        <4> HIDE DEF L
        <4> QED  BY <4>1, ConcatEmptySeq
      <3>3. q.reasoning = thoughts /\ q.reasoning \o <<>> = thoughts /\ Own(q.reasoning) = own
        BY <1>10, <1>12, <3>1, <3>2
      <3> QED  BY <1>9, <1>14, <2>1, <3>3 DEF HasRead, thoughts
    <2>2. CASE here
      <3> DEFINE r == q.reasoning
                 L == Letters \cup {"r"}
      <3>1. thoughts \in Seq(L) /\ b \in Seq(L) /\ r = thoughts \o b
        BY <1>10, <1>12, <1>13
      <3> HIDE DEF L, r
      <3>2. /\ r \in Seq(L) /\ Len(r) = Len(thoughts) + Len(b)
            /\ \A i \in 1..(Len(thoughts) + Len(b)) :
                 r[i] = IF i <= Len(thoughts) THEN thoughts[i] ELSE b[i - Len(thoughts)]
            /\ Len(thoughts) \in Nat /\ Len(b) \in Nat
        BY <3>1, ConcatProperties, LenProperties
      <3>3. IsPrefix(thoughts, r)
        <4>1. Len(thoughts) <= Len(r)
          BY <3>2
        <4>2. SubSeq(thoughts, 1, Len(thoughts)) = thoughts
          BY <3>1, SubSeqFull
        <4>3. SubSeq(r, 1, Len(thoughts)) = thoughts
          <5> DEFINE k == Len(thoughts)
                     u == SubSeq(r, 1, k)
          <5>1. \A i \in 1..k : r[i] \in L /\ r[i] = thoughts[i]
            <6>1. \A i \in 1..k : i \in 1..(k + Len(b)) /\ i <= k
              BY <3>2
            <6> QED  BY <3>1, <3>2, <6>1, ElementOfSeq
          <5>2. k \in Nat
            BY <3>2
          <5> HIDE DEF k
          <5>3. /\ u \in Seq(L) /\ Len(u) = k
                /\ \A i \in 1..k : u[i] = r[i]
            <6>1. /\ u \in Seq(L) /\ Len(u) = IF 1 <= k THEN k - 1 + 1 ELSE 0
                  /\ \A i \in 1..(k - 1 + 1) : u[i] = r[1 + i - 1]
              BY <5>1, <5>2, SubSeqProperties
            <6>2. k - 1 + 1 = k /\ \A i \in 1..k : 1 + i - 1 = i
              BY <5>2
            <6> HIDE DEF u
            <6> QED  BY <5>2, <6>1, <6>2
          <5> HIDE DEF u
          <5>4. u = thoughts
            BY <3>1, <5>1, <5>3, SeqEqual DEF k
          <5> QED  BY <5>4 DEF u, k
        <4> QED  BY <4>1, <4>2, <4>3 DEF IsPrefix
      <3>4. Own(r) = own
        <4>1. CASE b = <<>>
          <5>1. thoughts \o <<>> = thoughts
            BY <3>1, ConcatEmptySeq
          <5> QED  BY <1>12, <3>1, <4>1, <5>1
        <4>2. CASE thoughts # <<>>
          <5>1. Len(thoughts) # 0 /\ r # <<>> /\ r[1] = thoughts[1]
            BY <3>1, <3>2, <4>2, EmptySeq
          <5> QED  BY <1>12, <4>2, <5>1 DEF Own
        <4>3. CASE thoughts = <<>>
          <5>1. own = <<>>
            BY <1>12, <4>3 DEF Own
          <5>2. r = b /\ b \in Seq(Letters)
            <6>1. <<>> \o b = b
              BY <3>1, ConcatEmptySeq
            <6> QED  BY <1>2, <3>1, <4>3, <6>1 DEF b
          <5>3. <<>> \o b = b /\ Own(<<>> \o b) = <<>>
            BY <5>2, OwnFacts, ConcatEmptySeq
          <5> QED  BY <5>1, <5>2, <5>3
        <4> QED  BY <4>2, <4>3
      <3> QED  BY <1>9, <1>14, <2>2, <3>3, <3>4 DEF HasRead, thoughts, r
    <2> QED  BY <2>1, <2>2
  <1> QED  BY <1>7, <1>8, <1>15 DEF q

\* A parser at rest has read nothing, rightly.
LEMMA NothingRead ==
    /\ \A w \in Seq(Letters) :
         Split[From(<<>> \o w, FALSE)] =
           Plus([content |-> Fresh.content, thoughts |-> <<>>],
                Split[From(Fresh.pending \o w, Fresh.inside)])
    /\ Fresh.reasoning = <<>> \o <<>>
    /\ Len(Fresh.pending) < Len(Tag(Fresh.inside))
    /\ Reads(<<>>, Fresh) /\ HasRead(<<>>, Fresh)
  <1>1. /\ Fresh \in Parser /\ Fresh.content = <<>> /\ Fresh.reasoning = <<>>
        /\ Fresh.pending = <<>> /\ Fresh.inside = FALSE
    BY FreshFacts DEF Fresh
  <1>2. \A w \in Seq(Letters) : <<>> \o w = w
    BY ConcatEmptySeq
  <1>3. Side(<<>>, FALSE) = [content |-> <<>>, thoughts |-> <<>>]
    BY DEF Side
  <1>4. ASSUME NEW w \in Seq(Letters)
        PROVE  Split[From(w, FALSE)] =
                 Plus([content |-> <<>>, thoughts |-> <<>>], Split[From(w, FALSE)])
    <2> DEFINE x == Split[From(w, FALSE)]
    <2>1. x \in Sides
      BY SplitCases
    <2> HIDE DEF x
    <2>2. \A inside \in BOOLEAN : Plus(Side(<<>>, inside), x) = x
      BY <2>1, PlusNothing
    <2> QED  BY <1>3, <2>2 DEF x
  <1>5. <<>> \in Seq(Letters) /\ <<>> \o <<>> = <<>>
    BY <1>2, EmptySeq
  <1>6. Len(Tag(FALSE)) > 0
    BY DEF Tag, Open
  <1>7. Split[From(<<>>, FALSE)] =
          Plus([content |-> Fresh.content, thoughts |-> <<>>], Side(Fresh.pending, Fresh.inside))
    <2>1. \A inside \in BOOLEAN : Split[From(<<>>, inside)] = Side(<<>>, inside)
      BY <1>5, SplitCases
    <2>2. Split[From(<<>>, FALSE)] = Side(<<>>, FALSE)
      BY <2>1
    <2> QED  BY <1>1, <1>4, <1>5, <2>2
  <1>8. Reads(<<>>, Fresh) /\ HasRead(<<>>, Fresh)
    BY <1>1, <1>5, <1>7, ReadsRight
  <1> QED  BY <1>1, <1>2, <1>4, <1>5, <1>6, <1>8

\* The parser reads on.
LEMMA ReadStep ==
    ASSUME CallsInv, [CallsNext]_callsVars
    PROVE  ReadSoFar'
  <1>1. CallsTypeOK /\ CallsTypeOK' /\ ReadSoFar /\ Blank
    BY CallsTypeStep DEF CallsInv
  <1>2. CASE pc' # "streaming"
    BY <1>2 DEF ReadSoFar
  <1>3. CASE UNCHANGED <<pc, parse>> /\ said'.text = said.text
    BY <1>1, <1>3 DEF ReadSoFar
  <1>4. CASE Begins
    <2>1. parse' = Fresh /\ said'.text = <<>>
      BY <1>1, <1>4 DEF Begins, Accepts, Blank, turn, Nothing
    <2>2. <<>> \in {<<>>, <<"r">>} /\ <<>> \in Seq(Letters)
      BY EmptySeq
    <2> QED  BY <2>1, <2>2, NothingRead DEF ReadSoFar
  <1>5. CASE Reasons
    <2>1. parse' = [[parse EXCEPT !.reasoning = <<"r">>] EXCEPT !.events = <<>>]
      BY <1>5 DEF Reasons, Sends
    <2>2. ASSUME NEW p \in Parser, NEW s
          PROVE  LET q == [[p EXCEPT !.reasoning = s] EXCEPT !.events = <<>>]
                 IN /\ q.reasoning = s /\ q.content = p.content
                    /\ q.pending = p.pending /\ q.inside = p.inside
      BY DEF Parser
    <2>3. /\ parse'.reasoning = <<"r">> /\ parse'.content = parse.content
          /\ parse'.pending = parse.pending /\ parse'.inside = parse.inside
      BY <1>1, <2>1, <2>2 DEF CallsTypeOK
    <2>4. pc = "streaming" /\ pc' = pc /\ said' = said /\ parse.reasoning = <<>>
      BY <1>5 DEF Reasons, Streaming
    <2>5. PICK own \in {<<>>, <<"r">>}, th \in Seq(Letters) :
            /\ parse.reasoning = own \o th
            /\ \A w \in Seq(Letters) :
                 Split[From(said.text \o w, FALSE)] =
                   Plus([content |-> parse.content, thoughts |-> th],
                        Split[From(parse.pending \o w, parse.inside)])
      BY <1>1, <2>4 DEF ReadSoFar
    <2>6. th = <<>>
      <3> DEFINE L == Letters \cup {"r"}
      <3>1. own \in Seq(L) /\ th \in Seq(L) /\ own \o th = <<>>
        BY <2>4, <2>5, OwnFacts
      <3> HIDE DEF L
      <3>2. Len(own \o th) = Len(own) + Len(th) /\ Len(own) \in Nat /\ Len(th) \in Nat
        BY <3>1, ConcatProperties, LenProperties
      <3>3. Len(th) = 0
        BY <3>1, <3>2
      <3> QED  BY <3>1, <3>3, EmptySeq
    <2>7. <<"r">> \o <<>> = <<"r">>
      OBVIOUS
    <2>8. Len(parse.pending) < Len(Tag(parse.inside))
      BY <1>1, <2>4 DEF ReadSoFar
    <2>9. <<"r">> \in {<<>>, <<"r">>} /\ parse'.reasoning = <<"r">> \o th
      BY <2>3, <2>6, <2>7
    <2> QED  BY <2>3, <2>4, <2>5, <2>8, <2>9 DEF ReadSoFar
  <1>6. CASE TextArrives
    <2>1. PICK chunk \in BoundedSeq(Letters, MaxText - spent) :
            /\ said' = [said EXCEPT !.text = @ \o chunk]
            /\ parse' = [Take(parse, chunk) EXCEPT !.events = <<>>]
      BY <1>6 DEF TextArrives, Sends
    <2>2. chunk \in Seq(Letters)
      <3>1. MaxText - spent \in Int
        BY <1>1, CallsAssumption, SMTT(30) DEF CallsTypeOK
      <3> QED  BY <3>1, ChunkFacts
    <2> DEFINE q == Take(parse, chunk)
    <2>3. PICK c \in Seq(Letters), t \in Seq(Letters) :
            /\ q.content = parse.content \o c
            /\ q.reasoning = parse.reasoning \o t
            /\ \A w \in Seq(Letters) :
                 Split[From(parse.pending \o (chunk \o w), parse.inside)] =
                   Plus([content |-> c, thoughts |-> t], Split[From(q.pending \o w, q.inside)])
      BY <1>1, <2>2, TakeFacts DEF CallsTypeOK
    <2>4. q \in Parser /\ Len(q.pending) < Len(Tag(q.inside))
      BY <1>1, <2>2, TakeFacts DEF CallsTypeOK
    <2> HIDE DEF q
    <2>5. /\ parse'.content = q.content /\ parse'.reasoning = q.reasoning
          /\ parse'.pending = q.pending /\ parse'.inside = q.inside
      BY <2>1, <2>4, SentFacts DEF q
    <2>6. pc = "streaming" /\ said'.text = said.text \o chunk
      BY <1>1, <1>6, <2>1 DEF TextArrives, Streaming, CallsTypeOK
    <2>7. PICK own \in {<<>>, <<"r">>}, th \in Seq(Letters) :
            /\ parse.reasoning = own \o th
            /\ \A w \in Seq(Letters) :
                 Split[From(said.text \o w, FALSE)] =
                   Plus([content |-> parse.content, thoughts |-> th],
                        Split[From(parse.pending \o w, parse.inside)])
      BY <1>1, <2>6 DEF ReadSoFar
    <2> DEFINE a == [content |-> parse.content, thoughts |-> th]
               b == [content |-> c, thoughts |-> t]
               both == th \o t
    <2>8. both \in Seq(Letters)
      BY ConcatProperties
    <2>9. q.reasoning = own \o both
      <3>1. own \in Seq(Letters \cup {"r"}) /\ th \in Seq(Letters \cup {"r"})
        BY OwnFacts
      <3>2. t \in Seq(Letters \cup {"r"})
        BY SeqMonotonic
      <3>3. (own \o th) \o t = own \o (th \o t)
        BY <3>1, <3>2, ThoughtsAssociate
      <3> QED  BY <2>3, <2>7, <3>3
    <2>10. a \in Sides /\ b \in Sides /\ Plus(a, b) = [content |-> q.content, thoughts |-> both]
      <3>1. parse.content \in Seq(Letters)
        BY <1>1, CallsTypeFacts
      <3> QED  BY <2>3, <3>1 DEF Sides, Plus
    <2>11. ASSUME NEW w \in Seq(Letters)
           PROVE  Split[From((said.text \o chunk) \o w, FALSE)] =
                    Plus([content |-> q.content, thoughts |-> both],
                         Split[From(q.pending \o w, q.inside)])
      <3> DEFINE x == said.text
                 u == chunk \o w
                 v == q.pending \o w
                 z == Split[From(v, q.inside)]
      <3>1. u \in Seq(Letters) /\ x \in Seq(Letters)
        BY <1>1, <2>2, ConcatProperties, CallsTypeFacts
      <3>2. z \in Sides
        <4>1. q.pending \in Seq(Letters) /\ q.inside \in BOOLEAN
          BY <2>4 DEF Parser
        <4>2. v \in Seq(Letters)
          BY <4>1, ConcatProperties
        <4> HIDE DEF v
        <4> QED  BY <4>1, <4>2, SplitCases
      <3>3. Split[From(x \o u, FALSE)] = Plus(a, Split[From(parse.pending \o u, parse.inside)])
        BY <2>7, <3>1
      <3>4. Split[From(parse.pending \o u, parse.inside)] = Plus(b, z)
        BY <2>3
      <3>5. (x \o chunk) \o w = x \o u
        <4>1. x \in Seq(Letters) /\ chunk \in Seq(Letters) /\ w \in Seq(Letters)
          BY <2>2, <3>1
        <4> HIDE DEF x
        <4>2. (x \o chunk) \o w = x \o (chunk \o w)
          BY ONLY <4>1, TextsAssociate, SMTT(30)
        <4> QED  BY <4>2
      <3> HIDE DEF x, u, v, z, a, b
      <3>6. a \in Sides /\ b \in Sides /\ z \in Sides
        BY <2>10, <3>2
      <3>7. Plus(Plus(a, b), z) = Plus(a, Plus(b, z))
        BY ONLY <3>6, PlusFacts
      <3> QED  BY <2>10, <3>3, <3>4, <3>5, <3>7 DEF x, z, v
    <2> HIDE DEF both
    <2>12. /\ parse'.reasoning = own \o both
           /\ \A w \in Seq(Letters) :
                Split[From(said'.text \o w, FALSE)] =
                  Plus([content |-> parse'.content, thoughts |-> both],
                       Split[From(parse'.pending \o w, parse'.inside)])
           /\ Len(parse'.pending) < Len(Tag(parse'.inside))
      BY <2>4, <2>5, <2>6, <2>9, <2>11
    <2> QED  BY <2>8, <2>12 DEF ReadSoFar
  <1>7. CASE PieceArrives
    <2>1. \A calls : [said EXCEPT !.calls = calls].text = said.text
      BY <1>1 DEF CallsTypeOK
    <2>2. PICK k : said' = [said EXCEPT !.calls[k].sent = @ + 1]
      BY <1>7 DEF PieceArrives
    <2> DEFINE calls == [said.calls EXCEPT ![k].sent = @ + 1]
    <2>3. said' = [said EXCEPT !.calls = calls]
      BY <2>2
    <2> HIDE DEF calls
    <2>4. said'.text = said.text
      BY <2>1, <2>3
    <2> QED  BY <1>3, <1>7, <2>4 DEF PieceArrives
  <1>8. CASE CallBegins
    <2>1. \A calls : [said EXCEPT !.calls = calls].text = said.text
      BY <1>1 DEF CallsTypeOK
    <2> QED  BY <1>3, <1>8, <2>1 DEF CallBegins
  <1>9. CASE StructuredArrives
    BY <1>2, <1>9 DEF StructuredArrives, Structured
  <1>10. CASE BlockStops \/ Finishes \/ Ended \/ UNCHANGED callsVars
    BY <1>3, <1>10 DEF BlockStops, Finishes, Ended, callsVars, turn
  <1>11. CASE \/ Ask \/ OutOfTurns \/ Refused \/ Completes \/ StructuredFails \/ RequestFails
              \/ StreamFails \/ Final \/ UserAnswers \/ ResultArrives \/ EndsEarly
    <2>1. pc' # "streaming"
      BY <1>11
         DEF Ask, OutOfTurns, Refused, Completes, StructuredFails, Again, GivesUp, RequestFails,
             StreamFails, Final, UserAnswers, ResultArrives, EndsEarly
    <2> QED  BY <1>2, <2>1
  <1> QED
    BY <1>4, <1>5, <1>6, <1>7, <1>8, <1>9, <1>10, <1>11 DEF CallsNext

\* The split is right while it is read, and when it has been.
LEMMA SplitStep ==
    ASSUME CallsInv, [CallsNext]_callsVars
    PROVE  SplitRight'
  <1>1. /\ CallsTypeOK /\ CallsTypeOK' /\ ReadSoFar /\ ReadSoFar' /\ Blank
        /\ said.text \in Seq(Letters) /\ said'.text \in Seq(Letters)
    BY CallsTypeStep, ReadStep DEF CallsInv, CallsTypeOK
  <1>2. /\ pc = "streaming" => Reads(said.text, parse)
        /\ pc \in {"waiting", "done"} => HasRead(said.text, parse)
    BY SplitRightCases DEF CallsInv
  <1>3. ASSUME NEW text \in Seq(Letters), NEW p \in Parser,
               NEW own \in {<<>>, <<"r">>}, NEW th \in Seq(Letters),
               p.reasoning = own \o th, Len(p.pending) < Len(Tag(p.inside)),
               \A w \in Seq(Letters) :
                 Split[From(text \o w, FALSE)] =
                   Plus([content |-> p.content, thoughts |-> th],
                        Split[From(p.pending \o w, p.inside)])
        PROVE  Reads(text, p) /\ HasRead(text, [Flush(p) EXCEPT !.events = <<>>])
    <2>1. p.pending \in Seq(Letters) /\ p.inside \in BOOLEAN
      BY DEF Parser
    <2> DEFINE held == p.pending
    <2>2. held \in Seq(Letters) /\ <<>> \in Seq(Letters)
      BY <2>1, EmptySeq
    <2>3. Split[From(text \o <<>>, FALSE)] =
            Plus([content |-> p.content, thoughts |-> th],
                 Split[From(held \o <<>>, p.inside)])
      BY <1>3, <2>2
    <2> HIDE DEF held
    <2>4. text \o <<>> = text /\ held \o <<>> = held
      BY <2>2, ConcatEmptySeq
    <2>5. Split[From(held, p.inside)] = Side(held, p.inside)
      BY <1>3, <2>1, <2>2, SplitShort DEF held
    <2>6. Split[From(text, FALSE)] =
            Plus([content |-> p.content, thoughts |-> th], Side(p.pending, p.inside))
      BY <2>3, <2>4, <2>5 DEF held
    <2> QED  BY <1>3, <2>6, ReadsRight
  <1>4. pc' = "streaming" => Reads(said'.text, parse')
    BY <1>1, <1>3 DEF ReadSoFar, CallsTypeOK
  <1>5. ASSUME pc' \in {"waiting", "done"}
        PROVE  HasRead(said'.text, parse')
    <2>1. CASE Final
      <3>1. /\ pc = "streaming" /\ said' = said
            /\ parse' = [Flush(parse) EXCEPT !.events = <<>>]
        BY <2>1 DEF Final, Sends
      <3> QED  BY <1>1, <1>3, <3>1 DEF ReadSoFar, CallsTypeOK
    <2>2. CASE Completes \/ StructuredArrives
      <3>1. said'.text = <<>> /\ parse' = Fresh
        <4>1. CASE Completes
          <5>1. \A calls : [Nothing EXCEPT !.calls = calls].text = <<>>
            BY DEF Nothing
          <5> QED  BY <1>1, <4>1, <5>1 DEF Completes, Accepts, Blank
        <4>2. CASE StructuredArrives
          BY <1>1, <4>2 DEF StructuredArrives, Blank, turn, Nothing
        <4> QED  BY <2>2, <4>1, <4>2
      <3> QED  BY <3>1, NothingRead
    <2>3. CASE UserAnswers \/ ResultArrives \/ Ended \/ UNCHANGED callsVars
      BY <1>2, <1>5, <2>3 DEF UserAnswers, ResultArrives, Ended, callsVars, turn
    <2> QED
      BY <1>5, <2>1, <2>2, <2>3
         DEF CallsNext, Ask, OutOfTurns, Refused, StructuredFails, Again, GivesUp, RequestFails,
             StreamFails, Begins, Reasons, Streaming, TextArrives, CallBegins, PieceArrives,
             BlockStops, Finishes, EndsEarly
  <1> QED  BY <1>4, <1>5, SplitRightCases

-----------------------------------------------------------------------------
(* The theorems of the calls                                               *)

\* The invariant holds at every step: what the parser has put on each side and
\* holds back, the calls begun and handed over, and the parameters refused.
THEOREM CallsInvariant == CallsSpec => []CallsInv
  <1>1. CallsInit => CallsInv
    BY CallsInitOK
  <1>2. CallsInv /\ [CallsNext]_callsVars => CallsInv'
    <2> SUFFICES ASSUME CallsInv, [CallsNext]_callsVars
                 PROVE  CallsInv'
      OBVIOUS
    <2>1. CallsTypeOK'
      BY CallsTypeStep DEF CallsInv
    <2>2. Blank' /\ Served' /\ Asked'
      BY BlankStep, ServedStep, AskedStep
    <2>3. Gathered' /\ ReadSoFar' /\ SplitRight'
      BY GatheredStep, ReadStep, SplitStep
    <2> QED  BY <2>1, <2>2, <2>3 DEF CallsInv
  <1> QED  BY <1>1, <1>2, PTL DEF CallsSpec

\* However the text of a turn is cut into chunks, and however long it is, what
\* the agent has sent and holds back is the text outside and inside the tags
\* (agent.py, execute_streaming).
THEOREM TextIsSplitRight == CallsSpec => []SplitRight
  <1>1. CallsInv => SplitRight
    BY DEF CallsInv
  <1> QED  BY <1>1, CallsInvariant, PTL

\* A call that has ended well hands over the calls of the answer, once each, in
\* their order and whole, however their pieces overlapped (openai.py,
\* anthropic.py, stream).
THEOREM AnswersAreHandedOverWhole == CallsSpec => []HandedOverWhole
  <1>1. CallsInv => HandedOverWhole
    BY DEF CallsInv, Gathered, Served, HandedOverWhole
  <1> QED  BY <1>1, CallsInvariant, PTL

\* No parameter refused is sent again, and refusals fail a call in two cases only
\* (openai.py, complete and stream).
THEOREM RefusalsAreSettled == CallsSpec => []RefusalsSettled
  <1>1. ASSUME CallsInv
        PROVE  RefusalsSettled
    <2>1. Asked
      BY <1>1 DEF CallsInv
    <2>2. IsInjective(request.refusals)
      BY <2>1, AskedInjective
    <2>3. pc = "failed" /\ request.refusals # <<>> =>
            \/ request.refusals = <<"temperature", "max_tokens">>
            \/ request.refusals[Len(request.refusals)] = "reasoning_effort"
      BY <2>1 DEF Asked, LastIsEffort
    <2> QED  BY <2>2, <2>3 DEF RefusalsSettled
  <1> QED  BY <1>1, CallsInvariant, PTL

-----------------------------------------------------------------------------
(* Texts put together                                                      *)

\* What FlattenSeq has put together up to a place.
LEMMA Flattened ==
    ASSUME NEW S, NEW ss \in Seq(Seq(S)), ss # <<>>
    PROVE  \E f \in [1..Len(ss) -> Seq(S)] :
             /\ f[1] = ss[1]
             /\ \A i \in 2..Len(ss) : f[i] = f[i - 1] \o ss[i]
             /\ FlattenSeq(ss) = f[Len(ss)]
  <1> DEFINE n == Len(ss)
             D == 1..n
             R == Seq(S)
             Once(f, i) == IF i = 1 THEN ss[i] ELSE f[i - 1] \o ss[i]
             size == [i \in D |-> i]
             step == [f \in [D -> R] |-> [i \in D |-> Once(f, i)]]
  <1>1. /\ n \in Nat /\ n > 0 /\ Len(ss) # 0
        /\ \A i \in D : i \in Nat /\ ss[i] \in R
        /\ \A i \in D : i # 1 => i - 1 \in D /\ i - 1 < i
        /\ \A i \in 2..n : i \in D /\ i # 1
        /\ 1 \in D /\ n \in D
    <2>1. Len(ss) \in Nat /\ Len(ss) # 0 /\ \A i \in 1..Len(ss) : ss[i] \in Seq(S)
      BY LenProperties, EmptySeq
    <2> QED  BY <2>1
  <1> HIDE DEF n
  <1>2. \A r, s \in R : r \o s \in R
    BY ConcatProperties
  <1> HIDE DEF R
  <1>3. ASSUME NEW f \in [D -> R], NEW i \in D
        PROVE  Once(f, i) \in R
    BY <1>1, <1>2
  <1>4. Descends(D, [D -> R], size, step)
    <2>1. \A i \in D : size[i] \in Nat
      BY <1>1
    <2>2. \A f \in [D -> R] : step[f] \in [D -> R]
      <3>1. \A f \in [D -> R], i \in D : Once(f, i) \in R
        BY <1>3
      <3> HIDE DEF Once
      <3> QED  BY <3>1
    <2>3. ASSUME NEW f \in [D -> R], NEW g \in [D -> R], NEW x \in D,
                 \A y \in D : size[y] < size[x] => f[y] = g[y]
          PROVE  step[f][x] = step[g][x]
      <3>1. x # 1 => f[x - 1] = g[x - 1]
        BY <1>1, <2>3
      <3> QED  BY <3>1
    <2> HIDE DEF size, step
    <2> QED  BY <2>1, <2>2, <2>3 DEF Descends
  <1>5. R # {}
    BY <1>1
  <1>6. \E f \in [D -> R] : f = step[f]
    <2> HIDE DEF D, size, step, Once
    <2>1. Descends(D, [D -> R], size, step) /\ R # {}
      BY <1>4, <1>5
    <2> QED  BY ONLY <2>1, RecursionSolved, SMTT(90)
  <1>7. PICK f \in [D -> R] : f = [i \in D |-> Once(f, i)]
    BY <1>6
  <1> DEFINE g == CHOOSE h : h = [i \in 1..n |-> IF i = 1 THEN ss[i] ELSE h[i - 1] \o ss[i]]
  <1>8. g = [i \in D |-> Once(g, i)]
    BY <1>7
  <1>9. FlattenSeq(ss) = g[n]
    BY <1>1 DEF FlattenSeq, n
  <1> HIDE DEF g
  <1>10. \A i \in D : g[i] = Once(g, i)
    BY <1>8
  <1>11. \A i \in D : g[i] \in R
    <2> SUFFICES ASSUME NEW i \in D, g[i] \notin R
                 PROVE  FALSE
      OBVIOUS
    <2> DEFINE T == {k \in Nat : k \in D /\ g[k] \notin R}
    <2>1. T \in SUBSET Nat /\ T # {}
      BY <1>1
    <2>2. PICK k \in T : \A l \in T : k <= l
      <3> HIDE DEF T
      <3> QED  BY <2>1, LeastOf
    <2>3. k # 1 => g[k - 1] \in R
      <3> SUFFICES ASSUME k # 1
                   PROVE  g[k - 1] \in R
        OBVIOUS
      <3>1. k - 1 \in Nat /\ k - 1 \in D /\ ~(k <= k - 1)
        BY <1>1
      <3> QED  BY <2>2, <3>1
    <2> QED  BY <1>1, <1>2, <1>10, <2>3
  <1>12. g \in [D -> R]
    BY <1>8, <1>11
  <1>13. g[1] = ss[1] /\ \A i \in 2..n : g[i] = g[i - 1] \o ss[i]
    BY <1>1, <1>10
  <1> QED  BY <1>9, <1>12, <1>13 DEF n, R

\* A further piece comes last.
LEMMA FlattenLast ==
    ASSUME NEW S, NEW ss \in Seq(Seq(S)), NEW s \in Seq(S)
    PROVE  /\ FlattenSeq(ss) \in Seq(S)
           /\ FlattenSeq(Append(ss, s)) = FlattenSeq(ss) \o s
  <1> DEFINE all == Append(ss, s)
             n == Len(ss)
  <1>1. /\ n \in Nat
        /\ all \in Seq(Seq(S)) /\ all # <<>> /\ Len(all) = n + 1
        /\ \A i \in 1..n : all[i] = ss[i]
        /\ all[n + 1] = s
    BY AppendProperties, LenProperties, EmptySeq
  <1> HIDE DEF all
  <1>2. PICK g \in [1..(n + 1) -> Seq(S)] :
          /\ g[1] = all[1]
          /\ \A i \in 2..(n + 1) : g[i] = g[i - 1] \o all[i]
          /\ FlattenSeq(all) = g[n + 1]
    <2>1. PICK g \in [1..Len(all) -> Seq(S)] :
            /\ g[1] = all[1]
            /\ \A i \in 2..Len(all) : g[i] = g[i - 1] \o all[i]
            /\ FlattenSeq(all) = g[Len(all)]
      BY <1>1, Flattened
    <2> HIDE DEF n
    <2> QED  BY <1>1, <2>1
  <1>3. CASE ss = <<>>
    <2>1. n = 0 /\ FlattenSeq(ss) = <<>>
      BY <1>3, EmptySeq DEF FlattenSeq
    <2>2. FlattenSeq(all) = s
      BY <1>1, <1>2, <2>1
    <2>3. <<>> \o s = s /\ <<>> \in Seq(S)
      BY ConcatEmptySeq, EmptySeq
    <2> QED  BY <2>1, <2>2, <2>3 DEF all
  <1>4. CASE ss # <<>>
    <2>1. PICK f \in [1..n -> Seq(S)] :
            /\ f[1] = ss[1]
            /\ \A i \in 2..n : f[i] = f[i - 1] \o ss[i]
            /\ FlattenSeq(ss) = f[n]
      BY <1>4, Flattened
    <2>2. n > 0
      BY <1>1, <1>4, EmptySeq
    <2>3. \A i \in 1..n : g[i] = f[i]
      <3> SUFFICES ASSUME NEW i \in 1..n, g[i] # f[i]
                   PROVE  FALSE
        OBVIOUS
      <3> DEFINE T == {k \in Nat : k \in 1..n /\ g[k] # f[k]}
      <3>1. T \in SUBSET Nat /\ T # {}
        <4>1. i \in T
          OBVIOUS
        <4> QED  BY <4>1
      <3>2. PICK k \in T : \A l \in T : k <= l
        <4> HIDE DEF T
        <4> QED  BY <3>1, LeastOf
      <3>3. k # 1
        BY <1>1, <1>2, <2>1
      <3>4. k - 1 \in Nat /\ k - 1 \in 1..n /\ ~(k <= k - 1) /\ k \in 2..n /\ k \in 2..(n + 1)
        BY <1>1, <3>3
      <3>5. g[k - 1] = f[k - 1]
        BY <3>2, <3>4
      <3>6. all[k] = ss[k]
        BY <1>1
      <3> HIDE DEF T
      <3>7. g[k] = g[k - 1] \o all[k] /\ f[k] = f[k - 1] \o ss[k]
        BY <1>2, <2>1, <3>4
      <3> QED  BY <3>2, <3>5, <3>6, <3>7 DEF T
    <2>4. n + 1 \in 2..(n + 1) /\ (n + 1) - 1 = n /\ n \in 1..n
      BY <1>1, <2>2
    <2>5. FlattenSeq(all) = f[n] \o s
      BY <1>1, <1>2, <2>3, <2>4
    <2> QED  BY <2>1, <2>4, <2>5 DEF all
  <1> QED  BY <1>3, <1>4

\* Empty pieces add nothing.
LEMMA FlattenQuiet ==
    ASSUME NEW S, NEW ss \in Seq(Seq(S)), NEW n \in 0..Len(ss),
           \A i \in (n + 1)..Len(ss) : ss[i] = <<>>
    PROVE  FlattenSeq(ss) = FlattenSeq(SubSeq(ss, 1, n))
  <1> DEFINE To(k) == SubSeq(ss, 1, k)
             T == {k \in Nat : k \in n..Len(ss) /\ FlattenSeq(To(k)) # FlattenSeq(To(n))}
  <1>1. Len(ss) \in Nat /\ n \in Nat /\ n <= Len(ss)
    BY LenProperties
  <1>2. \A k \in 0..Len(ss) :
          /\ To(k) \in Seq(Seq(S)) /\ Len(To(k)) = k
          /\ \A i \in 1..k : To(k)[i] = ss[i]
    <2> TAKE k \in 0..Len(ss)
    <2>1. /\ 1 \in 1..(Len(ss) + 1) /\ k \in (1 - 1)..Len(ss) /\ k - 1 + 1 = k
          /\ \A i \in 1..k : 1 + i - 1 = i
      BY <1>1
    <2> QED  BY <2>1, SubSeqProperties
  <1> HIDE DEF To
  <1>3. T = {}
    <2> SUFFICES ASSUME T # {}
                 PROVE  FALSE
      OBVIOUS
    <2>1. PICK k \in T : \A l \in T : k <= l
      <3>1. T \in SUBSET Nat
        OBVIOUS
      <3> HIDE DEF T
      <3> QED  BY <3>1, LeastOf
    <2>2. k # n
      OBVIOUS
    <2>3. k - 1 \in Nat /\ k - 1 \in n..Len(ss) /\ ~(k <= k - 1) /\ k \in (n + 1)..Len(ss)
          /\ k - 1 \in 0..Len(ss) /\ k \in 0..Len(ss)
      BY <1>1, <2>2
    <2>4. FlattenSeq(To(k - 1)) = FlattenSeq(To(n))
      BY <2>1, <2>3
    <2>5. To(k) = Append(To(k - 1), <<>>)
      <3> DEFINE a == Append(To(k - 1), <<>>)
      <3>1. <<>> \in Seq(S)
        BY EmptySeq
      <3>2. /\ a \in Seq(Seq(S)) /\ Len(a) = k
            /\ \A i \in 1..(k - 1) : a[i] = ss[i]
            /\ a[k] = <<>>
        <4> DEFINE t == To(k - 1)
        <4>1. t \in Seq(Seq(S)) /\ Len(t) = k - 1 /\ (k - 1) + 1 = k
              /\ \A i \in 1..(k - 1) : t[i] = ss[i]
          <5>1. \A j \in 0..Len(ss) :
                  To(j) \in Seq(Seq(S)) /\ Len(To(j)) = j /\ \A i \in 1..j : To(j)[i] = ss[i]
            BY <1>2
          <5> DEFINE j == k - 1
          <5>2. j \in 0..Len(ss) /\ j + 1 = k
            BY <2>3
          <5> HIDE DEF j, T
          <5> QED  BY <5>1, <5>2 DEF j
        <4> HIDE DEF t
        <4>2. /\ Append(t, <<>>) \in Seq(Seq(S))
              /\ Len(Append(t, <<>>)) = Len(t) + 1
              /\ \A i \in 1..Len(t) : Append(t, <<>>)[i] = t[i]
              /\ Append(t, <<>>)[Len(t) + 1] = <<>>
          BY <3>1, <4>1, AppendProperties
        <4> QED  BY <4>1, <4>2 DEF t
      <3>3. ss[k] = <<>>
        BY <2>3
      <3>4. \A i \in 1..k : To(k)[i] = a[i]
        <4> SUFFICES ASSUME NEW i \in 1..k
                     PROVE  To(k)[i] = a[i]
          OBVIOUS
        <4>1. i = k \/ i \in 1..(k - 1)
          BY <2>3
        <4>2. To(k)[i] = ss[i]
          BY <1>2, <2>3
        <4> HIDE DEF a, To
        <4> QED  BY <3>2, <3>3, <4>1, <4>2
      <3> DEFINE b == To(k)
                 R == Seq(S)
      <3>5. b \in Seq(R) /\ Len(b) = k
        BY <1>2, <2>3
      <3>6. a \in Seq(R) /\ Len(a) = k /\ \A i \in 1..k : b[i] = a[i]
        BY <3>2, <3>4
      <3> HIDE DEF a, b, R
      <3>7. a = b
        BY <3>5, <3>6, SeqEqual
      <3> QED  BY <3>7 DEF a, b
    <2>6. FlattenSeq(To(k)) = FlattenSeq(To(k - 1)) \o <<>>
      BY <1>2, <2>3, <2>5, FlattenLast, EmptySeq
    <2>7. FlattenSeq(To(k - 1)) \in Seq(S)
      BY <1>2, <2>3, FlattenLast, EmptySeq
    <2>8. FlattenSeq(To(k)) = FlattenSeq(To(k - 1))
      BY <2>6, <2>7, ConcatEmptySeq
    <2> QED  BY <2>1, <2>4, <2>8
  <1>4. FlattenSeq(To(Len(ss))) = FlattenSeq(To(n))
    BY <1>1, <1>3
  <1>5. To(Len(ss)) = ss
    <2>1. Len(ss) \in 0..Len(ss)
      BY <1>1
    <2> DEFINE t == To(Len(ss))
    <2>2. t \in Seq(Seq(S)) /\ Len(t) = Len(ss) /\ \A i \in 1..Len(t) : t[i] = ss[i]
      BY <1>2, <2>1
    <2> HIDE DEF t
    <2> QED  BY <2>2, SeqEqual DEF t
  <1> QED  BY <1>4, <1>5 DEF To

-----------------------------------------------------------------------------
(* One event after the other                                               *)

\* The messages on the way through a sequence of events.
LEMMA Handled ==
    ASSUME NEW m, NEW events, Len(events) \in Nat
    PROVE  \E f : /\ f[0] = m
                  /\ \A i \in 1..Len(events) : f[i] = Handle(f[i - 1], events[i])
                  /\ HandleAll(m, events) = f[Len(events)]
  <1> DEFINE n == Len(events)
             Once(f, i) == IF i = 0 THEN m ELSE Handle(f[i - 1], events[i])
             Solves(f, k) == f = [i \in 0..k |-> Once(f, i)]
             T == {k \in Nat : k \in 0..n /\ ~\E f : Solves(f, k)}
  <1>1. T = {}
    <2> SUFFICES ASSUME T # {}
                 PROVE  FALSE
      OBVIOUS
    <2>1. PICK k \in T : \A l \in T : k <= l
      <3>1. T \in SUBSET Nat
        OBVIOUS
      <3> HIDE DEF T
      <3> QED  BY <3>1, LeastOf
    <2>2. CASE k = 0
      <3> DEFINE h == [i \in 0..0 |-> m]
      <3>1. Solves(h, 0)
        OBVIOUS
      <3> HIDE DEF h, Solves
      <3> QED  BY <2>2, <3>1
    <2>3. CASE k # 0
      <3> DEFINE j == k - 1
      <3>1. j \in Nat /\ j \in 0..n /\ ~(k <= j) /\ k = j + 1
        BY <2>3
      <3> HIDE DEF j
      <3>2. j \notin T
        BY <2>1, <3>1
      <3>3. PICK f : Solves(f, j)
        BY <3>1, <3>2
      <3> DEFINE last == Handle(f[j], events[k])
                 h == [i \in 0..k |-> IF i <= j THEN f[i] ELSE last]
      <3>4. \A i \in 0..j : f[i] = Once(f, i)
        BY <3>3
      <3>5. ASSUME NEW i \in 0..k
            PROVE  h[i] = Once(h, i)
        <4>1. CASE i = k
          <5>1. i # 0 /\ ~(i <= j) /\ i - 1 = j /\ j \in 0..k /\ j <= j
            BY <3>1, <4>1
          <5>2. h[i] = last /\ h[i - 1] = f[j]
            BY <5>1
          <5> QED  BY <4>1, <5>1, <5>2
        <4>2. CASE i # k
          <5>1. i <= j /\ i \in 0..j /\ (i # 0 => i - 1 \in 0..k /\ i - 1 <= j)
            BY <3>1, <4>2
          <5>2. h[i] = f[i] /\ (i # 0 => h[i - 1] = f[i - 1])
            BY <5>1
          <5> HIDE DEF h
          <5> QED  BY <3>4, <5>1, <5>2
        <4> QED  BY <4>1, <4>2
      <3>6. h = [i \in 0..k |-> h[i]]
        OBVIOUS
      <3> HIDE DEF h
      <3>7. Solves(h, k)
        BY <3>5, <3>6
      <3> HIDE DEF Solves
      <3> QED  BY <3>7
    <2> QED  BY <2>2, <2>3
  <1>2. n \in 0..n /\ n \in Nat
    OBVIOUS
  <1>3. \E f : Solves(f, n)
    BY <1>1, <1>2
  <1> DEFINE g == CHOOSE f : f = [i \in 0..Len(events) |->
                                    IF i = 0 THEN m ELSE Handle(f[i - 1], events[i])]
  <1>4. Solves(g, n)
    BY <1>3
  <1>5. HandleAll(m, events) = g[n]
    BY DEF HandleAll
  <1> HIDE DEF g
  <1>6. \A i \in 0..n : g[i] = Once(g, i)
    BY <1>4
  <1>7. g[0] = m /\ \A i \in 1..n : g[i] = Handle(g[i - 1], events[i])
    <2>1. 0 \in 0..n /\ \A i \in 1..n : i \in 0..n /\ i # 0
      BY <1>2
    <2> HIDE DEF n
    <2> QED  BY <1>6, <2>1
  <1> QED  BY <1>5, <1>7

\* What every event keeps, or leads on, all of them lead to.
LEMMA HandledAll ==
    ASSUME NEW events, NEW n \in Nat, Len(events) = n,
           NEW good, NEW m \in good[0],
           \A i \in 1..n : \A x \in good[i - 1] : Handle(x, events[i]) \in good[i]
    PROVE  HandleAll(m, events) \in good[n]
  <1>1. PICK f : /\ f[0] = m
                 /\ \A i \in 1..n : f[i] = Handle(f[i - 1], events[i])
                 /\ HandleAll(m, events) = f[n]
    BY Handled
  <1> DEFINE T == {k \in Nat : k \in 0..n /\ f[k] \notin good[k]}
  <1>2. T = {}
    <2> SUFFICES ASSUME T # {}
                 PROVE  FALSE
      OBVIOUS
    <2>1. PICK k \in T : \A l \in T : k <= l
      <3>1. T \in SUBSET Nat
        OBVIOUS
      <3> HIDE DEF T
      <3> QED  BY <3>1, LeastOf
    <2>2. k # 0
      BY <1>1
    <2>3. k \in 1..n /\ k - 1 \in Nat /\ k - 1 \in 0..n /\ ~(k <= k - 1)
      BY <2>2
    <2>4. f[k - 1] \in good[k - 1]
      BY <2>1, <2>3
    <2> QED  BY <1>1, <2>3, <2>4
  <1> QED  BY <1>1, <1>2

-----------------------------------------------------------------------------
(* The message in the window                                               *)

\* A step of a message, and a message.
TextSteps == [type : {"text"}, text : Seq(Letters)]
ThoughtSteps == [type : {"thinking"}, text : Seq(Letters \cup {"r"}), finished : BOOLEAN]
ToolSteps == [type : {"tool"}, call : Nat \X Nat, name : Tools,
              status : {"running", "completed"}, result : {"none"} \cup (Nat \X Nat)]
ConfirmSteps == [type : {"confirm"}, call : Nat \X Nat, status : {"pending", "answered"}]
Steps == TextSteps \cup ThoughtSteps \cup ToolSteps \cup ConfirmSteps

Messages ==
    [content : Seq(Letters), thoughts : Seq(Letters \cup {"r"}), pieces : 0..2,
     steps : Seq(Steps), early : Seq(Letters), live : BOOLEAN]

\* The whole text is shown.
TextShown(m) == m.early \o ShownText(m) = m.content /\ (m.steps = <<>> => m.early = <<>>)

\* The thoughts are shown whole from their second piece on.
ThoughtsShown(m) ==
    /\ m.pieces > 0 => HasThoughts(m.steps)
    /\ m.pieces > 1 =>
         \A i \in DOMAIN m.steps : m.steps[i].type = "thinking" => m.steps[i].text = m.thoughts

\* A completed tool shows its own result, unless another one is of its name.
ResultsOwn(steps) ==
    \A i \in DOMAIN steps :
      steps[i].type = "tool" /\ steps[i].status = "completed" =>
        \/ steps[i].result = steps[i].call
        \/ \E j \in DOMAIN steps \ {i} : steps[j].type = "tool" /\ steps[j].name = steps[i].name

\* The steps of one call are of one tool.
OneName(steps) ==
    \A i, j \in DOMAIN steps :
      steps[i].type = "tool" /\ steps[j].type = "tool" /\ steps[i].call = steps[j].call =>
        steps[i].name = steps[j].name

\* The calls shown are of the first n turns.
UpTo(steps, n) == \A i \in DOMAIN steps : steps[i].type = "tool" => steps[i].call[1] <= n

\* There is a step of the call by its name.
ShowsCall(steps, call, name) ==
    \E i \in DOMAIN steps :
      steps[i].type = "tool" /\ steps[i].call = call /\ steps[i].name = name

Windows ==
    {m \in Messages : TextShown(m) /\ ThoughtsShown(m) /\ ResultsOwn(m.steps) /\ OneName(m.steps)}

\* What the types of steps say.
LEMMA StepFacts ==
    ASSUME NEW s \in Steps
    PROVE  /\ s.type \in {"text", "thinking", "tool", "confirm"}
           /\ s.type = "text" <=> s \in TextSteps
           /\ s.type = "thinking" <=> s \in ThoughtSteps
           /\ s.type = "tool" <=> s \in ToolSteps
           /\ s.type = "confirm" <=> s \in ConfirmSteps
           /\ TextIn(s) \in Seq(Letters)
           /\ s.type # "text" => TextIn(s) = <<>>
  <1>1. /\ \A t \in TextSteps : t.type = "text"
        /\ \A t \in ThoughtSteps : t.type = "thinking"
        /\ \A t \in ToolSteps : t.type = "tool"
        /\ \A t \in ConfirmSteps : t.type = "confirm"
    BY DEF TextSteps, ThoughtSteps, ToolSteps, ConfirmSteps
  <1>2. s \in TextSteps \/ s \in ThoughtSteps \/ s \in ToolSteps \/ s \in ConfirmSteps
    BY DEF Steps
  <1>3. \A t \in TextSteps : t.text \in Seq(Letters)
    BY DEF TextSteps
  <1>4. <<>> \in Seq(Letters)
    BY EmptySeq
  <1>5. TextIn(s) \in Seq(Letters) /\ (s.type # "text" => TextIn(s) = <<>>)
    BY <1>1, <1>2, <1>3, <1>4 DEF TextIn
  <1> QED  BY <1>1, <1>2, <1>5

\* What the types of a message say.
LEMMA MessageFacts ==
    ASSUME NEW m \in Messages
    PROVE  /\ m.content \in Seq(Letters) /\ m.early \in Seq(Letters)
           /\ m.thoughts \in Seq(Letters \cup {"r"})
           /\ m.steps \in Seq(Steps) /\ m.pieces \in 0..2 /\ m.live \in BOOLEAN
           /\ Len(m.steps) \in Nat /\ DOMAIN m.steps = 1..Len(m.steps)
           /\ \A i \in DOMAIN m.steps : m.steps[i] \in Steps
  <1>1. /\ m.content \in Seq(Letters) /\ m.early \in Seq(Letters)
        /\ m.thoughts \in Seq(Letters \cup {"r"})
        /\ m.steps \in Seq(Steps) /\ m.pieces \in 0..2 /\ m.live \in BOOLEAN
    BY DEF Messages
  <1>2. \A s \in Seq(Steps) :
          Len(s) \in Nat /\ DOMAIN s = 1..Len(s) /\ \A i \in DOMAIN s : s[i] \in Steps
    BY LenProperties
  <1> QED  BY <1>1, <1>2

\* The text of steps.
Texts(steps) == [i \in DOMAIN steps |-> TextIn(steps[i])]
TextOf(steps) == FlattenSeq(Texts(steps))

\* The texts of steps are a sequence of texts.
LEMMA TextsFacts ==
    ASSUME NEW steps \in Seq(Steps)
    PROVE  /\ Texts(steps) \in Seq(Seq(Letters)) /\ Len(Texts(steps)) = Len(steps)
           /\ \A i \in 1..Len(steps) : Texts(steps)[i] = TextIn(steps[i])
           /\ TextOf(steps) \in Seq(Letters)
           /\ TextOf(<<>>) = <<>>
  <1>1. Len(steps) \in Nat /\ DOMAIN steps = 1..Len(steps)
        /\ \A i \in 1..Len(steps) : steps[i] \in Steps
    BY LenProperties
  <1>2. \A i \in 1..Len(steps) : TextIn(steps[i]) \in Seq(Letters)
    BY <1>1, StepFacts
  <1> DEFINE n == Len(steps)
             f == [i \in 1..n |-> TextIn(steps[i])]
  <1>3. Texts(steps) = f
    BY <1>1 DEF Texts
  <1>4. f \in Seq(Seq(Letters)) /\ Len(f) = n /\ \A i \in 1..n : f[i] = TextIn(steps[i])
    <2>1. n \in Nat
      BY <1>1
    <2> HIDE DEF n
    <2> QED  BY <1>2, <2>1, IsASeq DEF n
  <1>5. TextOf(steps) \in Seq(Letters)
    <2> HIDE DEF f, n
    <2>1. <<>> \in Seq(Letters)
      BY EmptySeq
    <2> QED  BY <1>3, <1>4, <2>1, FlattenLast DEF TextOf
  <1>6. TextOf(<<>>) = <<>>
    <2>1. \A g : FlattenSeq(g) = IF Len(g) = 0 THEN g ELSE FlattenSeq(g)
      BY DEF FlattenSeq
    <2>2. Texts(<<>>) = <<>>
      BY DEF Texts
    <2>3. Len(<<>>) = 0
      BY EmptySeq
    <2> QED  BY <2>1, <2>2, <2>3 DEF TextOf
  <1> HIDE DEF f, n
  <1> QED  BY <1>3, <1>4, <1>5, <1>6 DEF n

\* A further step adds its text.
LEMMA TextOfLast ==
    ASSUME NEW steps \in Seq(Steps), NEW s \in Steps
    PROVE  TextOf(Append(steps, s)) = TextOf(steps) \o TextIn(s)
  <1> DEFINE all == Append(steps, s)
             a == Texts(steps)
             t == TextIn(s)
             n == Len(steps)
  <1>1. /\ all \in Seq(Steps) /\ Len(all) = n + 1 /\ n \in Nat
        /\ \A i \in 1..n : all[i] = steps[i]
        /\ all[n + 1] = s
    BY AppendProperties, LenProperties
  <1> HIDE DEF all
  <1>2. t \in Seq(Letters)
    BY StepFacts
  <1>3. a \in Seq(Seq(Letters)) /\ Len(a) = n /\ \A i \in 1..n : a[i] = TextIn(steps[i])
    BY TextsFacts
  <1>4. /\ Texts(all) \in Seq(Seq(Letters)) /\ Len(Texts(all)) = n + 1
        /\ \A i \in 1..(n + 1) : Texts(all)[i] = TextIn(all[i])
    BY <1>1, TextsFacts
  <1> DEFINE b == Texts(all)
             R == Seq(Letters)
  <1> HIDE DEF a, b, n, R, t
  <1>5. /\ Append(a, t) \in Seq(R) /\ Len(Append(a, t)) = n + 1
        /\ \A i \in 1..n : Append(a, t)[i] = a[i]
        /\ Append(a, t)[n + 1] = t
    BY <1>2, <1>3, AppendProperties DEF R
  <1> DEFINE c == Append(a, t)
  <1> HIDE DEF c
  <1>6. \A i \in 1..(n + 1) : b[i] = c[i]
    <2> SUFFICES ASSUME NEW i \in 1..(n + 1)
                 PROVE  b[i] = c[i]
      OBVIOUS
    <2>1. i \in 1..n \/ i = n + 1
      BY <1>1
    <2> QED  BY <1>1, <1>3, <1>4, <1>5, <2>1 DEF b, c, t
  <1>7. b = c
    BY <1>1, <1>4, <1>5, <1>6, SeqEqual DEF b, c, R
  <1>8. FlattenSeq(c) = FlattenSeq(a) \o t
    BY <1>2, <1>3, FlattenLast DEF c, R
  <1> QED  BY <1>7, <1>8 DEF TextOf, a, b, t, all

\* Steps of the same texts, and further ones without any, have the same text.
LEMMA TextOfSame ==
    ASSUME NEW s \in Seq(Steps), NEW t \in Seq(Steps), Len(s) <= Len(t),
           \A i \in 1..Len(s) : TextIn(t[i]) = TextIn(s[i]),
           \A i \in (Len(s) + 1)..Len(t) : t[i].type # "text"
    PROVE  TextOf(t) = TextOf(s)
  <1> DEFINE a == Texts(s)
             b == Texts(t)
             n == Len(s)
             l == Len(t)
             R == Seq(Letters)
             c == SubSeq(b, 1, n)
  <1>1. n \in Nat /\ l \in Nat /\ n <= l /\ n \in 0..l
    BY LenProperties
  <1>2. a \in Seq(R) /\ Len(a) = n /\ \A i \in 1..n : a[i] = TextIn(s[i])
    BY TextsFacts
  <1>3. b \in Seq(R) /\ Len(b) = l /\ \A i \in 1..l : b[i] = TextIn(t[i])
    BY TextsFacts
  <1>4. \A i \in (n + 1)..l : b[i] = <<>>
    <2> SUFFICES ASSUME NEW i \in (n + 1)..l
                 PROVE  b[i] = <<>>
      OBVIOUS
    <2>1. i \in 1..l
      BY <1>1
    <2>2. t[i] \in Steps
      BY <2>1, LenProperties
    <2> QED  BY <1>3, <2>1, <2>2, StepFacts
  <1> HIDE DEF a, b, n, l, R
  <1>5. c \in Seq(R) /\ Len(c) = n /\ \A i \in 1..n : c[i] = b[i]
    <2>1. /\ 1 \in Int /\ n \in Int /\ n - 1 + 1 = n /\ (~(1 <= n) => n = 0)
          /\ \A i \in 1..n : 1 + i - 1 = i /\ i \in 1..l
      BY <1>1
    <2>2. \A i \in 1..n : b[i] \in R
      BY <1>3, <2>1, LenProperties
    <2> QED  BY <2>1, <2>2, SubSeqProperties
  <1> HIDE DEF c
  <1>6. a = c
    <2>1. \A i \in 1..n : a[i] = c[i]
      <3> SUFFICES ASSUME NEW i \in 1..n
                   PROVE  a[i] = c[i]
        OBVIOUS
      <3>1. i \in 1..l
        BY <1>1
      <3>2. TextIn(t[i]) = TextIn(s[i])
        BY DEF n
      <3> QED  BY <1>2, <1>3, <1>5, <3>1, <3>2
    <2> QED  BY <1>2, <1>5, <2>1, SeqEqual
  <1>7. FlattenSeq(b) = FlattenSeq(c)
    BY <1>1, <1>3, <1>4, FlattenQuiet DEF c, R
  <1> QED  BY <1>6, <1>7 DEF TextOf, a, b

\* The tools of steps are those of others, in the same places.
ToolsKept(s, t) ==
    /\ \A i \in DOMAIN s : s[i].type = "tool" => i \in DOMAIN t /\ t[i] = s[i]
    /\ \A i \in DOMAIN t : t[i].type = "tool" => i \in DOMAIN s /\ t[i] = s[i]

\* So are the thoughts.
ThoughtsKept(s, t) ==
    /\ \A i \in DOMAIN s : s[i].type = "thinking" => i \in DOMAIN t /\ t[i].type = "thinking"
    /\ \A i \in DOMAIN t :
         t[i].type = "thinking" =>
           i \in DOMAIN s /\ s[i].type = "thinking" /\ t[i].text = s[i].text

\* What is said of tools stays true where they are kept.
LEMMA ToolsKeptFacts ==
    ASSUME NEW s, NEW t, ToolsKept(s, t)
    PROVE  /\ ResultsOwn(s) => ResultsOwn(t)
           /\ OneName(s) => OneName(t)
           /\ \A n : UpTo(s, n) => UpTo(t, n)
           /\ \A call, name : ShowsCall(s, call, name) => ShowsCall(t, call, name)
  <1>1. ResultsOwn(s) => ResultsOwn(t)
    <2> SUFFICES ASSUME ResultsOwn(s), NEW i \in DOMAIN t,
                        t[i].type = "tool", t[i].status = "completed", t[i].result # t[i].call
                 PROVE  \E j \in DOMAIN t \ {i} : t[j].type = "tool" /\ t[j].name = t[i].name
      BY DEF ResultsOwn
    <2>1. i \in DOMAIN s /\ t[i] = s[i]
      BY DEF ToolsKept
    <2>2. PICK j \in DOMAIN s \ {i} : s[j].type = "tool" /\ s[j].name = s[i].name
      BY <2>1 DEF ResultsOwn
    <2>3. j \in DOMAIN t /\ t[j] = s[j]
      BY <2>2 DEF ToolsKept
    <2> QED  BY <2>1, <2>2, <2>3
  <1>2. OneName(s) => OneName(t)
    BY DEF ToolsKept, OneName
  <1>3. \A n : UpTo(s, n) => UpTo(t, n)
    BY DEF ToolsKept, UpTo
  <1>4. \A call, name : ShowsCall(s, call, name) => ShowsCall(t, call, name)
    BY DEF ToolsKept, ShowsCall
  <1> QED  BY <1>1, <1>2, <1>3, <1>4

\* What is said of thoughts stays true where they are kept.
LEMMA ThoughtsKeptFacts ==
    ASSUME NEW m, NEW q, ThoughtsKept(m.steps, q.steps),
           q.pieces = m.pieces, q.thoughts = m.thoughts, ThoughtsShown(m)
    PROVE  ThoughtsShown(q)
  BY DEF ThoughtsKept, ThoughtsShown, HasThoughts

\* Keeping and keeping again is keeping.
LEMMA KeptTwice ==
    ASSUME NEW r, NEW s, NEW t
    PROVE  /\ ToolsKept(r, s) /\ ToolsKept(s, t) => ToolsKept(r, t)
           /\ ThoughtsKept(r, s) /\ ThoughtsKept(s, t) => ThoughtsKept(r, t)
  BY DEF ToolsKept, ThoughtsKept

\* Thoughts that are finished are thoughts.
LEMMA FinishFacts ==
    ASSUME NEW s \in Seq(Steps)
    PROVE  LET t == FinishThoughts(s)
           IN /\ t \in Seq(Steps) /\ Len(t) = Len(s)
              /\ ToolsKept(s, t) /\ ThoughtsKept(s, t)
              /\ TextOf(t) = TextOf(s)
              /\ \A i \in DOMAIN t : t[i].type = "thinking" => t[i].finished
              /\ \A i \in DOMAIN s : s[i].type # "thinking" => t[i] = s[i]
  <1> DEFINE n == Len(s)
             Finish(step) == [step EXCEPT !.finished = TRUE]
             t == [i \in 1..n |-> IF s[i].type = "thinking" THEN Finish(s[i]) ELSE s[i]]
  <1>1. n \in Nat /\ DOMAIN s = 1..n /\ \A i \in 1..n : s[i] \in Steps
    BY LenProperties
  <1>2. FinishThoughts(s) = t
    BY <1>1 DEF FinishThoughts
  <1>3. ASSUME NEW step \in ThoughtSteps
        PROVE  /\ Finish(step) \in ThoughtSteps
               /\ Finish(step).text = step.text /\ Finish(step).finished
    BY DEF ThoughtSteps
  <1> HIDE DEF n, Finish
  <1>4. \A i \in 1..n :
          /\ t[i] \in Steps /\ t[i].type = s[i].type
          /\ s[i].type # "thinking" => t[i] = s[i]
          /\ s[i].type = "thinking" => t[i].text = s[i].text /\ t[i].finished
    <2> TAKE i \in 1..n
    <2>1. CASE s[i].type = "thinking"
      <3>1. s[i] \in ThoughtSteps
        BY <1>1, <2>1, StepFacts
      <3>2. t[i] = Finish(s[i])
        BY <2>1
      <3>3. t[i] \in ThoughtSteps /\ t[i].text = s[i].text /\ t[i].finished
        BY <1>3, <3>1, <3>2
      <3>4. t[i] \in Steps /\ t[i].type = "thinking"
        BY <3>3, StepFacts DEF Steps
      <3> QED  BY <2>1, <3>3, <3>4
    <2>2. CASE s[i].type # "thinking"
      BY <1>1, <2>2
    <2> QED  BY <2>1, <2>2
  <1>5. t \in Seq(Steps) /\ Len(t) = n /\ DOMAIN t = 1..n
    <2>1. t = [i \in 1..n |-> t[i]]
      OBVIOUS
    <2> HIDE DEF t
    <2> QED  BY <1>1, <1>4, <2>1, IsASeq, LenProperties
  <1> HIDE DEF t
  <1>6. ToolsKept(s, t) /\ ThoughtsKept(s, t)
    BY <1>1, <1>4, <1>5 DEF ToolsKept, ThoughtsKept
  <1>7. TextOf(t) = TextOf(s)
    <2>1. \A i \in 1..n : TextIn(t[i]) = TextIn(s[i])
      BY <1>4 DEF TextIn
    <2>2. \A i \in (n + 1)..Len(t) : t[i].type # "text"
      BY <1>1, <1>5
    <2> QED  BY <1>1, <1>5, <2>1, <2>2, TextOfSame DEF n
  <1>8. /\ \A i \in DOMAIN t : t[i].type = "thinking" => t[i].finished
        /\ \A i \in DOMAIN s : s[i].type # "thinking" => t[i] = s[i]
    BY <1>1, <1>4, <1>5
  <1> QED  BY <1>2, <1>5, <1>6, <1>7, <1>8 DEF n

\* Text goes on in the last step, or begins a new one.
LEMMA AddTextFacts ==
    ASSUME NEW s \in Seq(Steps), NEW text \in Seq(Letters)
    PROVE  LET t == AddText(s, text)
           IN /\ t \in Seq(Steps) /\ (t = <<>> <=> s = <<>>)
              /\ ToolsKept(s, t) /\ ThoughtsKept(s, t)
              /\ s # <<>> => TextOf(t) = TextOf(s) \o text
  <1> DEFINE n == Len(s)
             more == TextStep(text)
  <1>1. n \in Nat /\ DOMAIN s = 1..n /\ \A i \in 1..n : s[i] \in Steps
    BY LenProperties
  <1>2. more \in Steps /\ more.type = "text" /\ TextIn(more) = text
    BY DEF TextStep, TextSteps, Steps, TextIn
  <1>3. CASE s = <<>>
    BY <1>1, <1>3 DEF AddText, ToolsKept, ThoughtsKept
  <1>4. CASE s # <<>> /\ Last(s).type # "text"
    <2> DEFINE t == Append(s, more)
    <2>1. AddText(s, text) = t
      BY <1>4 DEF AddText
    <2>2. /\ t \in Seq(Steps) /\ t # <<>> /\ DOMAIN t = 1..(n + 1)
          /\ \A i \in 1..n : t[i] = s[i]
          /\ t[n + 1] = more
      BY <1>1, <1>2, AppendProperties, LenProperties
    <2>3. TextOf(t) = TextOf(s) \o text
      BY <1>2, TextOfLast
    <2> HIDE DEF t, more, n
    <2>4. \A i \in 1..(n + 1) : i \in 1..n \/ i = n + 1
      BY <1>1
    <2>5. ToolsKept(s, t) /\ ThoughtsKept(s, t)
      BY <1>1, <1>2, <2>2, <2>4 DEF ToolsKept, ThoughtsKept
    <2> QED  BY <1>4, <2>1, <2>2, <2>3, <2>5
  <1>5. CASE s # <<>> /\ Last(s).type = "text"
    <2> DEFINE last == s[n]
               new == [last EXCEPT !.text = @ \o text]
               t == [s EXCEPT ![n] = new]
               r == SubSeq(s, 1, n - 1)
    <2>1. n \in 1..n /\ n - 1 \in Nat /\ n # 0
      BY <1>1, <1>5, EmptySeq
    <2>2. Last(s) = last
      BY DEF Last
    <2>3. AddText(s, text) = t
      BY <1>5, <2>2 DEF AddText
    <2>4. last \in TextSteps /\ last \in Steps
      BY <1>1, <1>5, <2>1, <2>2, StepFacts
    <2>5. new \in TextSteps /\ new.text = last.text \o text
      BY <2>4, ConcatProperties DEF TextSteps
    <2> HIDE DEF new, last, n
    <2>6. /\ new \in Steps /\ new.type = "text" /\ last.type = "text"
          /\ TextIn(new) = TextIn(last) \o text
          /\ TextIn(last) \in Seq(Letters)
      BY <2>4, <2>5, StepFacts DEF Steps, TextIn
    <2>7. /\ t \in Seq(Steps) /\ DOMAIN t = 1..n /\ Len(t) = n
          /\ \A i \in 1..n : t[i] = IF i = n THEN new ELSE s[i]
      BY <1>1, <2>1, <2>6, ExceptSeq, LenProperties DEF n
    <2>8. /\ r \in Seq(Steps) /\ Len(r) = n - 1
          /\ \A i \in 1..(n - 1) : r[i] = s[i]
      <3>1. /\ 1 \in Int /\ n - 1 \in Int /\ (n - 1) - 1 + 1 = n - 1 /\ (~(1 <= n - 1) => n - 1 = 0)
            /\ \A i \in 1..(n - 1) : 1 + i - 1 = i /\ i \in 1..n
        BY <2>1
      <3> QED  BY <1>1, <3>1, SubSeqProperties
    <2> HIDE DEF t, r
    <2>9. /\ \A i \in 1..n : i \in 1..(n - 1) \/ i = n
          /\ \A i \in 1..(n - 1) : i # n /\ i \in 1..n
          /\ (n - 1) + 1 = n
      BY <2>1
    <2>10. \A step \in Steps :
             /\ Append(r, step) \in Seq(Steps) /\ Len(Append(r, step)) = n
             /\ \A i \in 1..(n - 1) : Append(r, step)[i] = s[i]
             /\ Append(r, step)[n] = step
      BY <2>8, <2>9, AppendProperties
    <2>11. t = Append(r, new)
      <3> DEFINE a == Append(r, new)
      <3>1. /\ a \in Seq(Steps) /\ Len(a) = n
            /\ \A i \in 1..(n - 1) : a[i] = s[i]
            /\ a[n] = new
        BY <2>6, <2>10
      <3> HIDE DEF a
      <3>2. \A i \in 1..n : t[i] = a[i]
        BY <2>7, <2>9, <3>1
      <3>3. t = a
        BY <2>7, <3>1, <3>2, SeqEqual
      <3> QED  BY <3>3 DEF a
    <2>12. s = Append(r, last)
      <3> DEFINE a == Append(r, last)
      <3>1. /\ a \in Seq(Steps) /\ Len(a) = n
            /\ \A i \in 1..(n - 1) : a[i] = s[i]
            /\ a[n] = s[n]
        BY <2>4, <2>10 DEF last
      <3> HIDE DEF a
      <3>2. \A i \in 1..n : s[i] = a[i]
        BY <2>9, <3>1
      <3>3. s = a
        BY <3>1, <3>2, SeqEqual DEF n
      <3> QED  BY <3>3 DEF a
    <2>13. TextOf(t) = TextOf(s) \o text
      <3>1. /\ TextOf(t) = TextOf(r) \o (TextIn(last) \o text)
            /\ TextOf(s) = TextOf(r) \o TextIn(last)
        BY <2>4, <2>6, <2>8, <2>11, <2>12, TextOfLast
      <3> DEFINE x == TextOf(r)
                 y == TextIn(last)
      <3>2. x \in Seq(Letters) /\ y \in Seq(Letters)
        BY <2>6, <2>8, TextsFacts
      <3> HIDE DEF x, y
      <3>3. (x \o y) \o text = x \o (y \o text)
        BY <3>2, TextsAssociate
      <3> QED  BY <3>1, <3>3 DEF x, y
    <2>14. ToolsKept(s, t) /\ ThoughtsKept(s, t)
      <3>1. s[n].type = "text"
        BY <2>6 DEF last
      <3> QED  BY <1>1, <2>6, <2>7, <3>1 DEF ToolsKept, ThoughtsKept, n
    <2>15. t # <<>>
      BY <2>1, <2>7, EmptySeq
    <2> QED  BY <1>5, <2>3, <2>7, <2>13, <2>14, <2>15
  <1> QED  BY <1>3, <1>4, <1>5

\* A message that keeps its tools and thoughts, and shows its text, is a window's.
LEMMA WindowKept ==
    ASSUME NEW m \in Windows, NEW q \in Messages,
           ToolsKept(m.steps, q.steps), ThoughtsKept(m.steps, q.steps),
           q.pieces = m.pieces, q.thoughts = m.thoughts, TextShown(q)
    PROVE  q \in Windows
  <1>1. ThoughtsShown(m) /\ ResultsOwn(m.steps) /\ OneName(m.steps)
    BY DEF Windows
  <1>2. ThoughtsShown(q)
    BY <1>1, ThoughtsKeptFacts
  <1>3. ResultsOwn(q.steps) /\ OneName(q.steps)
    BY <1>1, ToolsKeptFacts
  <1> QED  BY <1>2, <1>3 DEF Windows

\* What is said of a message in the window.
LEMMA WindowFacts ==
    ASSUME NEW m \in Windows
    PROVE  /\ m \in Messages
           /\ m.steps = <<>> => m.early = <<>>
           /\ m.steps # <<>> => m.early \o TextOf(m.steps) = m.content
           /\ ThoughtsShown(m) /\ ResultsOwn(m.steps) /\ OneName(m.steps)
  BY DEF Windows, TextShown, ShownText, TextOf, Texts

\* A message shows its text if its steps do, when it has any.
LEMMA ShowsText ==
    ASSUME NEW q \in Messages,
           q.steps = <<>> => q.early = <<>>,
           q.steps # <<>> => q.early \o TextOf(q.steps) = q.content
    PROVE  TextShown(q)
  <1>1. q.content \in Seq(Letters)
    BY MessageFacts
  <1>2. <<>> \o q.content = q.content
    <2> DEFINE c == q.content
    <2> HIDE DEF c
    <2>1. <<>> \o c = c
      BY <1>1, ConcatEmptySeq DEF c
    <2> QED  BY <2>1 DEF c
  <1> QED  BY <1>2 DEF TextShown, ShownText, TextOf, Texts

\* delta: text.
LEMMA DeltaFacts ==
    ASSUME NEW m \in Windows, NEW e, e.content \in Seq(Letters)
    PROVE  LET q == OnDelta(m, e)
           IN q \in Windows /\ q.live = m.live /\ ToolsKept(m.steps, q.steps)
  <1> DEFINE text == e.content
             s == FinishThoughts(m.steps)
             t == AddText(s, text)
             q == [m EXCEPT !.content = m.content \o text, !.steps = t]
  <1>1. m \in Messages
    BY WindowFacts
  <1>2. m.content \in Seq(Letters) /\ m.early \in Seq(Letters) /\ m.steps \in Seq(Steps)
    BY <1>1, MessageFacts
  <1>3. /\ s \in Seq(Steps) /\ Len(s) = Len(m.steps) /\ TextOf(s) = TextOf(m.steps)
        /\ ToolsKept(m.steps, s) /\ ThoughtsKept(m.steps, s)
    BY <1>2, FinishFacts
  <1>4. s = <<>> <=> m.steps = <<>>
    <2> HIDE DEF s
    <2> QED  BY <1>2, <1>3, EmptySeq
  <1> HIDE DEF s
  <1>5. /\ t \in Seq(Steps) /\ (t = <<>> <=> s = <<>>)
        /\ ToolsKept(s, t) /\ ThoughtsKept(s, t)
        /\ s # <<>> => TextOf(t) = TextOf(s) \o text
    BY <1>3, AddTextFacts
  <1>6. OnDelta(m, e) = q
    BY DEF OnDelta, s
  <1>7. m.content \o text \in Seq(Letters)
    BY <1>2, ConcatProperties
  <1> HIDE DEF t
  <1>8. /\ q \in Messages /\ q.live = m.live /\ q.steps = t /\ q.early = m.early
        /\ q.pieces = m.pieces /\ q.thoughts = m.thoughts
        /\ q.content = m.content \o text
    BY <1>1, <1>5, <1>7 DEF Messages
  <1> HIDE DEF q
  <1>9. TextShown(q)
    <2>1. CASE m.steps = <<>>
      BY <1>4, <1>5, <1>8, <2>1, WindowFacts, ShowsText
    <2>2. CASE m.steps # <<>>
      <3> DEFINE a == m.early
                 b == TextOf(m.steps)
      <3>1. a \in Seq(Letters) /\ b \in Seq(Letters) /\ a \o b = m.content
        BY <1>2, <2>2, TextsFacts, WindowFacts
      <3> HIDE DEF a, b
      <3>2. (a \o b) \o text = a \o (b \o text)
        BY <3>1, TextsAssociate
      <3>3. TextOf(t) = b \o text
        BY <1>3, <1>4, <1>5, <2>2 DEF b
      <3>4. q.early \o TextOf(q.steps) = q.content
        BY <1>8, <3>1, <3>2, <3>3 DEF a
      <3>5. q.steps # <<>>
        BY <1>4, <1>5, <1>8, <2>2
      <3> QED  BY <1>8, <3>4, <3>5, ShowsText
    <2> QED  BY <2>1, <2>2
  <1>10. ToolsKept(m.steps, t) /\ ThoughtsKept(m.steps, t)
    BY <1>3, <1>5, KeptTwice
  <1>11. q \in Windows
    BY <1>8, <1>9, <1>10, WindowKept
  <1> QED  BY <1>6, <1>8, <1>10, <1>11

\* The text before the first call is a step like the others.
LEMMA TextBeforeFacts ==
    ASSUME NEW m \in Windows
    PROVE  LET s == TextBefore(m)
           IN /\ s \in Seq(Steps)
              /\ ToolsKept(m.steps, s) /\ ThoughtsKept(m.steps, s)
              /\ s = <<>> => m.early = <<>>
              /\ m.early \o TextOf(s) = m.content
  <1>1. m \in Messages
    BY WindowFacts
  <1>2. /\ m.content \in Seq(Letters) /\ m.early \in Seq(Letters) /\ m.steps \in Seq(Steps)
    BY <1>1, MessageFacts
  <1>3. ToolsKept(m.steps, m.steps) /\ ThoughtsKept(m.steps, m.steps)
    BY DEF ToolsKept, ThoughtsKept
  <1>4. CASE m.steps # <<>>
    BY <1>2, <1>3, <1>4, WindowFacts DEF TextBefore
  <1>5. CASE m.steps = <<>> /\ m.content = <<>>
    <2>1. TextOf(<<>>) = <<>> /\ m.early = <<>>
      BY <1>2, <1>5, TextsFacts, WindowFacts
    <2>2. <<>> \o <<>> = <<>>
      BY ConcatEmptySeq, EmptySeq
    <2> QED  BY <1>2, <1>3, <1>5, <2>1, <2>2 DEF TextBefore
  <1>6. CASE m.steps = <<>> /\ m.content # <<>>
    <2> DEFINE c == m.content
               step == TextStep(c)
               s == <<step>>
    <2>1. c \in Seq(Letters) /\ TextBefore(m) = s /\ m.early = <<>>
      BY <1>2, <1>6, WindowFacts DEF TextBefore
    <2> HIDE DEF c
    <2>2. step \in Steps /\ step.type = "text" /\ TextIn(step) = c
      BY <2>1 DEF TextStep, TextSteps, Steps, TextIn
    <2> HIDE DEF step
    <2>3. s \in Seq(Steps) /\ s = Append(<<>>, step) /\ s # <<>>
      BY <2>2
    <2>4. TextOf(s) = <<>> \o c
      <3>1. <<>> \in Seq(Steps) /\ TextOf(<<>>) = <<>>
        BY <1>2, TextsFacts, EmptySeq
      <3> QED  BY <2>2, <2>3, <3>1, TextOfLast
    <2>5. <<>> \o c = c
      BY <2>1, ConcatEmptySeq
    <2>6. ToolsKept(<<>>, s) /\ ThoughtsKept(<<>>, s)
      BY <2>2 DEF ToolsKept, ThoughtsKept
    <2> QED  BY <1>6, <2>1, <2>3, <2>4, <2>5, <2>6 DEF c
  <1> QED  BY <1>4, <1>5, <1>6

\* complete and error close the stream.
LEMMA ClosedFacts ==
    ASSUME NEW m \in Windows
    PROVE  /\ OnError(m) \in Windows /\ OnError(m).steps = m.steps
           /\ OnComplete(m) \in Windows
           /\ ToolsKept(m.steps, OnComplete(m).steps)
           /\ \A i \in DOMAIN OnComplete(m).steps :
                OnComplete(m).steps[i].type = "thinking" => OnComplete(m).steps[i].finished
  <1>1. m \in Messages
    BY WindowFacts
  <1>2. m.steps \in Seq(Steps)
    BY <1>1, MessageFacts
  <1>3. OnError(m) \in Windows /\ OnError(m).steps = m.steps
    <2> DEFINE q == [m EXCEPT !.live = FALSE]
    <2>1. /\ q \in Messages /\ q.steps = m.steps /\ q.early = m.early /\ q.content = m.content
          /\ q.pieces = m.pieces /\ q.thoughts = m.thoughts
      BY <1>1 DEF Messages
    <2> HIDE DEF q
    <2>2. TextShown(q)
      BY <2>1, ShowsText, WindowFacts
    <2>3. ToolsKept(m.steps, q.steps) /\ ThoughtsKept(m.steps, q.steps)
      BY <2>1 DEF ToolsKept, ThoughtsKept
    <2>4. q \in Windows
      BY <2>1, <2>2, <2>3, WindowKept
    <2> QED  BY <2>1, <2>4 DEF q, OnError
  <1>4. /\ OnComplete(m) \in Windows
        /\ ToolsKept(m.steps, OnComplete(m).steps)
        /\ \A i \in DOMAIN OnComplete(m).steps :
             OnComplete(m).steps[i].type = "thinking" => OnComplete(m).steps[i].finished
    <2> DEFINE t == FinishThoughts(m.steps)
               q == [m EXCEPT !.steps = t, !.live = FALSE]
    <2>1. /\ t \in Seq(Steps) /\ Len(t) = Len(m.steps) /\ TextOf(t) = TextOf(m.steps)
          /\ ToolsKept(m.steps, t) /\ ThoughtsKept(m.steps, t)
          /\ \A i \in DOMAIN t : t[i].type = "thinking" => t[i].finished
      BY <1>2, FinishFacts
    <2> HIDE DEF t
    <2>2. t = <<>> <=> m.steps = <<>>
      BY <1>2, <2>1, EmptySeq
    <2>3. /\ q \in Messages /\ q.steps = t /\ q.early = m.early /\ q.content = m.content
          /\ q.pieces = m.pieces /\ q.thoughts = m.thoughts
      BY <1>1, <2>1 DEF Messages
    <2>4. OnComplete(m) = q
      BY DEF OnComplete, t
    <2> HIDE DEF q
    <2>5. TextShown(q)
      BY <2>1, <2>2, <2>3, ShowsText, WindowFacts
    <2>6. q \in Windows
      BY <2>1, <2>3, <2>5, WindowKept
    <2> QED  BY <2>1, <2>3, <2>4, <2>6
  <1> QED  BY <1>3, <1>4

\* confirm_request: a step comes last.
LEMMA ConfirmRequestFacts ==
    ASSUME NEW m \in Windows, NEW e, e.call \in Nat \X Nat
    PROVE  LET q == OnConfirmRequest(m, e)
           IN q \in Windows /\ q.live = m.live /\ ToolsKept(m.steps, q.steps)
  <1> DEFINE s == TextBefore(m)
             n == Len(s)
             step == [type |-> "confirm", call |-> e.call, status |-> "pending"]
             t == Append(s, step)
             q == [m EXCEPT !.steps = t]
  <1>1. m \in Messages
    BY WindowFacts
  <1>2. /\ s \in Seq(Steps)
        /\ ToolsKept(m.steps, s) /\ ThoughtsKept(m.steps, s)
        /\ m.early \o TextOf(s) = m.content
    BY TextBeforeFacts
  <1>3. OnConfirmRequest(m, e) = q
    BY DEF OnConfirmRequest
  <1> HIDE DEF s
  <1>4. step \in Steps /\ step.type = "confirm" /\ TextIn(step) = <<>>
    BY DEF ConfirmSteps, Steps, TextIn
  <1> HIDE DEF step
  <1>5. /\ t \in Seq(Steps) /\ t # <<>> /\ Len(t) = n + 1 /\ n \in Nat
        /\ DOMAIN t = 1..(n + 1) /\ DOMAIN s = 1..n
        /\ \A i \in 1..n : t[i] = s[i]
        /\ t[n + 1] = step
    BY <1>2, <1>4, AppendProperties, LenProperties
  <1>6. TextOf(t) = TextOf(s)
    <2>1. TextOf(t) = TextOf(s) \o <<>> /\ TextOf(s) \in Seq(Letters)
      BY <1>2, <1>4, TextOfLast, TextsFacts
    <2> QED  BY <2>1, ConcatEmptySeq
  <1> HIDE DEF t, n
  <1>7. ToolsKept(s, t) /\ ThoughtsKept(s, t)
    <2>1. \A i \in 1..(n + 1) : i \in 1..n \/ i = n + 1
      BY <1>5
    <2>2. \A i \in 1..n : i \in 1..(n + 1)
      BY <1>5
    <2> QED  BY <1>4, <1>5, <2>1, <2>2 DEF ToolsKept, ThoughtsKept
  <1>8. /\ q \in Messages /\ q.steps = t /\ q.early = m.early /\ q.content = m.content
        /\ q.pieces = m.pieces /\ q.thoughts = m.thoughts /\ q.live = m.live
    BY <1>1, <1>5 DEF Messages
  <1> HIDE DEF q
  <1>9. TextShown(q)
    BY <1>2, <1>5, <1>6, <1>8, ShowsText
  <1>10. ToolsKept(m.steps, t) /\ ThoughtsKept(m.steps, t)
    BY <1>2, <1>7, KeptTwice
  <1>11. q \in Windows
    BY <1>8, <1>9, <1>10, WindowKept
  <1> QED  BY <1>3, <1>8, <1>10, <1>11

\* Steps that stay or change in place, keeping type and text.
InPlace(s, t) ==
    /\ Len(t) = Len(s)
    /\ \A i \in 1..Len(s) :
         /\ t[i] \in Steps /\ t[i].type = s[i].type
         /\ s[i].type \in {"text", "thinking"} => t[i] = s[i]

\* Such steps show the same text and thoughts.
LEMMA InPlaceFacts ==
    ASSUME NEW m \in Windows, NEW t \in Seq(Steps), InPlace(m.steps, t)
    PROVE  LET q == [m EXCEPT !.steps = t]
           IN /\ q \in Messages /\ q.steps = t /\ q.live = m.live
              /\ q.pieces = m.pieces /\ q.thoughts = m.thoughts
              /\ TextShown(q) /\ ThoughtsKept(m.steps, q.steps)
  <1> DEFINE s == m.steps
             n == Len(s)
             q == [m EXCEPT !.steps = t]
  <1>1. m \in Messages
    BY WindowFacts
  <1>2. s \in Seq(Steps) /\ n \in Nat /\ DOMAIN s = 1..n
    BY <1>1, MessageFacts
  <1>3. /\ q \in Messages /\ q.steps = t /\ q.early = m.early /\ q.content = m.content
        /\ q.pieces = m.pieces /\ q.thoughts = m.thoughts /\ q.live = m.live
    BY <1>1 DEF Messages
  <1> HIDE DEF q
  <1>4. /\ Len(t) = n /\ DOMAIN t = 1..n
        /\ \A i \in 1..n :
             /\ t[i].type = s[i].type
             /\ s[i].type \in {"text", "thinking"} => t[i] = s[i]
    BY LenProperties DEF InPlace
  <1>5. t = <<>> <=> s = <<>>
    <2> HIDE DEF s
    <2> QED  BY <1>2, <1>4, EmptySeq
  <1>6. TextOf(t) = TextOf(s)
    <2> HIDE DEF s, n
    <2>1. \A i \in 1..n : TextIn(t[i]) = TextIn(s[i])
      BY <1>4 DEF TextIn
    <2>2. \A i \in (n + 1)..Len(t) : t[i].type # "text"
      BY <1>2, <1>4
    <2>3. n <= Len(t)
      BY <1>2, <1>4
    <2> QED  BY <1>2, <2>1, <2>2, <2>3, TextOfSame DEF n
  <1>7. TextShown(q)
    BY <1>3, <1>5, <1>6, ShowsText, WindowFacts
  <1>8. ThoughtsKept(s, t)
    <2> HIDE DEF s, n
    <2> QED  BY <1>2, <1>4 DEF ThoughtsKept
  <1> QED  BY <1>3, <1>7, <1>8 DEF q

\* confirm_response: the step is answered.
LEMMA ConfirmResponseFacts ==
    ASSUME NEW m \in Windows, NEW e
    PROVE  LET q == OnConfirmResponse(m, e)
           IN q \in Windows /\ q.live = m.live /\ ToolsKept(m.steps, q.steps)
  <1> DEFINE s == m.steps
             n == Len(s)
             Answer(step) == [step EXCEPT !.status = "answered"]
             t == [i \in 1..n |-> IF s[i].type = "confirm" /\ s[i].call = e.call
                                  THEN Answer(s[i]) ELSE s[i]]
             q == [m EXCEPT !.steps = t]
  <1>1. m \in Messages
    BY WindowFacts
  <1>2. s \in Seq(Steps) /\ n \in Nat /\ DOMAIN s = 1..n /\ \A i \in 1..n : s[i] \in Steps
    BY <1>1, MessageFacts
  <1>3. OnConfirmResponse(m, e) = q
    BY <1>2 DEF OnConfirmResponse
  <1>4. \A step \in ConfirmSteps : Answer(step) \in ConfirmSteps
    BY DEF ConfirmSteps
  <1> HIDE DEF n, s, Answer, q
  <1>5. \A i \in 1..n :
          /\ t[i] \in Steps /\ t[i].type = s[i].type
          /\ s[i].type # "confirm" => t[i] = s[i]
    <2> TAKE i \in 1..n
    <2>1. CASE s[i].type = "confirm"
      <3>1. s[i] \in ConfirmSteps
        BY <1>2, <2>1, StepFacts
      <3>2. Answer(s[i]) \in ConfirmSteps
        BY <1>4, <3>1
      <3>3. t[i] \in ConfirmSteps
        BY <3>1, <3>2
      <3> QED  BY <2>1, <3>3, StepFacts DEF Steps
    <2>2. CASE s[i].type # "confirm"
      BY <1>2, <2>2
    <2> QED  BY <2>1, <2>2
  <1>6. t \in Seq(Steps) /\ Len(t) = n /\ DOMAIN t = 1..n
    <2>1. t = [i \in 1..n |-> t[i]]
      OBVIOUS
    <2> HIDE DEF t
    <2> QED  BY <1>2, <1>5, <2>1, IsASeq, LenProperties
  <1> HIDE DEF t
  <1>7. InPlace(s, t)
    BY <1>2, <1>5, <1>6 DEF InPlace, n
  <1>8. /\ q \in Messages /\ q.steps = t /\ q.live = m.live
        /\ q.pieces = m.pieces /\ q.thoughts = m.thoughts
        /\ TextShown(q) /\ ThoughtsKept(m.steps, q.steps)
    BY <1>6, <1>7, InPlaceFacts DEF s, q
  <1>9. ToolsKept(m.steps, t)
    BY <1>2, <1>5, <1>6 DEF ToolsKept, s
  <1>10. q \in Windows
    BY <1>8, <1>9, WindowKept
  <1> QED  BY <1>3, <1>8, <1>9, <1>10

\* A function on the first numbers is a sequence.
LEMMA Places ==
    ASSUME NEW S, NEW n \in Nat, NEW f, f = [i \in 1..n |-> f[i]],
           \A i \in 1..n : f[i] \in S
    PROVE  f \in Seq(S) /\ Len(f) = n /\ DOMAIN f = 1..n
  <1>1. f \in Seq(S)
    BY IsASeq
  <1>2. DOMAIN f = 1..Len(f) /\ DOMAIN f = 1..n /\ Len(f) \in Nat
    BY <1>1, LenProperties
  <1> QED  BY <1>1, <1>2

\* tool_result: the step of the call shows its result, and those of its tool too.
LEMMA ToolResultFacts ==
    ASSUME NEW m \in Windows, NEW e, e.call \in Nat \X Nat,
           ShowsCall(m.steps, e.call, e.name)
    PROVE  LET q == OnToolResult(m, e)
           IN /\ q \in Windows /\ q.live = m.live
              /\ \A n : UpTo(m.steps, n) => UpTo(q.steps, n)
              /\ \A call, name : ShowsCall(m.steps, call, name) => ShowsCall(q.steps, call, name)
  <1> DEFINE s == m.steps
             n == Len(s)
             Hit(step) == step.type = "tool" /\ (step.call = e.call \/ step.name = e.name)
             Done(step) == [step EXCEPT !.status = "completed", !.result = e.call]
             t == [i \in 1..n |-> IF Hit(s[i]) THEN Done(s[i]) ELSE s[i]]
             q == [m EXCEPT !.steps = t]
  <1>1. m \in Messages
    BY WindowFacts
  <1>2. s \in Seq(Steps) /\ n \in Nat /\ DOMAIN s = 1..n /\ \A i \in 1..n : s[i] \in Steps
    BY <1>1, MessageFacts
  <1>3. OnToolResult(m, e) = q
    BY <1>2 DEF OnToolResult
  <1>4. ASSUME NEW step \in ToolSteps
        PROVE  /\ Done(step) \in ToolSteps
               /\ Done(step).call = step.call /\ Done(step).name = step.name
               /\ Done(step).status = "completed" /\ Done(step).result = e.call
    BY DEF ToolSteps
  <1> HIDE DEF n, s, Done, q
  <1>5. \A i \in 1..n :
          /\ t[i] \in Steps /\ t[i].type = s[i].type
          /\ ~Hit(s[i]) => t[i] = s[i]
          /\ Hit(s[i]) => t[i].call = s[i].call /\ t[i].name = s[i].name
                          /\ t[i].result = e.call
    <2> TAKE i \in 1..n
    <2>1. CASE Hit(s[i])
      <3>1. s[i] \in ToolSteps
        BY <1>2, <2>1, StepFacts
      <3>2. t[i] = Done(s[i])
        BY <2>1
      <3>3. /\ t[i] \in ToolSteps
            /\ t[i].call = s[i].call /\ t[i].name = s[i].name /\ t[i].result = e.call
        BY <1>4, <3>1, <3>2
      <3> QED  BY <2>1, <3>3, StepFacts DEF Steps
    <2>2. CASE ~Hit(s[i])
      BY <1>2, <2>2
    <2> QED  BY <2>1, <2>2
  <1>6. t \in Seq(Steps) /\ Len(t) = n /\ DOMAIN t = 1..n
    <2>1. t = [i \in 1..n |-> t[i]]
      OBVIOUS
    <2> HIDE DEF t
    <2> QED  BY <1>2, <1>5, <2>1, IsASeq, LenProperties
  <1> HIDE DEF t
  <1>7. InPlace(s, t)
    BY <1>2, <1>5, <1>6 DEF InPlace, n
  <1>8. /\ q \in Messages /\ q.steps = t /\ q.live = m.live
        /\ q.pieces = m.pieces /\ q.thoughts = m.thoughts
        /\ TextShown(q) /\ ThoughtsKept(m.steps, q.steps)
    BY <1>6, <1>7, InPlaceFacts DEF s, q
  <1>9. \A i \in 1..n : s[i].type = "tool" => t[i].call = s[i].call /\ t[i].name = s[i].name
    BY <1>5
  <1>10. ThoughtsShown(m) /\ ResultsOwn(s) /\ OneName(s)
    BY WindowFacts DEF s
  <1>11. OneName(t)
    BY <1>2, <1>5, <1>6, <1>9, <1>10 DEF OneName
  <1>12. ResultsOwn(t)
    <2> SUFFICES ASSUME NEW i \in 1..n, t[i].type = "tool", t[i].status = "completed",
                        t[i].result # t[i].call
                 PROVE  \E j \in (1..n) \ {i} : t[j].type = "tool" /\ t[j].name = t[i].name
      BY <1>6 DEF ResultsOwn
    <2>1. s[i].type = "tool" /\ t[i].call = s[i].call /\ t[i].name = s[i].name
      BY <1>5, <1>9
    <2>2. CASE Hit(s[i])
      <3>1. t[i].result = e.call
        BY <1>5, <2>2
      <3>2. s[i].call # e.call /\ s[i].name = e.name
        BY <2>1, <2>2, <3>1
      <3>3. PICK j \in 1..n : s[j].type = "tool" /\ s[j].call = e.call /\ s[j].name = e.name
        BY <1>2 DEF ShowsCall, s
      <3>4. j # i /\ t[j].type = "tool" /\ t[j].name = e.name
        BY <1>5, <1>9, <3>2, <3>3
      <3> QED  BY <2>1, <3>2, <3>4
    <2>3. CASE ~Hit(s[i])
      <3>1. t[i] = s[i]
        BY <1>5, <2>3
      <3>2. PICK j \in (1..n) \ {i} : s[j].type = "tool" /\ s[j].name = s[i].name
        BY <1>2, <1>10, <2>1, <3>1 DEF ResultsOwn
      <3>3. t[j].type = "tool" /\ t[j].name = s[i].name
        BY <1>5, <1>9, <3>2
      <3> QED  BY <2>1, <3>2, <3>3
    <2> QED  BY <2>2, <2>3
  <1>13. ThoughtsShown(q)
    BY <1>8, <1>10, ThoughtsKeptFacts
  <1>14. q \in Windows
    BY <1>8, <1>11, <1>12, <1>13 DEF Windows
  <1>15. \A k : UpTo(s, k) => UpTo(t, k)
    BY <1>2, <1>5, <1>6, <1>9 DEF UpTo
  <1>16. \A call, name : ShowsCall(s, call, name) => ShowsCall(t, call, name)
    <2> SUFFICES ASSUME NEW call, NEW name, ShowsCall(s, call, name)
                 PROVE  ShowsCall(t, call, name)
      OBVIOUS
    <2>1. PICK i \in 1..n : s[i].type = "tool" /\ s[i].call = call /\ s[i].name = name
      BY <1>2 DEF ShowsCall
    <2>2. t[i].type = "tool" /\ t[i].call = call /\ t[i].name = name
      BY <1>5, <1>9, <2>1
    <2> QED  BY <1>6, <2>2 DEF ShowsCall
  <1> QED  BY <1>3, <1>8, <1>14, <1>15, <1>16 DEF s

\* reasoning_delta: the thoughts are shown whole, or make a step of their own.
LEMMA ReasoningFacts ==
    ASSUME NEW m \in Windows, NEW e, e.content \in Seq(Letters \cup {"r"})
    PROVE  LET q == OnReasoning(m, e)
           IN q \in Windows /\ q.live = m.live /\ ToolsKept(m.steps, q.steps)
  <1> DEFINE s == m.steps
             n == Len(s)
             L == Letters \cup {"r"}
             thoughts == m.thoughts \o e.content
             Think(step) == [step EXCEPT !.text = thoughts, !.finished = FALSE]
             first == [type |-> "thinking", text |-> <<>>, finished |-> FALSE]
             shown == [i \in 1..n |-> IF s[i].type = "thinking" THEN Think(s[i]) ELSE s[i]]
             t == IF HasThoughts(s) THEN shown ELSE Append(s, first)
             early == IF s = <<>> THEN m.content ELSE m.early
             pieces == IF m.pieces < 2 THEN m.pieces + 1 ELSE m.pieces
             q == [m EXCEPT !.thoughts = thoughts, !.pieces = pieces, !.early = early, !.steps = t]
  <1>1. m \in Messages
    BY WindowFacts
  <1>2. /\ s \in Seq(Steps) /\ n \in Nat /\ DOMAIN s = 1..n /\ \A i \in 1..n : s[i] \in Steps
        /\ m.pieces \in 0..2 /\ m.thoughts \in Seq(L)
        /\ m.content \in Seq(Letters) /\ m.early \in Seq(Letters)
    BY <1>1, MessageFacts
  <1>3. OnReasoning(m, e) = q
    BY <1>2 DEF OnReasoning
  <1>4. thoughts \in Seq(L) /\ <<>> \in Seq(L)
    <2> HIDE DEF L
    <2>1. \A a, b \in Seq(L) : a \o b \in Seq(L)
      BY ConcatProperties
    <2>2. e.content \in Seq(L)
      BY DEF L
    <2> QED  BY <1>2, <2>1, <2>2, EmptySeq
  <1> HIDE DEF thoughts, s, n, q
  <1>5. ASSUME NEW step \in ThoughtSteps
        PROVE  Think(step) \in ThoughtSteps /\ Think(step).text = thoughts
    BY <1>4 DEF ThoughtSteps
  <1>6. first \in Steps /\ first.type = "thinking" /\ TextIn(first) = <<>>
    BY <1>4 DEF ThoughtSteps, Steps, TextIn
  <1> HIDE DEF Think, first
  <1>7. HasThoughts(s) =>
          /\ t \in Seq(Steps) /\ Len(t) = n
          /\ \A i \in 1..n : s[i].type # "thinking" => t[i] = s[i]
          /\ \A i \in 1..n : s[i].type = "thinking" =>
                               t[i].type = "thinking" /\ t[i].text = thoughts
    <2> SUFFICES ASSUME HasThoughts(s)
                 PROVE  /\ shown \in Seq(Steps) /\ Len(shown) = n
                        /\ \A i \in 1..n : s[i].type # "thinking" => shown[i] = s[i]
                        /\ \A i \in 1..n : s[i].type = "thinking" =>
                             shown[i].type = "thinking" /\ shown[i].text = thoughts
      OBVIOUS
    <2>1. ASSUME NEW i \in 1..n, s[i].type = "thinking"
          PROVE  shown[i] \in Steps /\ shown[i].type = "thinking" /\ shown[i].text = thoughts
      <3>1. s[i] \in ThoughtSteps
        BY <1>2, <2>1, StepFacts
      <3>2. shown[i] = Think(s[i])
        BY <2>1
      <3>3. shown[i] \in ThoughtSteps /\ shown[i].text = thoughts
        BY <1>5, <3>1, <3>2
      <3> QED  BY <3>3, StepFacts DEF Steps
    <2>2. \A i \in 1..n : shown[i] \in Steps
      BY <1>2, <2>1
    <2>3. shown = [i \in 1..n |-> shown[i]]
      OBVIOUS
    <2>4. \A i \in 1..n : s[i].type # "thinking" => shown[i] = s[i]
      OBVIOUS
    <2> HIDE DEF shown
    <2>5. shown \in Seq(Steps) /\ Len(shown) = n
      <3>1. n \in Nat
        BY <1>2
      <3> QED  BY <2>2, <2>3, <3>1, Places
    <2> QED  BY <2>1, <2>4, <2>5
  <1>8. ~HasThoughts(s) =>
          /\ t \in Seq(Steps) /\ Len(t) = n + 1
          /\ \A i \in 1..n : t[i] = s[i] /\ s[i].type # "thinking"
          /\ t[n + 1] = first
    BY <1>2, <1>6, AppendProperties DEF HasThoughts, n
  <1> HIDE DEF t
  <1>9. /\ t \in Seq(Steps) /\ n <= Len(t) /\ DOMAIN t = 1..Len(t) /\ Len(t) \in Nat
        /\ \A i \in 1..n : s[i].type # "thinking" => t[i] = s[i]
        /\ \A i \in 1..n : s[i].type = "thinking" =>
                             t[i].type = "thinking" /\ t[i].text = thoughts
        /\ \A i \in (n + 1)..Len(t) : t[i].type = "thinking"
        /\ HasThoughts(t) /\ t # <<>>
    <2>1. CASE HasThoughts(s)
      <3>1. PICK i \in 1..n : s[i].type = "thinking"
        BY <1>2, <2>1 DEF HasThoughts
      <3>2. /\ t \in Seq(Steps) /\ Len(t) = n /\ t[i].type = "thinking"
        BY <1>7, <2>1, <3>1
      <3>3. DOMAIN t = 1..n
        BY <3>2, LenProperties
      <3>4. HasThoughts(t) /\ t # <<>>
        BY <3>1, <3>2, <3>3 DEF HasThoughts
      <3>5. \A j \in (n + 1)..n : FALSE
        BY <1>2
      <3> QED  BY <1>2, <1>7, <2>1, <3>2, <3>3, <3>4, <3>5
    <2>2. CASE ~HasThoughts(s)
      <3>1. /\ t \in Seq(Steps) /\ Len(t) = n + 1
            /\ \A i \in 1..n : t[i] = s[i] /\ s[i].type # "thinking"
            /\ t[n + 1] = first
        BY <1>8, <2>2
      <3>2. DOMAIN t = 1..(n + 1)
        BY <3>1, LenProperties
      <3>3. n + 1 \in 1..(n + 1) /\ \A i \in (n + 1)..(n + 1) : i = n + 1
        BY <1>2
      <3>4. HasThoughts(t) /\ t # <<>>
        BY <1>6, <3>1, <3>2, <3>3 DEF HasThoughts
      <3> QED  BY <1>2, <1>6, <3>1, <3>2, <3>3, <3>4
    <2> QED  BY <2>1, <2>2
  <1>10. TextOf(t) = TextOf(s)
    <2>1. \A i \in 1..n : TextIn(t[i]) = TextIn(s[i])
      BY <1>9 DEF TextIn
    <2>2. \A i \in (n + 1)..Len(t) : t[i].type # "text"
      BY <1>9
    <2> QED  BY <1>2, <1>9, <2>1, <2>2, TextOfSame DEF n
  <1>11. ToolsKept(s, t)
    <2>1. \A i \in 1..Len(t) : i \in 1..n \/ i \in (n + 1)..Len(t)
      BY <1>2, <1>9
    <2>2. \A i \in 1..n : i \in 1..Len(t)
      BY <1>2, <1>9
    <2> QED  BY <1>2, <1>9, <2>1, <2>2 DEF ToolsKept
  <1>12. early \in Seq(Letters) /\ pieces \in 0..2
    BY <1>2
  <1>13. /\ q \in Messages /\ q.live = m.live /\ q.steps = t /\ q.content = m.content
         /\ q.early = early /\ q.thoughts = thoughts /\ q.pieces = pieces
    BY <1>1, <1>4, <1>9, <1>12 DEF Messages, q
  <1>14. early \o TextOf(t) = m.content
    <2>1. CASE s = <<>>
      <3> DEFINE c == m.content
      <3>1. TextOf(t) = <<>> /\ early = c /\ c \in Seq(Letters)
        BY <1>2, <1>10, <2>1, TextsFacts
      <3> HIDE DEF c
      <3>2. c \o <<>> = c
        BY <3>1, ConcatEmptySeq
      <3> QED  BY <3>1, <3>2 DEF c
    <2>2. CASE s # <<>>
      BY <1>10, <2>2, WindowFacts DEF s
    <2> QED  BY <2>1, <2>2
  <1> HIDE DEF early
  <1>15. TextShown(q)
    BY <1>9, <1>13, <1>14, ShowsText
  <1>16. ThoughtsShown(m) /\ ResultsOwn(s) /\ OneName(s)
    BY WindowFacts DEF s
  <1>17. ThoughtsShown(q)
    <2> SUFFICES ASSUME pieces > 1, NEW i \in 1..Len(t), t[i].type = "thinking"
                 PROVE  t[i].text = thoughts
      BY <1>9, <1>13 DEF ThoughtsShown
    <2>1. m.pieces > 0
      BY <1>2
    <2>2. HasThoughts(s)
      BY <1>16, <2>1 DEF ThoughtsShown, s
    <2>3. i \in 1..n
      BY <1>7, <2>2
    <2> QED  BY <1>9, <2>3
  <1>18. ResultsOwn(t) /\ OneName(t)
    BY <1>11, <1>16, ToolsKeptFacts
  <1>19. q \in Windows
    BY <1>13, <1>15, <1>17, <1>18 DEF Windows
  <1> QED  BY <1>3, <1>11, <1>13, <1>19 DEF s

\* tool_call: a running step for each call, the calls being new.
LEMMA ToolCallFacts ==
    ASSUME NEW m \in Windows, NEW e, e.calls \in Seq([call : Nat \X Nat, name : Tools]),
           NEW n \in Int, UpTo(m.steps, n),
           \A i \in DOMAIN e.calls : e.calls[i].call[1] > n,
           \A i, j \in DOMAIN e.calls : e.calls[i].call = e.calls[j].call => i = j
    PROVE  LET q == OnToolCall(m, e)
           IN /\ q \in Windows /\ q.live = m.live
              /\ \A i \in DOMAIN q.steps :
                   q.steps[i].type = "tool" =>
                     \/ q.steps[i].call[1] <= n
                     \/ \E k \in DOMAIN e.calls : q.steps[i].call = e.calls[k].call
              /\ \A k \in DOMAIN e.calls : ShowsCall(q.steps, e.calls[k].call, e.calls[k].name)
  <1> DEFINE b == TextBefore(m)
             s == FinishThoughts(b)
             l == Len(s)
             calls == e.calls
             c == Len(calls)
             Step(call) == [type |-> "tool", call |-> call.call, name |-> call.name,
                            status |-> "running", result |-> "none"]
             more == [i \in 1..c |-> Step(calls[i])]
             t == s \o more
             q == [m EXCEPT !.steps = t]
  <1>1. m \in Messages
    BY WindowFacts
  <1>2. /\ c \in Nat /\ DOMAIN calls = 1..c
        /\ \A i \in 1..c : calls[i] \in [call : Nat \X Nat, name : Tools]
    <2> DEFINE T == [call : Nat \X Nat, name : Tools]
    <2>1. calls \in Seq(T)
      OBVIOUS
    <2> HIDE DEF calls, T
    <2>2. Len(calls) \in Nat /\ DOMAIN calls = 1..Len(calls) /\ \A i \in 1..Len(calls) : calls[i] \in T
      BY ONLY <2>1, LenProperties, ElementOfSeq
    <2> QED  BY <2>2 DEF T
  <1>3. OnToolCall(m, e) = q
    BY <1>2 DEF OnToolCall
  <1>4. /\ b \in Seq(Steps)
        /\ ToolsKept(m.steps, b) /\ ThoughtsKept(m.steps, b)
        /\ b = <<>> => m.early = <<>>
        /\ m.early \o TextOf(b) = m.content
    BY TextBeforeFacts
  <1> HIDE DEF b
  <1>5. /\ s \in Seq(Steps) /\ Len(s) = Len(b) /\ TextOf(s) = TextOf(b)
        /\ ToolsKept(b, s) /\ ThoughtsKept(b, s)
    BY <1>4, FinishFacts
  <1> HIDE DEF s
  <1>6. ToolsKept(m.steps, s) /\ ThoughtsKept(m.steps, s)
    BY <1>4, <1>5, KeptTwice
  <1>7. s = <<>> => m.early = <<>>
    BY <1>4, <1>5, EmptySeq
  <1>8. \A call \in [call : Nat \X Nat, name : Tools] :
          /\ Step(call) \in ToolSteps /\ Step(call).call = call.call
          /\ Step(call).name = call.name /\ Step(call).status = "running"
    BY DEF ToolSteps
  <1> HIDE DEF Step
  <1>9. \A i \in 1..c :
          /\ more[i] \in Steps /\ more[i].type = "tool" /\ more[i].call = calls[i].call
          /\ more[i].name = calls[i].name /\ more[i].status = "running"
    BY <1>2, <1>8, StepFacts DEF Steps
  <1>10. more \in Seq(Steps) /\ Len(more) = c
    <2>1. more = [i \in 1..c |-> more[i]]
      OBVIOUS
    <2>2. \A i \in 1..c : more[i] \in Steps
      BY <1>9
    <2> HIDE DEF more, c
    <2> QED  BY <1>2, <2>1, <2>2, Places
  <1> HIDE DEF more, c, calls
  <1>11. /\ t \in Seq(Steps) /\ Len(t) = l + c /\ l \in Nat /\ DOMAIN t = 1..(l + c)
         /\ DOMAIN s = 1..l
         /\ \A i \in 1..(l + c) : t[i] = IF i <= l THEN s[i] ELSE more[i - l]
    <2>1. \A x, y \in Seq(Steps) :
            /\ x \o y \in Seq(Steps) /\ Len(x \o y) = Len(x) + Len(y)
            /\ \A i \in 1..(Len(x) + Len(y)) :
                 (x \o y)[i] = IF i <= Len(x) THEN x[i] ELSE y[i - Len(x)]
      BY ConcatProperties
    <2>2. /\ t \in Seq(Steps) /\ Len(t) = l + c
          /\ \A i \in 1..(l + c) : t[i] = IF i <= l THEN s[i] ELSE more[i - l]
      BY <1>5, <1>10, <2>1
    <2>3. l \in Nat /\ DOMAIN s = 1..l
      BY <1>5, LenProperties
    <2>4. DOMAIN t = 1..(l + c)
      <3> HIDE DEF t
      <3> QED  BY <2>2, LenProperties
    <2> QED  BY <2>2, <2>3, <2>4
  <1> HIDE DEF t, l
  <1>12. /\ \A i \in 1..l : i \in 1..(l + c) /\ t[i] = s[i]
         /\ \A i \in 1..c : l + i \in 1..(l + c) /\ t[l + i] = more[i]
         /\ \A i \in 1..(l + c) : i \in 1..l \/ \E k \in 1..c : i = l + k
    <2>1. \A i \in 1..l : i \in 1..(l + c) /\ i <= l
      BY <1>2, <1>11
    <2>2. \A i \in 1..c : l + i \in 1..(l + c) /\ ~(l + i <= l) /\ (l + i) - l = i
      BY <1>2, <1>11
    <2>3. ASSUME NEW i \in 1..(l + c), i \notin 1..l
          PROVE  \E k \in 1..c : i = l + k
      <3>1. i - l \in 1..c /\ i = l + (i - l)
        BY <1>2, <1>11, <2>3
      <3> QED  BY <3>1
    <2> QED  BY <1>11, <2>1, <2>2, <2>3
  <1> DEFINE all == 1..(l + c)
             old == 1..l
             new == 1..c
  <1>24. /\ DOMAIN t = all /\ DOMAIN s = old
         /\ \A i \in old : i \in all /\ t[i] = s[i]
         /\ \A i \in new : l + i \in all /\ t[l + i] = more[i]
         /\ \A i \in all : i \in old \/ \E k \in new : i = l + k
         /\ \A i \in new :
              /\ more[i].type = "tool" /\ more[i].call = calls[i].call
              /\ more[i].name = calls[i].name
    BY <1>9, <1>11, <1>12
  <1>13. TextOf(t) = TextOf(s)
    <2>1. \A i \in 1..l : TextIn(t[i]) = TextIn(s[i])
      BY <1>12
    <2>2. ASSUME NEW i \in (l + 1)..(l + c)
          PROVE  t[i].type # "text"
      <3>1. i \in 1..(l + c) /\ i \notin 1..l
        BY <1>2, <1>11, <2>2
      <3> QED  BY <1>9, <1>12, <3>1, SMTT(30)
    <2>3. l <= l + c
      BY <1>2, <1>11
    <2> QED  BY <1>5, <1>11, <2>1, <2>2, <2>3, TextOfSame DEF l
  <1>14. t = <<>> => s = <<>>
    <2> SUFFICES ASSUME t = <<>>
                 PROVE  l = 0
      BY <1>5, EmptySeq DEF l
    <2>1. l + c = 0
      BY <1>11, EmptySeq
    <2> QED  BY <1>2, <1>11, <2>1
  <1>15. /\ q \in Messages /\ q.steps = t /\ q.early = m.early /\ q.content = m.content
         /\ q.pieces = m.pieces /\ q.thoughts = m.thoughts /\ q.live = m.live
    BY <1>1, <1>11 DEF Messages
  <1> HIDE DEF q
  <1>16. TextShown(q)
    BY <1>4, <1>5, <1>7, <1>13, <1>14, <1>15, ShowsText
  <1>17. ThoughtsShown(q)
    <2>1. ThoughtsKept(s, t)
      <3> HIDE DEF all, old, new
      <3>1. \A i \in all : t[i].type = "thinking" => i \in old
        BY <1>24
      <3> QED  BY <1>24, <3>1 DEF ThoughtsKept
    <2>2. ThoughtsKept(m.steps, t)
      BY <1>6, <2>1, KeptTwice
    <2> QED  BY <1>15, <2>2, ThoughtsKeptFacts, WindowFacts
  <1>18. ResultsOwn(s) /\ OneName(s) /\ UpTo(s, n)
    BY <1>6, WindowFacts, ToolsKeptFacts
  <1>19. ResultsOwn(t)
    <2> SUFFICES ASSUME NEW i \in 1..(l + c), t[i].type = "tool", t[i].status = "completed",
                        t[i].result # t[i].call
                 PROVE  \E j \in (1..(l + c)) \ {i} : t[j].type = "tool" /\ t[j].name = t[i].name
      BY <1>11 DEF ResultsOwn
    <2>1. i \in 1..l /\ t[i] = s[i]
      BY <1>9, <1>12
    <2>2. PICK j \in (1..l) \ {i} : s[j].type = "tool" /\ s[j].name = s[i].name
      BY <1>11, <1>18, <2>1 DEF ResultsOwn
    <2> QED  BY <1>12, <2>1, <2>2
  <1>20. OneName(t)
    <2> SUFFICES ASSUME NEW i \in 1..(l + c), NEW j \in 1..(l + c),
                        t[i].type = "tool", t[j].type = "tool", t[i].call = t[j].call
                 PROVE  t[i].name = t[j].name
      BY <1>11 DEF OneName
    <2>1. \A k \in 1..c : t[l + k].call = calls[k].call /\ t[l + k].name = calls[k].name
      BY <1>9, <1>12
    <2>2. \A k \in 1..l : t[k].type = "tool" => t[k].call[1] <= n
      BY <1>11, <1>12, <1>18 DEF UpTo
    <2>3. \A k \in 1..c : ~(t[l + k].call[1] <= n)
      <3>1. \A k \in 1..c : calls[k].call[1] > n /\ calls[k].call[1] \in Nat
        BY <1>2 DEF calls
      <3> QED  BY <2>1, <3>1, SMTT(30)
    <2>4. CASE i \in 1..l /\ j \in 1..l
      <3> HIDE DEF all, old, new
      <3>1. t[i] = s[i] /\ t[j] = s[j] /\ i \in DOMAIN s /\ j \in DOMAIN s
        BY <1>24, <2>4 DEF old
      <3> QED  BY <1>18, <3>1 DEF OneName
    <2>5. CASE i \in 1..l /\ j \notin 1..l
      BY <1>12, <2>2, <2>3, <2>5
    <2>6. CASE i \notin 1..l /\ j \in 1..l
      BY <1>12, <2>2, <2>3, <2>6
    <2>7. CASE i \notin 1..l /\ j \notin 1..l
      <3>1. PICK k \in 1..c, h \in 1..c : i = l + k /\ j = l + h
        BY <1>12, <2>7
      <3>2. calls[k].call = calls[h].call
        BY <2>1, <3>1
      <3>3. k = h
        BY <1>2, <3>2 DEF calls
      <3> QED  BY <3>1, <3>3
    <2> QED  BY <2>4, <2>5, <2>6, <2>7
  <1>21. q \in Windows
    BY <1>15, <1>16, <1>17, <1>19, <1>20 DEF Windows
  <1>22. ASSUME NEW i \in DOMAIN t, t[i].type = "tool"
         PROVE  t[i].call[1] <= n \/ \E k \in DOMAIN calls : t[i].call = calls[k].call
    <2> HIDE DEF all, old, new
    <2>1. i \in old => t[i].call[1] <= n
      BY <1>18, <1>22, <1>24 DEF UpTo
    <2>2. DOMAIN calls = new /\ i \in all
      BY <1>2, <1>22, <1>24 DEF new
    <2> QED  BY <1>24, <2>1, <2>2
  <1>23. ASSUME NEW k \in DOMAIN calls
         PROVE  ShowsCall(t, calls[k].call, calls[k].name)
    <2> HIDE DEF all, old, new
    <2>1. k \in new
      BY <1>2 DEF new
    <2>2. l + k \in DOMAIN t /\ t[l + k] = more[k]
      BY <1>24, <2>1
    <2> QED  BY <1>24, <2>1, <2>2 DEF ShowsCall
  <1> QED  BY <1>3, <1>15, <1>21, <1>22, <1>23 DEF calls

-----------------------------------------------------------------------------
(* The events of a step                                                    *)

\* The events the window handles.
PieceEvents ==
    [type : {"delta"}, content : Seq(Letters)]
      \cup [type : {"reasoning_delta"}, content : Seq(Letters \cup {"r"})]
CompleteEvents == [type : {"complete"}]
CallEvents == [type : {"tool_call"}, calls : Seq([call : Nat \X Nat, name : Tools])]
RequestEvents == [type : {"confirm_request"}, call : Nat \X Nat]
WindowEvents == PieceEvents \cup CompleteEvents \cup CallEvents \cup RequestEvents

\* A window still reading, whose calls are of the first n turns.
Live(n) == {m \in Windows : m.live /\ UpTo(m.steps, n)}

\* Such a window that shows the given calls.
LiveWith(n, calls) ==
    {m \in Live(n) :
       \A k \in DOMAIN calls : ShowsCall(m.steps, calls[k].call, calls[k].name)}

\* A window whose stream is closed and whose thoughts are finished.
Closed(n) ==
    {m \in Windows :
       /\ UpTo(m.steps, n)
       /\ \A i \in DOMAIN m.steps : m.steps[i].type = "thinking" => m.steps[i].finished}

\* Which handler an event has.
LEMMA HandlerOf ==
    ASSUME NEW m, m.live, NEW e
    PROVE  /\ e.type = "reasoning_delta" => Handle(m, e) = OnReasoning(m, e)
           /\ e.type = "delta" => Handle(m, e) = OnDelta(m, e)
           /\ e.type = "tool_call" => Handle(m, e) = OnToolCall(m, e)
           /\ e.type = "tool_result" => Handle(m, e) = OnToolResult(m, e)
           /\ e.type = "confirm_request" => Handle(m, e) = OnConfirmRequest(m, e)
           /\ e.type = "confirm_response" => Handle(m, e) = OnConfirmResponse(m, e)
           /\ e.type = "complete" => Handle(m, e) = OnComplete(m)
           /\ e.type = "error" => Handle(m, e) = OnError(m)
  BY DEF Handle

\* Text and thoughts keep a window live.
LEMMA PieceHandled ==
    ASSUME NEW n, NEW m \in Live(n), NEW e \in PieceEvents
    PROVE  Handle(m, e) \in Live(n)
  <1> DEFINE q == Handle(m, e)
  <1>1. m \in Windows /\ m.live /\ UpTo(m.steps, n)
    BY DEF Live
  <1>2. q \in Windows /\ q.live = m.live /\ ToolsKept(m.steps, q.steps)
    <2>1. CASE e \in [type : {"delta"}, content : Seq(Letters)]
      <3>1. e.type = "delta" /\ e.content \in Seq(Letters)
        BY <2>1
      <3>2. q = OnDelta(m, e)
        BY <1>1, <3>1, HandlerOf
      <3> HIDE DEF q
      <3> QED  BY <1>1, <3>1, <3>2, DeltaFacts
    <2>2. CASE e \in [type : {"reasoning_delta"}, content : Seq(Letters \cup {"r"})]
      <3>1. e.type = "reasoning_delta" /\ e.content \in Seq(Letters \cup {"r"})
        BY <2>2
      <3>2. q = OnReasoning(m, e)
        BY <1>1, <3>1, HandlerOf
      <3> HIDE DEF q
      <3> QED  BY <1>1, <3>1, <3>2, ReasoningFacts
    <2> QED  BY <2>1, <2>2 DEF PieceEvents
  <1> HIDE DEF q
  <1>3. UpTo(q.steps, n)
    BY <1>1, <1>2, ToolsKeptFacts
  <1> QED  BY <1>1, <1>2, <1>3 DEF Live, q

\* So do requests for confirmation, and the calls stay shown.
LEMMA RequestHandled ==
    ASSUME NEW n, NEW calls, NEW m \in LiveWith(n, calls), NEW e \in RequestEvents
    PROVE  Handle(m, e) \in LiveWith(n, calls)
  <1> DEFINE q == Handle(m, e)
  <1>1. m \in Windows /\ m.live /\ UpTo(m.steps, n)
        /\ \A k \in DOMAIN calls : ShowsCall(m.steps, calls[k].call, calls[k].name)
    BY DEF LiveWith, Live
  <1>2. e.type = "confirm_request" /\ e.call \in Nat \X Nat
    BY DEF RequestEvents
  <1>3. q = OnConfirmRequest(m, e)
    BY <1>1, <1>2, HandlerOf
  <1> HIDE DEF q
  <1>4. q \in Windows /\ q.live = m.live /\ ToolsKept(m.steps, q.steps)
    BY <1>1, <1>2, <1>3, ConfirmRequestFacts
  <1>5. UpTo(q.steps, n)
        /\ \A k \in DOMAIN calls : ShowsCall(q.steps, calls[k].call, calls[k].name)
    BY <1>1, <1>4, ToolsKeptFacts
  <1> QED  BY <1>1, <1>4, <1>5 DEF LiveWith, Live, q

\* New calls are shown.
LEMMA CallsHandled ==
    ASSUME NEW n \in Nat, NEW m \in Live(n - 1), NEW e \in CallEvents,
           \A k \in DOMAIN e.calls : e.calls[k].call[1] = n,
           \A i, j \in DOMAIN e.calls : e.calls[i].call = e.calls[j].call => i = j
    PROVE  Handle(m, e) \in LiveWith(n, e.calls)
  <1> DEFINE q == Handle(m, e)
  <1>1. m \in Windows /\ m.live /\ UpTo(m.steps, n - 1)
    BY DEF Live
  <1>2. e.type = "tool_call" /\ e.calls \in Seq([call : Nat \X Nat, name : Tools])
    BY DEF CallEvents
  <1>3. q = OnToolCall(m, e)
    BY <1>1, <1>2, HandlerOf
  <1> HIDE DEF q
  <1>4. n - 1 \in Int /\ \A k \in DOMAIN e.calls : e.calls[k].call[1] > n - 1
    <2>1. n - 1 \in Int /\ n > n - 1
      OBVIOUS
    <2> QED  BY <2>1
  <1>5. /\ q \in Windows /\ q.live = m.live
        /\ \A i \in DOMAIN q.steps :
             q.steps[i].type = "tool" =>
               \/ q.steps[i].call[1] <= n - 1
               \/ \E k \in DOMAIN e.calls : q.steps[i].call = e.calls[k].call
        /\ \A k \in DOMAIN e.calls : ShowsCall(q.steps, e.calls[k].call, e.calls[k].name)
    <2> DEFINE p == n - 1
    <2>1. p \in Int /\ UpTo(m.steps, p) /\ \A k \in DOMAIN e.calls : e.calls[k].call[1] > p
      BY <1>1, <1>4
    <2> HIDE DEF p
    <2>2. LET r == OnToolCall(m, e)
          IN /\ r \in Windows /\ r.live = m.live
             /\ \A i \in DOMAIN r.steps :
                  r.steps[i].type = "tool" =>
                    \/ r.steps[i].call[1] <= p
                    \/ \E k \in DOMAIN e.calls : r.steps[i].call = e.calls[k].call
             /\ \A k \in DOMAIN e.calls : ShowsCall(r.steps, e.calls[k].call, e.calls[k].name)
      BY ONLY <1>1, <1>2, <2>1, m \in Windows, ToolCallFacts,
              \A i, j \in DOMAIN e.calls : e.calls[i].call = e.calls[j].call => i = j
    <2> QED  BY <1>3, <2>2 DEF p
  <1>6. UpTo(q.steps, n)
    <2> SUFFICES ASSUME NEW i \in DOMAIN q.steps, q.steps[i].type = "tool"
                 PROVE  q.steps[i].call[1] <= n
      BY DEF UpTo
    <2>1. q.steps[i].call[1] \in Nat
      <3>1. q.steps[i] \in Steps
        BY <1>5, WindowFacts, MessageFacts
      <3>2. q.steps[i] \in ToolSteps
        BY <3>1, StepFacts
      <3> QED  BY <3>2 DEF ToolSteps
    <2>2. CASE q.steps[i].call[1] <= n - 1
      BY <2>1, <2>2
    <2>3. CASE \E k \in DOMAIN e.calls : q.steps[i].call = e.calls[k].call
      BY <2>1, <2>3
    <2> QED  BY <1>5, <2>2, <2>3
  <1> QED  BY <1>1, <1>5, <1>6 DEF LiveWith, Live, q

\* The end of the job finishes the thoughts.
LEMMA CompleteHandled ==
    ASSUME NEW n, NEW m \in Live(n), NEW e \in CompleteEvents
    PROVE  Handle(m, e) \in Closed(n)
  <1>1. m \in Windows /\ m.live /\ UpTo(m.steps, n)
    BY DEF Live
  <1>2. Handle(m, e) = OnComplete(m)
    BY <1>1, HandlerOf DEF CompleteEvents
  <1>3. /\ OnComplete(m) \in Windows
        /\ ToolsKept(m.steps, OnComplete(m).steps)
        /\ \A i \in DOMAIN OnComplete(m).steps :
             OnComplete(m).steps[i].type = "thinking" => OnComplete(m).steps[i].finished
    BY <1>1, ClosedFacts
  <1>4. UpTo(OnComplete(m).steps, n)
    BY <1>1, <1>3, ToolsKeptFacts
  <1> QED  BY <1>2, <1>3, <1>4 DEF Closed

\* The parser's events are pieces of text and thoughts.
LEMMA ParserEvents ==
    ASSUME NEW p \in Parser
    PROVE  p.events \in Seq(PieceEvents)
  <1> DEFINE s == p.events
             E == [type : {"delta", "reasoning_delta"}, content : Seq(Letters)]
  <1>1. s \in Seq(E)
    BY DEF Parser
  <1>2. \A t \in Seq(Letters) : t \in Seq(Letters \cup {"r"})
    OBVIOUS
  <1>3. \A e \in E : e \in PieceEvents
    BY <1>2 DEF PieceEvents
  <1> HIDE DEF s, E
  <1>4. Len(s) \in Nat /\ s = [i \in 1..Len(s) |-> s[i]] /\ \A i \in 1..Len(s) : s[i] \in E
    BY <1>1, LenProperties
  <1> QED  BY <1>3, <1>4, Places DEF s

\* Pieces keep a window live.
LEMMA PiecesShown ==
    ASSUME NEW n, NEW m \in Live(n), NEW events \in Seq(PieceEvents)
    PROVE  HandleAll(m, events) \in Live(n)
  <1> DEFINE k == Len(events)
             good == [i \in 0..k |-> Live(n)]
  <1>1. k \in Nat /\ \A i \in 1..k : events[i] \in PieceEvents
    BY LenProperties
  <1> HIDE DEF k
  <1>2. \A i \in 1..k : i - 1 \in 0..k /\ i \in 0..k
    BY <1>1
  <1>3. 0 \in 0..k /\ k \in 0..k
    BY <1>1
  <1>4. \A i \in 0..k : good[i] = Live(n)
    OBVIOUS
  <1> HIDE DEF good
  <1>5. \A i \in 1..k : \A x \in good[i - 1] : Handle(x, events[i]) \in good[i]
    BY <1>1, <1>2, <1>4, PieceHandled
  <1>6. HandleAll(m, events) \in good[k]
    BY <1>1, <1>3, <1>4, <1>5, HandledAll DEF k
  <1> QED  BY <1>3, <1>4, <1>6

\* Pieces and then the end of the job.
LEMMA EndShown ==
    ASSUME NEW n, NEW m \in Live(n), NEW events \in Seq(PieceEvents)
    PROVE  HandleAll(m, events \o <<[type |-> "complete"]>>) \in Closed(n)
  <1> DEFINE k == Len(events)
             e == [type |-> "complete"]
             all == events \o <<e>>
             good == [i \in 0..(k + 1) |-> IF i <= k THEN Live(n) ELSE Closed(n)]
  <1>1. k \in Nat /\ \A i \in 1..k : events[i] \in PieceEvents
    BY LenProperties
  <1>2. /\ Len(all) = k + 1 /\ \A i \in 1..k : all[i] = events[i]
        /\ all[k + 1] = e
    <2>1. events \in Seq(WindowEvents)
      <3> DEFINE s == events
      <3>1. s = [i \in 1..k |-> s[i]] /\ \A i \in 1..k : s[i] \in WindowEvents
        BY <1>1, LenProperties DEF WindowEvents
      <3> HIDE DEF s, k
      <3>2. s \in Seq(WindowEvents)
        BY <1>1, <3>1, Places
      <3> QED  BY <3>2 DEF s
    <2>2. e \in WindowEvents
      BY DEF WindowEvents, CompleteEvents
    <2> HIDE DEF e
    <2>3. all = Append(events, e)
      BY <2>1, <2>2, AppendIsConcat
    <2> QED  BY <2>1, <2>2, <2>3, AppendProperties
  <1>3. e \in CompleteEvents
    BY DEF CompleteEvents
  <1> HIDE DEF k, e, all
  <1>4. \A i \in 0..(k + 1) : good[i] = IF i <= k THEN Live(n) ELSE Closed(n)
    OBVIOUS
  <1> HIDE DEF good
  <1>5. ASSUME NEW i \in 1..(k + 1), NEW x \in good[i - 1]
        PROVE  Handle(x, all[i]) \in good[i]
    <2>1. i - 1 \in 0..(k + 1) /\ i \in 0..(k + 1) /\ i - 1 <= k
      BY <1>1
    <2>2. x \in Live(n)
      BY <1>4, <2>1
    <2>3. CASE i <= k
      <3>1. i \in 1..k /\ good[i] = Live(n)
        BY <1>4, <2>1, <2>3
      <3> QED  BY <1>1, <1>2, <2>2, <3>1, PieceHandled
    <2>4. CASE ~(i <= k)
      <3>1. i = k + 1 /\ good[i] = Closed(n)
        BY <1>1, <1>4, <2>1, <2>4
      <3> QED  BY <1>2, <1>3, <2>2, <3>1, CompleteHandled
    <2> QED  BY <2>3, <2>4
  <1>6. m \in good[0] /\ good[k + 1] = Closed(n) /\ k + 1 \in Nat
    <2>1. 0 \in 0..(k + 1) /\ 0 <= k /\ k + 1 \in 0..(k + 1) /\ ~(k + 1 <= k) /\ k + 1 \in Nat
      BY <1>1
    <2> QED  BY <1>4, <2>1
  <1>7. HandleAll(m, all) \in good[k + 1]
    BY <1>2, <1>5, <1>6, HandledAll
  <1> QED  BY <1>6, <1>7 DEF all, e

\* Pieces, then the calls of a turn and the requests for confirmation.
LEMMA CallsShown ==
    ASSUME NEW n \in Nat, NEW m \in Live(n - 1), NEW events \in Seq(PieceEvents),
           NEW e \in CallEvents, NEW requests \in Seq(RequestEvents),
           \A k \in DOMAIN e.calls : e.calls[k].call[1] = n,
           \A i, j \in DOMAIN e.calls : e.calls[i].call = e.calls[j].call => i = j
    PROVE  HandleAll(m, events \o (<<e>> \o requests)) \in LiveWith(n, e.calls)
  <1> DEFINE k == Len(events)
             l == Len(requests)
             all == events \o (<<e>> \o requests)
             last == k + 1 + l
             good == [i \in 0..last |-> IF i <= k THEN Live(n - 1) ELSE LiveWith(n, e.calls)]
  <1>1. /\ k \in Nat /\ \A i \in 1..k : events[i] \in PieceEvents
        /\ l \in Nat /\ \A i \in 1..l : requests[i] \in RequestEvents
    BY LenProperties
  <1>2. /\ Len(all) = last /\ \A i \in 1..k : all[i] = events[i]
        /\ all[k + 1] = e
        /\ \A i \in 1..l : all[k + 1 + i] = requests[i]
    <2>1. events \in Seq(WindowEvents)
      <3> DEFINE s == events
      <3>1. s = [i \in 1..k |-> s[i]] /\ \A i \in 1..k : s[i] \in WindowEvents
        BY <1>1, LenProperties DEF WindowEvents
      <3> HIDE DEF s, k
      <3>2. s \in Seq(WindowEvents)
        BY <1>1, <3>1, Places
      <3> QED  BY <3>2 DEF s
    <2>2. requests \in Seq(WindowEvents)
      <3> DEFINE s == requests
      <3>1. s = [i \in 1..l |-> s[i]] /\ \A i \in 1..l : s[i] \in WindowEvents
        BY <1>1, LenProperties DEF WindowEvents
      <3> HIDE DEF s, l
      <3>2. s \in Seq(WindowEvents)
        BY <1>1, <3>1, Places
      <3> QED  BY <3>2 DEF s
    <2>3. <<e>> \in Seq(WindowEvents) /\ Len(<<e>>) = 1 /\ <<e>>[1] = e
      BY DEF WindowEvents
    <2> DEFINE one == <<e>>
               rest2 == one \o requests
    <2> HIDE DEF one
    <2>4. \A x, y \in Seq(WindowEvents) :
            /\ x \o y \in Seq(WindowEvents) /\ Len(x \o y) = Len(x) + Len(y)
            /\ \A i \in 1..(Len(x) + Len(y)) :
                 (x \o y)[i] = IF i <= Len(x) THEN x[i] ELSE y[i - Len(x)]
      BY ConcatProperties
    <2>5. /\ rest2 \in Seq(WindowEvents) /\ Len(rest2) = 1 + l
          /\ \A i \in 1..(1 + l) : rest2[i] = IF i <= 1 THEN e ELSE requests[i - 1]
      <3>1. /\ rest2 \in Seq(WindowEvents) /\ Len(rest2) = 1 + l
            /\ \A i \in 1..(1 + l) : rest2[i] = IF i <= 1 THEN one[i] ELSE requests[i - 1]
        BY <2>2, <2>3, <2>4 DEF one
      <3>2. \A i \in 1..(1 + l) : i <= 1 => i = 1
        OBVIOUS
      <3> QED  BY <2>3, <3>1, <3>2 DEF one
    <2>6. all = events \o rest2
      BY DEF one
    <2> HIDE DEF rest2, all, k, l
    <2>7. /\ Len(all) = k + (1 + l)
          /\ \A i \in 1..(k + (1 + l)) : all[i] = IF i <= k THEN events[i] ELSE rest2[i - k]
      BY <2>1, <2>4, <2>5, <2>6 DEF k
    <2>8. ASSUME NEW i \in 1..k
          PROVE  all[i] = events[i]
      <3>1. i \in 1..(k + (1 + l)) /\ i <= k
        BY <1>1
      <3> QED  BY <2>7, <3>1
    <2>9. all[k + 1] = e
      <3>1. k + 1 \in 1..(k + (1 + l)) /\ ~(k + 1 <= k) /\ (k + 1) - k = 1 /\ 1 \in 1..(1 + l)
        BY <1>1
      <3> QED  BY <2>5, <2>7, <3>1
    <2>10. ASSUME NEW i \in 1..l
           PROVE  all[k + 1 + i] = requests[i]
      <3>1. /\ k + 1 + i \in 1..(k + (1 + l)) /\ ~(k + 1 + i <= k)
            /\ (k + 1 + i) - k = 1 + i /\ 1 + i \in 1..(1 + l) /\ ~(1 + i <= 1)
            /\ (1 + i) - 1 = i
        BY <1>1
      <3> QED  BY <2>5, <2>7, <3>1, SMTT(30)
    <2>11. last = k + (1 + l)
      BY <1>1
    <2> QED  BY <2>7, <2>8, <2>9, <2>10, <2>11
  <1> DEFINE before == Live(n - 1)
             after == LiveWith(n, e.calls)
  <1>3. \A i \in 0..last : good[i] = IF i <= k THEN before ELSE after
    OBVIOUS
  <1> HIDE DEF k, l, all, good
  <1>4. ASSUME NEW i \in 1..last, NEW x \in good[i - 1]
        PROVE  Handle(x, all[i]) \in good[i]
    <2>1. i - 1 \in 0..last /\ i \in 0..last
      BY <1>1
    <2>2. CASE i <= k
      <3>1. i \in 1..k /\ i - 1 <= k /\ good[i] = before /\ x \in before
        BY <1>1, <1>3, <2>1, <2>2
      <3> QED  BY <1>1, <1>2, <3>1, PieceHandled
    <2>3. CASE i = k + 1
      <3>1. ~(i <= k) /\ i - 1 <= k
        BY <1>1, <2>3
      <3>2. good[i] = after /\ x \in before
        BY <1>3, <2>1, <3>1
      <3> QED  BY <1>2, <2>3, <3>2, CallsHandled
    <2>4. CASE ~(i <= k) /\ i # k + 1
      <3> DEFINE j == i - (k + 1)
      <3>1. j \in 1..l /\ i = k + 1 + j /\ ~(i - 1 <= k)
        BY <1>1, <2>4
      <3> HIDE DEF j
      <3>2. good[i] = after /\ x \in after
        BY <1>3, <2>1, <2>4, <3>1
      <3>3. all[i] \in RequestEvents
        BY <1>1, <1>2, <3>1
      <3> QED  BY <3>2, <3>3, RequestHandled
    <2> QED  BY <2>2, <2>3, <2>4
  <1>5. m \in good[0] /\ good[last] = after /\ last \in Nat
    <2>1. 0 \in 0..last /\ 0 <= k /\ last \in 0..last /\ ~(last <= k) /\ last \in Nat
      BY <1>1
    <2> QED  BY <1>3, <2>1
  <1> HIDE DEF last
  <1>6. HandleAll(m, all) \in good[last]
    BY <1>2, <1>4, <1>5, HandledAll
  <1> QED  BY <1>5, <1>6 DEF all

-----------------------------------------------------------------------------
(* The invariant of the window                                             *)

\* A call without a result.
Awaits == [call : Nat \X Nat, name : Tools, at : {"user", "tool", "done"}]

\* The message shows what it was sent, reads on until the job has ended, and
\* shows no call of a turn that has not handed over its calls.
Shown ==
    /\ view \in Windows
    /\ kind # "stream" => view.steps = <<>>
    /\ pc \notin {"done", "failed"} => view.live
    /\ pc = "done" =>
         \A i \in DOMAIN view.steps : view.steps[i].type = "thinking" => view.steps[i].finished
    /\ UpTo(view.steps, iteration)
    /\ pc \in {"asking", "streaming"} => UpTo(view.steps, iteration - 1)

\* The calls that are waited for are shown.
Awaited ==
    /\ waiting \in Seq(Awaits)
    /\ pc = "waiting" =>
         \A k \in DOMAIN waiting : ShowsCall(view.steps, waiting[k].call, waiting[k].name)

\* No more calls are handed over than were made.
Counted == pc = "streaming" => Len(tools) <= Len(said.calls)

WindowInv == Shown /\ Awaited /\ Counted

\* An empty message is shown whole.
LEMMA EmptyShown ==
    /\ EmptyMessage \in Windows /\ EmptyMessage.steps = <<>> /\ EmptyMessage.live
    /\ \A n : UpTo(<<>>, n)
  <1>1. \A S : <<>> \in Seq(S)
    BY EmptySeq
  <1>2. EmptyMessage \in Messages /\ EmptyMessage.steps = <<>> /\ EmptyMessage.live
        /\ EmptyMessage.early = <<>> /\ EmptyMessage.content = <<>> /\ EmptyMessage.pieces = 0
    BY <1>1 DEF EmptyMessage, Messages
  <1>3. TextShown(EmptyMessage)
    BY <1>2, ShowsText DEF TextShown, ShownText
  <1>4. ThoughtsShown(EmptyMessage)
    BY <1>2 DEF ThoughtsShown
  <1>5. ResultsOwn(<<>>) /\ OneName(<<>>) /\ \A n : UpTo(<<>>, n)
    BY DEF ResultsOwn, OneName, UpTo
  <1> QED  BY <1>2, <1>3, <1>4, <1>5 DEF Windows

\* The window shows what it was sent at the beginning.
LEMMA WindowInitOK ==
    CallsInit => WindowInv
  <1> SUFFICES ASSUME CallsInit
               PROVE  WindowInv
    OBVIOUS
  <1>1. view = EmptyMessage /\ pc = "turn" /\ waiting = <<>>
    BY DEF CallsInit
  <1>2. Shown
    BY <1>1, EmptyShown DEF Shown
  <1>3. Awaited /\ Counted
    BY <1>1, EmptySeq DEF Awaited, Counted
  <1> QED  BY <1>2, <1>3 DEF WindowInv

\* What is of the turns before is of the turns up to this one.
LEMMA UpToNext ==
    ASSUME NEW m \in Windows, NEW n \in Nat
    PROVE  /\ UpTo(m.steps, n) => UpTo(m.steps, n + 1)
           /\ UpTo(m.steps, n - 1) => UpTo(m.steps, n)
  <1>1. ASSUME NEW i \in DOMAIN m.steps, m.steps[i].type = "tool"
        PROVE  m.steps[i].call[1] \in Nat
    <2>1. m.steps[i] \in Steps
      BY WindowFacts, MessageFacts
    <2>2. m.steps[i] \in ToolSteps
      BY <1>1, <2>1, StepFacts
    <2> QED  BY <2>2 DEF ToolSteps
  <1> QED  BY <1>1 DEF UpTo

\* A call handed over is one that was made, until the turn ends.
LEMMA CountedStep ==
    ASSUME CallsInv, WindowInv, [CallsNext]_callsVars
    PROVE  Counted'
  <1>1. CallsTypeOK /\ CallsTypeOK' /\ Gathered /\ Gathered' /\ Blank /\ Counted
    BY CallsTypeStep, GatheredStep DEF CallsInv, WindowInv
  <1>2. /\ Len(tools) \in Nat /\ Len(open) \in Nat /\ Len(said.calls) \in Nat
        /\ Len(tools') \in Nat /\ Len(open') \in Nat /\ Len(said'.calls) \in Nat
    <2>1. /\ Len(tools) \in Nat /\ Len(open) \in Nat /\ Len(said.calls) \in Nat
      BY <1>1, CallsTypeFacts
    <2>2. tools' \in Seq(HandedCall) /\ open' \in Seq(OpenCall) /\ said'.calls \in Seq(ModelCall)
      BY <1>1 DEF CallsTypeOK
    <2> QED  BY <2>1, <2>2, LenProperties
  <1>3. CASE pc' # "streaming"
    BY <1>3 DEF Counted
  <1>4. CASE pc' = "streaming" /\ finish' = "none"
    <2>1. Len(tools') + Len(open') = Len(said'.calls)
      BY <1>1, <1>4 DEF Gathered
    <2> QED  BY <1>2, <2>1 DEF Counted
  <1>5. CASE pc' = "streaming" /\ finish' = "stop"
    <2>1. Len(tools') = Len(said'.calls)
      BY <1>1, <1>5 DEF Gathered
    <2> QED  BY <1>2, <2>1 DEF Counted
  <1>6. CASE pc' = "streaming" /\ finish' = "length"
    <2>1. CASE Finishes
      <3>1. /\ pc = "streaming" /\ finish = "none" /\ said' = said
            /\ open \in Seq(OpenCall) /\ tools \in Seq(HandedCall) /\ HandOver
        BY <1>1, <2>1 DEF Finishes, Streaming, CallsTypeOK
      <3>2. Len(tools') = Len(tools) + Len(open)
        BY <3>1, HandedOver
      <3>3. Len(tools) + Len(open) = Len(said.calls)
        BY <1>1, <3>1 DEF Gathered
      <3> QED  BY <1>2, <3>1, <3>2, <3>3 DEF Counted
    <2>2. CASE UNCHANGED callsVars
      BY <1>1, <2>2 DEF callsVars, turn, Counted
    <2> QED
      BY <1>1, <1>6, <2>1, <2>2
         DEF CallsNext, Ask, FreshTurn, OutOfTurns, Refused, Completes, StructuredArrives,
             StructuredFails, Structured, Again, GivesUp, RequestFails, StreamFails, Begins,
             Accepts, Blank, turn, Reasons, Streaming, TextArrives, CallBegins, PieceArrives,
             BlockStops, Final, UserAnswers, ResultArrives, EndsEarly, Ended
  <1> QED  BY <1>1, <1>3, <1>4, <1>5, <1>6 DEF CallsTypeOK

-----------------------------------------------------------------------------
(* Every step shows what it sends                                          *)

\* An error ends the reading and leaves what is shown.
LEMMA FailureShown ==
    ASSUME CallsInv, WindowInv, pc \notin {"done", "failed"}, pc' = "failed",
           view' = Handle(view, [type |-> "error"]),
           UNCHANGED <<kind, iteration, waiting>>
    PROVE  Shown' /\ Awaited'
  <1>1. Shown /\ Awaited /\ view \in Windows /\ view.live
    BY DEF WindowInv, Shown
  <1>2. view' = OnError(view)
    BY <1>1, HandlerOf
  <1>3. view' \in Windows /\ view'.steps = view.steps
    BY <1>1, <1>2, ClosedFacts
  <1> QED  BY <1>1, <1>3 DEF Shown, Awaited

\* A step that sends nothing shows nothing.
LEMMA NothingSent ==
    ASSUME CallsInv, WindowInv, UNCHANGED <<view, waiting, kind>>,
           \/ Ask
           \/ /\ iteration' = iteration
              /\ \/ pc' = pc
                 \/ pc \in {"asking", "streaming"} /\ pc' \in {"asking", "streaming", "turn"}
                 \/ pc = "asking" /\ pc' \in {"done", "failed"} /\ kind # "stream"
    PROVE  Shown' /\ Awaited'
  <1>1. Shown /\ Awaited /\ iteration \in Nat /\ view \in Windows
    <2>1. iteration \in 0..MaxIterations /\ MaxIterations \in Nat
      BY CallsAssumption DEF CallsInv, CallsTypeOK
    <2> QED  BY <2>1 DEF WindowInv, Shown
  <1>2. CASE Ask
    <2>1. pc = "turn" /\ pc' = "asking" /\ iteration' = iteration + 1
      BY <1>2 DEF Ask
    <2>2. iteration' - 1 = iteration
      BY <1>1, <2>1
    <2>3. UpTo(view.steps, iteration) /\ view.live
      BY <1>1, <2>1 DEF Shown
    <2>4. UpTo(view.steps, iteration')
      BY <1>1, <2>1, <2>3, UpToNext
    <2> QED  BY <1>1, <2>1, <2>2, <2>3, <2>4 DEF Shown, Awaited
  <1>3. CASE pc' = pc /\ iteration' = iteration
    BY <1>1, <1>3 DEF Shown, Awaited
  <1>4. CASE /\ pc \in {"asking", "streaming"} /\ pc' \in {"asking", "streaming", "turn"}
             /\ iteration' = iteration
    BY <1>1, <1>4 DEF Shown, Awaited
  <1>5. CASE /\ pc = "asking" /\ pc' \in {"done", "failed"} /\ kind # "stream"
             /\ iteration' = iteration
    BY <1>1, <1>5 DEF Shown, Awaited
  <1> QED  BY <1>2, <1>3, <1>4, <1>5

\* The model's own reasoning and a chunk of text are shown.
LEMMA PieceSentShown ==
    ASSUME CallsInv, WindowInv, Reasons \/ TextArrives
    PROVE  Shown' /\ Awaited'
  <1>1. /\ pc = "streaming" /\ pc' = "streaming" /\ kind' = kind /\ iteration' = iteration
        /\ waiting' = waiting
    BY DEF Reasons, TextArrives, Streaming, rest
  <1>2. /\ Shown /\ Awaited /\ kind = "stream" /\ iteration \in Nat
        /\ CallsTypeOK /\ parse \in Parser /\ parse.events = <<>>
    <2>1. iteration \in 0..MaxIterations /\ MaxIterations \in Nat
      BY CallsAssumption DEF CallsInv, CallsTypeOK
    <2> QED  BY <1>1, <2>1 DEF WindowInv, CallsInv, Served, CallsTypeOK
  <1> DEFINE n == iteration - 1
  <1>3. view \in Live(n)
    BY <1>1, <1>2 DEF Shown, Live
  <1>4. \E events \in Seq(PieceEvents) : view' = HandleAll(view, events)
    <2>1. CASE Reasons
      <3> DEFINE e == [type |-> "reasoning_delta", content |-> <<"r">>]
                 p == [parse EXCEPT !.reasoning = <<"r">>]
      <3>1. view' = HandleAll(view, p.events \o <<e>>)
        BY <2>1 DEF Reasons, Sends
      <3>2. p.events = <<>>
        BY <1>2 DEF Parser
      <3>3. e \in PieceEvents
        <4>1. <<"r">> \in Seq(Letters \cup {"r"})
          OBVIOUS
        <4> QED  BY <4>1 DEF PieceEvents
      <3> DEFINE one == <<e>>
      <3>4. one \in Seq(PieceEvents)
        BY <3>3
      <3> HIDE DEF one, p
      <3>5. p.events \o one = one
        BY <3>2, <3>4, ConcatEmptySeq
      <3> QED  BY <3>1, <3>4, <3>5 DEF one
    <2>2. CASE TextArrives
      <3>1. PICK chunk \in BoundedSeq(Letters, MaxText - spent) :
              view' = HandleAll(view, Take(parse, chunk).events \o <<>>)
        BY <2>2 DEF TextArrives, Sends
      <3>2. MaxText - spent \in Int
        BY <1>2, CallsAssumption DEF CallsTypeOK
      <3>3. chunk \in Seq(Letters)
        BY <3>2, ChunkFacts
      <3> DEFINE p == Take(parse, chunk)
                 events == p.events
      <3>4. p \in Parser
        BY <1>2, <3>3, TakeFacts
      <3> HIDE DEF p
      <3>5. events \in Seq(PieceEvents)
        BY <3>4, ParserEvents
      <3> HIDE DEF events
      <3>6. events \o <<>> = events
        BY <3>5, ConcatEmptySeq
      <3> QED  BY <3>1, <3>5, <3>6 DEF events, p
    <2> QED  BY <2>1, <2>2
  <1>5. view' \in Live(n)
    BY <1>3, <1>4, PiecesShown
  <1>6. view' \in Windows /\ view'.live /\ UpTo(view'.steps, iteration - 1)
    BY <1>5 DEF Live
  <1>7. UpTo(view'.steps, iteration)
    BY <1>2, <1>6, UpToNext
  <1> QED  BY <1>1, <1>2, <1>6, <1>7 DEF Shown, Awaited

\* The calls of a turn as the window is told of them.
LEMMA CallsTold ==
    ASSUME CallsInv, WindowInv, pc = "streaming"
    PROVE  /\ ToolCallEvent \in CallEvents /\ ConfirmRequests \in Seq(RequestEvents)
           /\ DOMAIN tools = 1..Len(tools) /\ Len(tools) \in Nat
           /\ DOMAIN ToolCallEvent.calls = 1..Len(tools)
           /\ \A i \in 1..Len(tools) :
                /\ ToolCallEvent.calls[i].call = <<iteration, i>>
                /\ Id(tools[i]) = ToolCallEvent.calls[i].call
                /\ Name(tools[i]) = ToolCallEvent.calls[i].name
                /\ Id(tools[i]) \in Nat \X Nat /\ Name(tools[i]) \in Tools
  <1> DEFINE k == Len(tools)
             Call(i) == [call |-> Id(tools[i]), name |-> Name(tools[i])]
             calls == [i \in 1..k |-> Call(i)]
  <1>1. /\ DOMAIN tools = 1..k /\ k \in Nat /\ iteration \in Nat
        /\ k <= Len(said.calls) /\ Len(said.calls) \in Nat /\ said.calls \in Seq(ModelCall)
        /\ \A i \in 1..k : tools[i].call = i
    <2>1. iteration \in 0..MaxIterations /\ MaxIterations \in Nat
      BY CallsAssumption DEF CallsInv, CallsTypeOK
    <2>2. CallsTypeOK /\ Gathered /\ Counted
      BY DEF CallsInv, WindowInv
    <2>3. /\ DOMAIN tools = 1..Len(tools) /\ Len(tools) \in Nat
          /\ Len(said.calls) \in Nat /\ said.calls \in Seq(ModelCall)
      BY <2>2, CallsTypeFacts
    <2>4. \A i \in DOMAIN tools : tools[i].call = i
      BY <2>2 DEF Gathered
    <2>5. Len(tools) <= Len(said.calls)
      BY <2>2 DEF Counted
    <2> QED  BY <2>1, <2>3, <2>4, <2>5
  <1>2. ASSUME NEW i \in 1..k
        PROVE  /\ Id(tools[i]) = <<iteration, i>> /\ Id(tools[i]) \in Nat \X Nat
               /\ Name(tools[i]) \in Tools
    <2>1. i \in 1..Len(said.calls) /\ i \in Nat
      BY <1>1
    <2>2. said.calls[i] \in ModelCall
      BY <1>1, <2>1, ElementOfSeq
    <2>3. said.calls[i].name \in Tools
      BY <2>2 DEF ModelCall
    <2> QED  BY <1>1, <2>1, <2>3 DEF Id, Name
  <1>3. ToolCallEvent = [type |-> "tool_call", calls |-> calls]
    BY <1>1 DEF ToolCallEvent
  <1>4. \A i \in 1..k : Call(i) \in [call : Nat \X Nat, name : Tools]
    BY <1>2
  <1>5. calls \in Seq([call : Nat \X Nat, name : Tools]) /\ DOMAIN calls = 1..k
        /\ \A i \in 1..k : calls[i] = Call(i)
    BY <1>1, <1>4
  <1>6. \A i \in 1..k : Call(i).call = Id(tools[i]) /\ Call(i).name = Name(tools[i])
    OBVIOUS
  <1> HIDE DEF calls, Call, k
  <1>7. ToolCallEvent \in CallEvents /\ ToolCallEvent.calls = calls
    BY <1>3, <1>5 DEF CallEvents
  <1>8. ConfirmRequests \in Seq(RequestEvents)
    <2> DEFINE Request1(i) == [type |-> "confirm_request", call |-> Id(tools[i])]
               Ask1(i) == IF Name(tools[i]) \in Confirmed THEN <<Request1(i)>> ELSE <<>>
               f == [i \in 1..k |-> Ask1(i)]
    <2>1. ASSUME NEW i \in 1..k
          PROVE  Ask1(i) \in Seq(RequestEvents)
      <3>1. Request1(i) \in RequestEvents
        BY <1>2 DEF RequestEvents, k
      <3> HIDE DEF Request1
      <3> QED  BY <3>1, EmptySeq
    <2>2. ConfirmRequests = FlattenSeq(f)
      BY <1>1 DEF ConfirmRequests
    <2> DEFINE S == Seq(RequestEvents)
    <2>3. f = [i \in 1..k |-> f[i]] /\ \A i \in 1..k : f[i] \in S
      BY <2>1
    <2> HIDE DEF f, S
    <2>4. f \in Seq(S)
      BY <1>1, <2>3, Places
    <2>5. FlattenSeq(f) \in Seq(RequestEvents)
      BY <2>4, EmptySeq, FlattenLast DEF S
    <2> QED  BY <2>2, <2>5
  <1> QED  BY <1>1, <1>2, <1>5, <1>6, <1>7, <1>8 DEF k

\* The end of a turn is shown: the end of the job, or the calls of the turn.
LEMMA FinalShown ==
    ASSUME CallsInv, WindowInv, Final
    PROVE  Shown' /\ Awaited'
  <1>1. pc = "streaming" /\ kind' = kind /\ iteration' = iteration
    BY DEF Final, rest
  <1>2. /\ Shown /\ kind = "stream" /\ iteration \in Nat /\ parse \in Parser
    <2>1. iteration \in 0..MaxIterations /\ MaxIterations \in Nat
      BY CallsAssumption DEF CallsInv, CallsTypeOK
    <2> QED  BY <1>1, <2>1 DEF WindowInv, CallsInv, Served, CallsTypeOK
  <1> DEFINE events == Flush(parse).events
  <1>3. events \in Seq(PieceEvents)
    BY <1>2, FlushFacts, ParserEvents
  <1> DEFINE n == iteration - 1
  <1>4. view \in Live(n)
    BY <1>1, <1>2 DEF Shown, Live
  <1> HIDE DEF events
  <1>5. CASE tools = <<>>
    <2>1. pc' = "done" /\ waiting' = <<>>
          /\ view' = HandleAll(view, events \o <<[type |-> "complete"]>>)
      BY <1>5 DEF Final, Sends, events
    <2>2. view' \in Closed(n)
      BY <1>3, <1>4, <2>1, EndShown
    <2>3. /\ view' \in Windows /\ UpTo(view'.steps, iteration - 1)
          /\ \A i \in DOMAIN view'.steps :
               view'.steps[i].type = "thinking" => view'.steps[i].finished
      BY <2>2 DEF Closed
    <2>4. UpTo(view'.steps, iteration)
      BY <1>2, <2>3, UpToNext
    <2> QED  BY <1>1, <1>2, <2>1, <2>3, <2>4, EmptySeq DEF Shown, Awaited
  <1>6. CASE tools # <<>>
    <2> DEFINE e == ToolCallEvent
               calls == e.calls
               k == Len(tools)
               Wait(i) == [call |-> Id(tools[i]), name |-> Name(tools[i]),
                           at |-> IF Name(tools[i]) \in Confirmed THEN "user" ELSE "tool"]
    <2>1. /\ e \in CallEvents /\ ConfirmRequests \in Seq(RequestEvents)
          /\ DOMAIN tools = 1..k /\ k \in Nat /\ DOMAIN calls = 1..k
          /\ \A i \in 1..k :
               /\ calls[i].call = <<iteration, i>>
               /\ Id(tools[i]) = calls[i].call /\ Name(tools[i]) = calls[i].name
               /\ Id(tools[i]) \in Nat \X Nat /\ Name(tools[i]) \in Tools
      BY <1>1, CallsTold
    <2>2. /\ pc' = "waiting" /\ waiting' = [i \in 1..k |-> Wait(i)]
          /\ view' = HandleAll(view, events \o (<<e>> \o ConfirmRequests))
      BY <1>6, <2>1 DEF Final, Sends, events
    <2>3. /\ \A i \in DOMAIN calls : calls[i].call[1] = iteration
          /\ \A i, j \in DOMAIN calls : calls[i].call = calls[j].call => i = j
      BY <2>1
    <2>4. ASSUME NEW i \in 1..k
          PROVE  /\ Wait(i) \in Awaits
                 /\ Wait(i).call = calls[i].call /\ Wait(i).name = calls[i].name
      BY <2>1 DEF Awaits
    <2> HIDE DEF e, Wait, k
    <2>5. view' \in LiveWith(iteration, calls)
      BY <1>2, <1>3, <1>4, <2>1, <2>2, <2>3, CallsShown
    <2>6. /\ view' \in Windows /\ view'.live /\ UpTo(view'.steps, iteration)
          /\ \A i \in DOMAIN calls : ShowsCall(view'.steps, calls[i].call, calls[i].name)
      BY <2>5 DEF LiveWith, Live
    <2>7. waiting' \in Seq(Awaits) /\ DOMAIN waiting' = 1..k
          /\ \A i \in 1..k : waiting'[i] = Wait(i)
      BY <2>1, <2>2, <2>4
    <2>8. \A i \in DOMAIN waiting' :
            ShowsCall(view'.steps, waiting'[i].call, waiting'[i].name)
      BY <2>1, <2>4, <2>6, <2>7
    <2> QED  BY <1>1, <1>2, <2>2, <2>6, <2>7, <2>8 DEF Shown, Awaited
  <1> QED  BY <1>5, <1>6

\* What becomes of a call that is waited for.
LEMMA AwaitsFacts ==
    ASSUME NEW w \in Seq(Awaits), NEW i \in DOMAIN w, NEW at \in {"user", "tool", "done"},
           NEW v, v = [w EXCEPT ![i].at = at]
    PROVE  /\ v \in Seq(Awaits) /\ DOMAIN v = DOMAIN w
           /\ \A j \in DOMAIN w : v[j].call = w[j].call /\ v[j].name = w[j].name
  <1> DEFINE c == [w[i] EXCEPT !.at = at]
  <1>1. DOMAIN w = 1..Len(w) /\ Len(w) \in Nat
    BY LenProperties
  <1>2. w[i] \in Awaits
    BY <1>1, ElementOfSeq
  <1>3. c \in Awaits /\ c.call = w[i].call /\ c.name = w[i].name
    <2> DEFINE r == w[i]
    <2>1. r \in Awaits
      BY <1>2
    <2> HIDE DEF r
    <2>2. LET d == [r EXCEPT !.at = at]
          IN d \in Awaits /\ d.call = r.call /\ d.name = r.name
      BY <2>1 DEF Awaits
    <2> QED  BY <2>2 DEF r
  <1> HIDE DEF c
  <1>4. v = [w EXCEPT ![i] = c]
    BY DEF c
  <1>5. /\ v \in Seq(Awaits) /\ Len(v) = Len(w)
        /\ \A j \in 1..Len(w) : v[j] = IF j = i THEN c ELSE w[j]
    BY <1>1, <1>3, <1>4, ExceptSeq
  <1>6. DOMAIN v = DOMAIN w
    BY <1>1, <1>5, LenProperties
  <1> QED  BY <1>1, <1>3, <1>5, <1>6

\* An answer of the user and a result are shown.
LEMMA AnswerShown ==
    ASSUME CallsInv, WindowInv, UserAnswers \/ ResultArrives
    PROVE  Shown' /\ Awaited'
  <1>1. /\ pc = "waiting" /\ pc' \in {"waiting", "turn"}
        /\ kind' = kind /\ iteration' = iteration
    BY DEF UserAnswers, ResultArrives, rest
  <1>2. /\ Shown /\ Awaited /\ view \in Windows /\ view.live /\ kind = "stream"
        /\ UpTo(view.steps, iteration) /\ waiting \in Seq(Awaits)
    BY <1>1 DEF WindowInv, CallsInv, Served, Shown, Awaited
  <1>3. \A i \in DOMAIN waiting : waiting[i] \in Awaits
    BY <1>2, LenProperties, ElementOfSeq
  <1>4. /\ view' \in Windows /\ view'.live /\ UpTo(view'.steps, iteration)
        /\ \A call, name : ShowsCall(view.steps, call, name) => ShowsCall(view'.steps, call, name)
    <2>1. CASE UserAnswers
      <3>1. PICK i \in DOMAIN waiting :
              view' = Handle(view, [type |-> "confirm_response", call |-> waiting[i].call])
        BY <2>1 DEF UserAnswers
      <3> DEFINE e == [type |-> "confirm_response", call |-> waiting[i].call]
      <3>2. e.type = "confirm_response"
        OBVIOUS
      <3> HIDE DEF e
      <3>3. view' = OnConfirmResponse(view, e)
        BY <1>2, <3>1, <3>2, HandlerOf DEF e
      <3>4. view' \in Windows /\ view'.live /\ ToolsKept(view.steps, view'.steps)
        BY <1>2, <3>3, ConfirmResponseFacts
      <3> QED  BY <1>2, <3>4, ToolsKeptFacts
    <2>2. CASE ResultArrives
      <3>1. PICK i \in DOMAIN waiting :
              view' = Handle(view, [type |-> "tool_result", call |-> waiting[i].call,
                                    name |-> waiting[i].name])
        BY <2>2 DEF ResultArrives
      <3> DEFINE e == [type |-> "tool_result", call |-> waiting[i].call, name |-> waiting[i].name]
      <3>2. /\ e.type = "tool_result" /\ e.call = waiting[i].call /\ e.name = waiting[i].name
            /\ e.call \in Nat \X Nat
        BY <1>3 DEF Awaits
      <3> HIDE DEF e
      <3>3. view' = OnToolResult(view, e)
        BY <1>2, <3>1, <3>2, HandlerOf DEF e
      <3>4. ShowsCall(view.steps, e.call, e.name)
        BY <1>1, <1>2, <3>2 DEF Awaited
      <3>5. /\ view' \in Windows /\ view'.live
            /\ \A n : UpTo(view.steps, n) => UpTo(view'.steps, n)
            /\ \A call, name :
                 ShowsCall(view.steps, call, name) => ShowsCall(view'.steps, call, name)
        BY <1>2, <3>2, <3>3, <3>4, ToolResultFacts
      <3> QED  BY <1>2, <3>5
    <2> QED  BY <2>1, <2>2
  <1>5. /\ waiting' \in Seq(Awaits) /\ DOMAIN waiting' = DOMAIN waiting
        /\ \A j \in DOMAIN waiting :
             waiting'[j].call = waiting[j].call /\ waiting'[j].name = waiting[j].name
    <2>1. PICK i \in DOMAIN waiting, at \in {"tool", "done"} :
            waiting' = [waiting EXCEPT ![i].at = at]
      BY DEF UserAnswers, ResultArrives
    <2> DEFINE w == waiting
               v == waiting'
    <2>2. /\ w \in Seq(Awaits) /\ i \in DOMAIN w /\ at \in {"user", "tool", "done"}
          /\ v = [w EXCEPT ![i].at = at]
      BY <1>2, <2>1
    <2> HIDE DEF v, w
    <2>3. /\ v \in Seq(Awaits) /\ DOMAIN v = DOMAIN w
          /\ \A j \in DOMAIN w : v[j].call = w[j].call /\ v[j].name = w[j].name
      BY ONLY <2>2, AwaitsFacts
    <2> QED  BY <2>3 DEF v, w
  <1>6. Shown'
    BY <1>1, <1>2, <1>4 DEF Shown
  <1>7. Awaited'
    BY <1>1, <1>2, <1>4, <1>5 DEF Awaited
  <1> QED  BY <1>6, <1>7

\* Every step shows what it sends.
LEMMA WindowStep ==
    ASSUME CallsInv, WindowInv, [CallsNext]_callsVars
    PROVE  WindowInv'
  <1>1. Counted'
    BY CountedStep
  <1> DEFINE Quiet1 == UNCHANGED <<view, waiting, kind>>
             Fails == /\ pc \notin {"done", "failed"} /\ pc' = "failed"
                      /\ view' = Handle(view, [type |-> "error"])
                      /\ UNCHANGED <<kind, iteration, waiting>>
             Moves1 == /\ iteration' = iteration
                       /\ \/ pc' = pc
                          \/ pc \in {"asking", "streaming"}
                             /\ pc' \in {"asking", "streaming", "turn"}
                          \/ pc = "asking" /\ pc' \in {"done", "failed"} /\ kind # "stream"
  <1>2. CASE Quiet1 /\ (Ask \/ Moves1)
    <2>1. Shown' /\ Awaited'
      BY <1>2, NothingSent
    <2> QED  BY <1>1, <2>1 DEF WindowInv
  <1>3. CASE Fails
    <2>1. Shown' /\ Awaited'
      BY <1>3, FailureShown
    <2> QED  BY <1>1, <2>1 DEF WindowInv
  <1>4. CASE Reasons \/ TextArrives \/ Final \/ UserAnswers \/ ResultArrives
    <2>1. Shown' /\ Awaited'
      BY <1>4, PieceSentShown, FinalShown, AnswerShown
    <2> QED  BY <1>1, <2>1 DEF WindowInv
  <1>5. ASSUME Ask
        PROVE  Quiet1
    BY <1>5 DEF Ask
  <1>6. ASSUME Refused
        PROVE  (Quiet1 /\ Moves1) \/ Fails
    BY <1>6 DEF Refused, rest
  <1>7. ASSUME Completes
        PROVE  Quiet1 /\ Moves1
    BY <1>7 DEF Completes, Accepts, rest
  <1>8. ASSUME StructuredArrives
        PROVE  Quiet1 /\ Moves1
    BY <1>8 DEF StructuredArrives, Structured
  <1>9. ASSUME OutOfTurns \/ StructuredFails \/ RequestFails \/ StreamFails
        PROVE  (Quiet1 /\ Moves1) \/ Fails
    BY <1>9 DEF OutOfTurns, StructuredFails, RequestFails, StreamFails, Again, GivesUp, rest
  <1>10. ASSUME Begins \/ CallBegins \/ PieceArrives \/ BlockStops \/ Finishes \/ EndsEarly
         PROVE  Quiet1 /\ Moves1
    BY <1>10
       DEF Begins, Accepts, CallBegins, PieceArrives, BlockStops, Finishes, EndsEarly, Streaming,
           rest
  <1>11. ASSUME Ended \/ UNCHANGED callsVars
         PROVE  Quiet1 /\ Moves1
    BY <1>11 DEF Ended, rest, callsVars
  <1> HIDE DEF Quiet1, Fails, Moves1
  <1> QED
    BY <1>2, <1>3, <1>4, <1>5, <1>6, <1>7, <1>8, <1>9, <1>10, <1>11 DEF CallsNext

-----------------------------------------------------------------------------
(* The theorem of the window                                               *)

\* Whatever the model says and however it comes, over the turns of a job the
\* message shows the whole text once and in order, its thoughts whole, and each
\* completed tool with its own result unless another is of its name
\* (RealChatClient.ts, MessageBubble.tsx).
THEOREM MessagesAreShownAsSent == CallsSpec => []ShownAsSent
  <1>1. CallsInit => WindowInv
    BY WindowInitOK
  <1>2. CallsInv /\ WindowInv /\ [CallsNext]_callsVars => WindowInv'
    BY WindowStep
  <1>3. WindowInv => ShownAsSent
    <2> SUFFICES ASSUME WindowInv
                 PROVE  ShownAsSent
      OBVIOUS
    <2>1. /\ view \in Windows
          /\ pc = "done" => \A i \in DOMAIN view.steps :
               view.steps[i].type = "thinking" => view.steps[i].finished
      BY DEF WindowInv, Shown
    <2>2. TextShown(view) /\ ThoughtsShown(view) /\ ResultsOwn(view.steps)
      BY <2>1 DEF Windows
    <2> QED  BY <2>1, <2>2 DEF TextShown, ThoughtsShown, ResultsOwn, ShownAsSent
  <1> QED  BY <1>1, <1>2, <1>3, CallsInvariant, PTL DEF CallsSpec
=============================================================================
