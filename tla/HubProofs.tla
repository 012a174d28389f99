----------------------------- MODULE HubProofs -----------------------------
(* Theorems of Hub, for any clients and events and any capacities, and of    *)
(* Servers, from whose fan-out the pump of the hub takes its events.  No      *)
(* theorem is about both.                                                     *)
EXTENDS Hub, Servers, SequenceTheorems, TLAPS

-----------------------------------------------------------------------------
(* Types, and who is a client *)

\* A client that was never registered is not in the hub's set, its channel was
\* never closed, and it has no goroutine that could unregister it.
Fresh ==
  \A c \in Ws : handler[c] # "gone" =>
    /\ c \notin clients /\ sendCloses[c] = 0
    /\ writer[c] = "none" /\ reader[c] = "none"

\* The pump has an event in hand when it sends one.
InHand == pump = "sending" => received \in Event

HubInv == TypeOK /\ InHand /\ Fresh /\ ClosedOnce

LEMMA HubInit == Init => HubInv
<1> SUFFICES ASSUME Init PROVE HubInv
  OBVIOUS
<1>1. \A S : <<>> \in Seq(S) /\ Len(<<>>) = 0
  BY EmptySeq
<1>2. {BroadcastCap, UnregCap, SendCap} \subseteq Nat /\ MaxEvents \in Nat
  BY CapsAssumption
<1>3. send \in [Ws -> Seq(Event)] /\ written \in [Ws -> Seq(Event)]
      /\ \A c \in Ws : Len(send[c]) <= SendCap
  BY <1>1, <1>2 DEF Init
<1>4. /\ broadcast \in Seq(Event) /\ Len(broadcast) <= BroadcastCap
      /\ unregister \in Seq(Ws) /\ Len(unregister) <= UnregCap /\ passed \in Seq(Event)
  BY <1>1, <1>2 DEF Init
<1>5. /\ sendCloses \in [Ws -> Nat] /\ joined \in [Ws -> Nat] /\ conn \in [Ws -> BOOLEAN]
      /\ handler \in [Ws -> {"none", "registering", "gone"}]
      /\ writer \in [Ws -> {"none", "running", "gone"}]
      /\ reader \in [Ws -> {"none", "reading", "leaving", "gone"}]
  BY DEF Init
<1>6. received \in 0..MaxEvents /\ clients \subseteq Ws
  BY <1>2 DEF Init
<1>7. TypeOK
  BY <1>3, <1>4, <1>5, <1>6 DEF Init, TypeOK
<1> QED
  BY <1>7 DEF Init, HubInv, InHand, Fresh, ClosedOnce

LEMMA PumpStep == ASSUME HubInv, PumpSteps PROVE HubInv'
<1> USE CapsAssumption DEF HubInv, InHand, Event, envVars, hubVars, sendVars, connVars
<1>1. CASE PumpTakes
  BY <1>1 DEF PumpTakes, TypeOK, Fresh, ClosedOnce
<1>2. CASE PumpSends
  <2>1. received \in Event /\ broadcast \in Seq(Event) /\ Len(broadcast) < BroadcastCap
    BY <1>2 DEF PumpSends, TypeOK
  <2>2. broadcast' \in Seq(Event) /\ Len(broadcast') = Len(broadcast) + 1
    BY <1>2, <2>1, AppendProperties DEF PumpSends
  <2>3. Len(broadcast') <= BroadcastCap
    BY <2>1, <2>2, LenProperties
  <2> QED
    BY <1>2, <2>2, <2>3 DEF PumpSends, TypeOK, Fresh, ClosedOnce
<1>3. CASE PumpEnds
  BY <1>3 DEF PumpEnds, pumpVars, TypeOK, Fresh, ClosedOnce
<1> QED
  BY <1>1, <1>2, <1>3 DEF PumpSteps

LEMMA HubStep == ASSUME HubInv, HubSteps PROVE HubInv'
<1> USE CapsAssumption DEF HubInv, InHand, Event, envVars, pumpVars, sendVars, connVars
<1>1. CASE HubUnregisters
  <2>1. Head(unregister) \in Ws /\ Tail(unregister) \in Seq(Ws)
        /\ Len(Tail(unregister)) = Len(unregister) - 1 /\ Len(unregister) \in Nat
    BY <1>1, HeadTailProperties, LenProperties DEF HubUnregisters, TypeOK
  <2>2. unregister' \in Seq(Ws) /\ Len(unregister') <= UnregCap
    BY <1>1, <2>1 DEF HubUnregisters, TypeOK
  <2>3. clients' \subseteq Ws /\ sendCloses' \in [Ws -> Nat]
    BY <1>1, <2>1 DEF HubUnregisters, TypeOK
  <2>4. TypeOK'
    BY <1>1, <2>2, <2>3 DEF HubUnregisters, TypeOK
  <2>5. \A c \in Ws : sendCloses'[c] = IF c = Head(unregister) /\ c \in clients
                                       THEN sendCloses[c] + 1 ELSE sendCloses[c]
    BY <1>1, <2>1 DEF HubUnregisters, Removes, TypeOK
  <2>6. clients' = clients \ {Head(unregister)} /\ UNCHANGED <<handler, writer, reader>>
    BY <1>1 DEF HubUnregisters
  <2>7. Fresh'
    BY <2>5, <2>6 DEF Fresh
  <2>8. ClosedOnce'
    BY <2>5, <2>6 DEF ClosedOnce, TypeOK
  <2> QED
    BY <1>1, <2>4, <2>7, <2>8 DEF HubUnregisters
<1>2. CASE HubBroadcasts
  <2>1. Head(broadcast) \in Event /\ Tail(broadcast) \in Seq(Event)
        /\ Len(Tail(broadcast)) = Len(broadcast) - 1 /\ Len(broadcast) \in Nat
    BY <1>2, HeadTailProperties, LenProperties DEF HubBroadcasts, TypeOK
  <2>2. /\ broadcast' \in Seq(Event) /\ Len(broadcast') <= BroadcastCap
        /\ passed' \in Seq(Event)
    BY <1>2, <2>1, AppendProperties DEF HubBroadcasts, TypeOK
  <2>3. \A c \in Ws : Fits(c) => /\ Append(send[c], Head(broadcast)) \in Seq(Event)
                                 /\ Len(Append(send[c], Head(broadcast))) <= SendCap
    <3> SUFFICES ASSUME NEW c \in Ws, Fits(c)
                 PROVE  /\ Append(send[c], Head(broadcast)) \in Seq(Event)
                        /\ Len(Append(send[c], Head(broadcast))) <= SendCap
      OBVIOUS
    <3>1. send[c] \in Seq(Event) /\ Len(send[c]) \in Nat /\ Len(send[c]) < SendCap
      BY LenProperties DEF TypeOK, Fits
    <3>2. /\ Append(send[c], Head(broadcast)) \in Seq(Event)
          /\ Len(Append(send[c], Head(broadcast))) = Len(send[c]) + 1
      BY <2>1, <3>1, AppendProperties
    <3> QED
      BY <3>1, <3>2
  <2>4. send' \in [Ws -> Seq(Event)] /\ \A c \in Ws : Len(send'[c]) <= SendCap
    BY <1>2, <2>3 DEF HubBroadcasts, TypeOK
  <2>5. clients' \subseteq Ws /\ sendCloses' \in [Ws -> Nat]
    BY <1>2 DEF HubBroadcasts, TypeOK
  <2>6. TypeOK'
    BY <1>2, <2>2, <2>4, <2>5 DEF HubBroadcasts, TypeOK
  <2>7. Fresh' /\ ClosedOnce'
    BY <1>2 DEF HubBroadcasts, Evicted, Fresh, ClosedOnce, TypeOK
  <2> QED
    BY <1>2, <2>6, <2>7 DEF HubBroadcasts
<1>3. CASE HubEnds
  BY <1>3 DEF HubEnds, TypeOK, Fresh, ClosedOnce
<1>4. ASSUME NEW c \in Ws, HubRegisters(c) PROVE HubInv'
  <2>1. Len(passed) \in Nat
    BY LenProperties DEF TypeOK
  <2>2. /\ clients' \subseteq Ws /\ joined' \in [Ws -> Nat]
        /\ handler' \in [Ws -> {"none", "registering", "gone"}]
        /\ writer' \in [Ws -> {"none", "running", "gone"}]
        /\ reader' \in [Ws -> {"none", "reading", "leaving", "gone"}]
    BY <1>4, <2>1 DEF HubRegisters, TypeOK
  <2>3. TypeOK'
    BY <1>4, <2>2 DEF HubRegisters, TypeOK
  <2>4. Fresh' /\ ClosedOnce'
    BY <1>4 DEF HubRegisters, Fresh, ClosedOnce, TypeOK
  <2> QED
    BY <1>4, <2>3, <2>4 DEF HubRegisters
<1> QED
  BY <1>1, <1>2, <1>3, <1>4 DEF HubSteps

LEMMA ClientStep ==
  ASSUME HubInv, NEW c \in Ws,
         Connect(c) \/ RegisterFails(c) \/ Writer(c) \/ Reader(c) \/ ConnBreaks(c)
  PROVE  HubInv'
<1> USE DEF HubInv, InHand, Event, envVars, pumpVars, hubVars, sendVars
<1>1. CASE Connect(c)
  BY <1>1 DEF Connect, TypeOK, Fresh, ClosedOnce
<1>2. CASE RegisterFails(c)
  BY <1>2 DEF RegisterFails, TypeOK, Fresh, ClosedOnce
<1>3. CASE Write(c)
  <2>1. /\ Head(send[c]) \in Event /\ Tail(send[c]) \in Seq(Event)
        /\ Len(Tail(send[c])) = Len(send[c]) - 1 /\ Len(send[c]) \in Nat
    BY <1>3, HeadTailProperties, LenProperties DEF Write, TypeOK
  <2>2. Append(written[c], Head(send[c])) \in Seq(Event)
    BY <2>1, AppendProperties DEF TypeOK
  <2>3. SendCap \in Nat
    BY CapsAssumption
  <2>4. /\ send' \in [Ws -> Seq(Event)] /\ \A d \in Ws : Len(send'[d]) <= SendCap
        /\ written' \in [Ws -> Seq(Event)]
    BY <1>3, <2>1, <2>2, <2>3 DEF Write, TypeOK
  <2> QED
    BY <1>3, <2>4 DEF Write, connVars, TypeOK, Fresh, ClosedOnce
<1>4. CASE WriterEnds(c)
  BY <1>4 DEF WriterEnds, ConnAfter, TypeOK, Fresh, ClosedOnce
<1>5. CASE ReaderEnds(c)
  BY <1>5 DEF ReaderEnds, TypeOK, Fresh, ClosedOnce
<1>6. CASE Unregister(c)
  <2>1. unregister' \in Seq(Ws) /\ Len(unregister') <= UnregCap
    <3>1. CASE Len(unregister) < UnregCap /\ unregister' = Append(unregister, c)
      BY <3>1, AppendProperties, LenProperties, CapsAssumption DEF TypeOK
    <3>2. CASE UNCHANGED unregister
      BY <3>2 DEF TypeOK
    <3> QED
      BY <1>6, <3>1, <3>2 DEF Unregister
  <2> QED
    BY <1>6, <2>1 DEF Unregister, TypeOK, Fresh, ClosedOnce
<1>7. CASE ConnBreaks(c)
  BY <1>7 DEF ConnBreaks, TypeOK, Fresh, ClosedOnce
<1> QED
  BY <1>1, <1>2, <1>3, <1>4, <1>5, <1>6, <1>7 DEF Writer, Reader

LEMMA InvStep == HubInv /\ [Next]_vars => HubInv'
<1> SUFFICES ASSUME HubInv, [Next]_vars PROVE HubInv'
  OBVIOUS
<1>1. CASE PumpSteps
  BY <1>1, PumpStep
<1>2. CASE HubSteps
  BY <1>2, HubStep
<1>3. CASE Cancel \/ CloseFeed
  BY <1>3 DEF Cancel, CloseFeed, HubInv, InHand, TypeOK, Fresh, ClosedOnce, pumpVars, hubVars,
              sendVars, connVars
<1>4. CASE UNCHANGED vars
  BY <1>4 DEF vars, HubInv, InHand, TypeOK, Fresh, ClosedOnce, envVars, pumpVars, hubVars,
              sendVars, connVars
<1>5. ASSUME NEW c \in Ws,
             Connect(c) \/ RegisterFails(c) \/ Writer(c) \/ Reader(c) \/ ConnBreaks(c)
      PROVE  HubInv'
  BY <1>5, ClientStep
<1> QED
  BY <1>1, <1>2, <1>3, <1>4, <1>5 DEF Next

LEMMA Invariance == Safe => []HubInv
  BY HubInit, InvStep, PTL DEF Safe

\* The hub closes no client's channel twice and keeps none whose channel is closed,
\* in whatever order evictions and unregistrations meet, for any number of clients.
THEOREM ClosedOnceHolds == Spec => []ClosedOnce
<1>1. HubInv => ClosedOnce
  BY DEF HubInv
<1> QED
  BY <1>1, Invariance, PTL DEF Spec

-----------------------------------------------------------------------------
(* The hub is a feed *)

\* What a write takes from the channel it adds to what is written.
LEMMA MoveHead ==
  ASSUME NEW S, NEW w \in Seq(S), NEW s \in Seq(S), s # <<>>
  PROVE  Append(w, Head(s)) \o Tail(s) = w \o s
<1>1. Head(s) \in S /\ Tail(s) \in Seq(S) /\ Len(Tail(s)) = Len(s) - 1
      /\ \A i \in 1..Len(Tail(s)) : Tail(s)[i] = s[i + 1]
  BY HeadTailProperties
<1>2. Head(s) = s[1] /\ Len(s) \in Nat /\ Len(w) \in Nat /\ Len(s) >= 1
  BY LenProperties, EmptySeq
<1>3. /\ Append(w, Head(s)) \in Seq(S) /\ Len(Append(w, Head(s))) = Len(w) + 1
      /\ \A i \in 1..Len(w) : Append(w, Head(s))[i] = w[i]
      /\ Append(w, Head(s))[Len(w) + 1] = Head(s)
  BY <1>1, AppendProperties
<1> DEFINE l == Append(w, Head(s)) \o Tail(s)
           r == w \o s
<1>4. l \in Seq(S) /\ Len(l) = Len(w) + Len(s)
      /\ \A i \in 1..(Len(w) + Len(s)) :
           l[i] = IF i <= Len(w) + 1 THEN Append(w, Head(s))[i] ELSE Tail(s)[i - (Len(w) + 1)]
  <2>1. /\ l \in Seq(S) /\ Len(l) = Len(Append(w, Head(s))) + Len(Tail(s))
        /\ \A i \in 1..(Len(Append(w, Head(s))) + Len(Tail(s))) :
             l[i] = IF i <= Len(Append(w, Head(s))) THEN Append(w, Head(s))[i]
                    ELSE Tail(s)[i - Len(Append(w, Head(s)))]
    BY <1>1, <1>3, ConcatProperties
  <2>2. Len(Append(w, Head(s))) + Len(Tail(s)) = Len(w) + Len(s)
    BY <1>1, <1>2, <1>3
  <2> HIDE DEF l
  <2> QED
    BY <1>3, <2>1, <2>2
<1>5. r \in Seq(S) /\ Len(r) = Len(w) + Len(s)
      /\ \A i \in 1..(Len(w) + Len(s)) : r[i] = IF i <= Len(w) THEN w[i] ELSE s[i - Len(w)]
  BY ConcatProperties
<1> HIDE DEF l, r
<1>6. ASSUME NEW i \in 1..(Len(w) + Len(s)) PROVE l[i] = r[i]
  <2>1. CASE i <= Len(w)
    BY <1>2, <1>3, <1>4, <1>5, <2>1
  <2>2. CASE i = Len(w) + 1
    BY <1>2, <1>3, <1>4, <1>5, <2>2
  <2>3. CASE i > Len(w) + 1
    <3>1. i - (Len(w) + 1) \in 1..Len(Tail(s))
      BY <1>1, <1>2, <2>3
    <3>2. Tail(s)[i - (Len(w) + 1)] = s[(i - (Len(w) + 1)) + 1]
      BY <1>1, <3>1
    <3>3. (i - (Len(w) + 1)) + 1 = i - Len(w)
      BY <1>2
    <3> QED
      BY <1>2, <1>4, <1>5, <2>3, <3>2, <3>3
  <2> QED
    BY <1>2, <2>1, <2>2, <2>3
<1>7. l = r
  BY <1>2, <1>4, <1>5, <1>6, SeqEqual
<1> QED
  BY <1>7 DEF l, r

\* What is put in the channel is given last.
LEMMA PutLast ==
  ASSUME NEW S, NEW w \in Seq(S), NEW s \in Seq(S), NEW e \in S
  PROVE  w \o Append(s, e) = Append(w \o s, e)
<1>1. <<e>> \in Seq(S) /\ w \o s \in Seq(S)
  BY ConcatProperties
<1>2. Append(s, e) = s \o <<e>> /\ Append(w \o s, e) = (w \o s) \o <<e>>
  BY <1>1, AppendIsConcat
<1> QED
  BY <1>1, <1>2, ConcatAssociative

LEMMA FeedInit == Init => F!Init
  BY ConcatEmptySeq, EmptySeq DEF Init, F!Init

\* The steps that neither register, nor remove, nor give anything to anybody.
LEMMA Stutters ==
  ASSUME UNCHANGED <<passed, clients, sendCloses, joined, send, written>>
  PROVE  UNCHANGED F!vars
  BY DEF F!vars

LEMMA RegisterJoins ==
  ASSUME HubInv, NEW c \in Ws, HubRegisters(c)
  PROVE  F!Join(c)
  BY DEF HubInv, Fresh, TypeOK, HubRegisters, F!Join, sendVars

LEMMA FeedSteps ==
  /\ \A c \in Ws : F!Join(c) \/ F!Leave(c) => F!Next
  /\ \A e \in Event, keep \in SUBSET clients : F!Publish(e, keep) => F!Next
  BY DEF F!Next

LEMMA UnregisterLeaves ==
  ASSUME HubInv, HubUnregisters
  PROVE  F!Next \/ UNCHANGED F!vars
<1>1. PICK c \in Ws : c = Head(unregister)
  BY HeadTailProperties DEF HubInv, HubUnregisters, TypeOK
<1>2. /\ clients' = clients \ {c}
      /\ \A d \in Ws : sendCloses'[d] = IF d = c /\ c \in clients
                                        THEN sendCloses[d] + 1 ELSE sendCloses[d]
      /\ UNCHANGED <<passed, joined, send, written>>
  BY <1>1 DEF HubInv, HubUnregisters, Removes, TypeOK
<1>3. CASE c \in clients
  <2>1. {d \in Ws : sendCloses'[d] > 0} = {d \in Ws : sendCloses[d] > 0} \cup {c}
    BY <1>1, <1>2, <1>3 DEF HubInv, TypeOK
  <2>2. F!Leave(c)
    BY <1>1, <1>2, <1>3, <2>1 DEF F!Leave
  <2> QED
    BY <1>1, <2>2, FeedSteps
<1>4. CASE c \notin clients
  <2>1. {d \in Ws : sendCloses'[d] > 0} = {d \in Ws : sendCloses[d] > 0}
    BY <1>2, <1>4
  <2> QED
    BY <1>2, <1>4, <2>1 DEF F!vars
<1> QED
  BY <1>3, <1>4

LEMMA BroadcastPublishes ==
  ASSUME HubInv, HubBroadcasts
  PROVE  F!Next
<1>1. PICK e \in Event : e = Head(broadcast)
  BY HeadTailProperties DEF HubInv, HubBroadcasts, TypeOK
<1>2. PICK keep \in SUBSET clients : keep = clients \ Evicted
  OBVIOUS
<1>3. \A c \in Ws : c \in keep <=> c \in clients /\ Fits(c)
  BY <1>2 DEF Evicted
<1>4. ASSUME NEW c \in keep
      PROVE  written[c] \o Append(send[c], e) = Append(written[c] \o send[c], e)
  <2>1. written[c] \in Seq(Event) /\ send[c] \in Seq(Event)
    BY DEF HubInv, TypeOK
  <2>2. \A w, s \in Seq(Event) : w \o Append(s, e) = Append(w \o s, e)
    BY PutLast
  <2> QED
    BY <2>1, <2>2
<1>5. [c \in Ws |-> written'[c] \o send'[c]]
        = [c \in Ws |-> IF c \in keep
                         THEN Append([d \in Ws |-> written[d] \o send[d]][c], e)
                         ELSE [d \in Ws |-> written[d] \o send[d]][c]]
  BY <1>1, <1>3, <1>4 DEF HubBroadcasts
<1>6. {c \in Ws : sendCloses'[c] > 0}
        = {c \in Ws : sendCloses[c] > 0} \cup (clients \ keep)
  BY <1>2, <1>3 DEF HubBroadcasts, Evicted, HubInv, TypeOK
<1>7. F!Publish(e, keep)
  BY <1>1, <1>2, <1>5, <1>6 DEF HubBroadcasts, F!Publish
<1> QED
  BY <1>7, FeedSteps

LEMMA WriteStutters ==
  ASSUME HubInv, NEW c \in Ws, Write(c)
  PROVE  UNCHANGED F!vars
<1>1. /\ send' = [send EXCEPT ![c] = Tail(@)]
      /\ written' = [written EXCEPT ![c] = Append(@, Head(send[c]))]
      /\ UNCHANGED <<passed, clients, joined, sendCloses>>
  BY DEF Write, hubVars
<1>2. written'[c] \o send'[c] = written[c] \o send[c]
  <2>1. written[c] \in Seq(Event) /\ send[c] \in Seq(Event) /\ send[c] # <<>>
    BY DEF HubInv, TypeOK, Write
  <2>2. written'[c] = Append(written[c], Head(send[c])) /\ send'[c] = Tail(send[c])
    BY <1>1 DEF HubInv, TypeOK
  <2> QED
    BY <2>1, <2>2, MoveHead
<1>3. \A d \in Ws \ {c} : written'[d] = written[d] /\ send'[d] = send[d]
  BY <1>1 DEF HubInv, TypeOK
<1>4. [d \in Ws |-> written'[d] \o send'[d]] = [d \in Ws |-> written[d] \o send[d]]
  BY <1>2, <1>3
<1> QED
  BY <1>1, <1>4 DEF F!vars

LEMMA FeedStep == HubInv /\ [Next]_vars => [F!Next]_(F!vars)
<1> SUFFICES ASSUME HubInv, [Next]_vars PROVE F!Next \/ UNCHANGED F!vars
  OBVIOUS
<1>1. CASE PumpSteps
  BY <1>1, Stutters
     DEF PumpSteps, PumpTakes, PumpSends, PumpEnds, hubVars, sendVars
<1>2. CASE HubUnregisters
  BY <1>2, UnregisterLeaves
<1>3. CASE HubBroadcasts
  BY <1>3, BroadcastPublishes
<1>4. CASE HubEnds \/ Cancel \/ CloseFeed \/ UNCHANGED vars
  BY <1>4, Stutters DEF HubEnds, Cancel, CloseFeed, vars, hubVars, sendVars
<1>5. ASSUME NEW c \in Ws, HubRegisters(c) PROVE F!Next
  BY <1>5, RegisterJoins DEF F!Next
<1>6. ASSUME NEW c \in Ws, Write(c) PROVE UNCHANGED F!vars
  BY <1>6, WriteStutters
<1>7. ASSUME NEW c \in Ws,
             \/ Connect(c) \/ RegisterFails(c) \/ WriterEnds(c)
             \/ Reader(c) \/ ConnBreaks(c)
      PROVE  UNCHANGED F!vars
  BY <1>7, Stutters
     DEF Connect, RegisterFails, WriterEnds, Reader, ReaderEnds, Unregister, ConnBreaks,
         hubVars, sendVars
<1> QED
  BY <1>1, <1>2, <1>3, <1>4, <1>5, <1>6, <1>7 DEF Next, HubSteps, Writer

\* The goroutines and channels of the hub implement the feed: every step of the one
\* is a step of the other or none, for any clients, events and capacities.
THEOREM HubImplementsFeed == Spec => ImplementsFeed
<1>1. Safe => F!Spec
  BY Invariance, FeedInit, FeedStep, PTL DEF Safe, F!Spec
<1> QED
  BY <1>1, PTL DEF Spec, ImplementsFeed

-----------------------------------------------------------------------------
(* No gap in the feed, over the values of its variables: p was published,     *)
(* the members m joined and the former f have been, s is since when, and g    *)
(* what was given                                                              *)

\* What was given is typed, nobody joined in the future, and who never joined was
\* given nothing.
GivenSoFar(p, m, f, s, g) ==
  /\ p \in Seq(Event) /\ m \subseteq Ws /\ f \subseteq Ws
  /\ s \in [Ws -> Nat] /\ g \in [Ws -> Seq(Event)]
  /\ \A c \in Ws : /\ c \notin m \cup f => g[c] = <<>>
                   /\ s[c] + Len(g[c]) <= Len(p)

\* The statement of Feed!NoGap about such values.
Contiguous(p, m, s, g) ==
  \A c \in Ws : /\ g[c] = SubSeq(p, s[c] + 1, s[c] + Len(g[c]))
                /\ c \in m => s[c] + Len(g[c]) = Len(p)

\* A run of a sequence is a run of the longer sequence.
LEMMA RunOfLonger ==
  ASSUME NEW S, NEW s \in Seq(S), NEW e \in S, NEW m \in Nat, NEW n \in Nat,
         m + n <= Len(s)
  PROVE  SubSeq(Append(s, e), m + 1, m + n) = SubSeq(s, m + 1, m + n)
<1> DEFINE t == Append(s, e)
<1>1. t \in Seq(S) /\ Len(t) = Len(s) + 1 /\ \A i \in 1..Len(s) : t[i] = s[i]
  BY AppendProperties
<1>2. \A i \in 1..n : t[m + i] = s[m + i]
  BY <1>1, LenProperties
<1> QED
  BY <1>1, <1>2, SubSeqProperties, LenProperties

\* A run up to the end, and the element appended, are a run up to the new end.
LEMMA RunExtended ==
  ASSUME NEW S, NEW s \in Seq(S), NEW e \in S, NEW m \in Nat, m <= Len(s)
  PROVE  SubSeq(Append(s, e), m + 1, Len(s) + 1)
           = Append(SubSeq(s, m + 1, Len(s)), e)
<1> DEFINE t == Append(s, e)
           r == SubSeq(s, m + 1, Len(s))
<1>1. t \in Seq(S) /\ Len(t) = Len(s) + 1 /\ t[Len(s) + 1] = e
      /\ \A i \in 1..Len(s) : t[i] = s[i]
  BY AppendProperties
<1>2. Len(s) \in Nat /\ \A i \in 1..Len(s) : s[i] \in S
  BY LenProperties
<1>3. r \in Seq(S) /\ Len(r) = Len(s) - m
      /\ \A i \in 1..(Len(s) - m) : r[i] = s[m + i]
  BY <1>2, SubSeqProperties
<1>4. /\ SubSeq(t, m + 1, Len(s) + 1) \in Seq(S)
      /\ Len(SubSeq(t, m + 1, Len(s) + 1)) = Len(s) + 1 - m
      /\ \A i \in 1..(Len(s) + 1 - m) :
           SubSeq(t, m + 1, Len(s) + 1)[i] = t[m + i]
  <2>1. \A i \in (m + 1)..(Len(s) + 1) : t[i] \in S
    BY <1>1, LenProperties
  <2> QED
    BY <1>2, <2>1, SubSeqProperties
<1>5. /\ Append(r, e) \in Seq(S) /\ Len(Append(r, e)) = Len(s) + 1 - m
      /\ Append(r, e)[Len(s) - m + 1] = e
      /\ \A i \in 1..(Len(s) - m) : Append(r, e)[i] = r[i]
  <2>1. ASSUME NEW q \in Seq(S)
        PROVE  /\ Append(q, e) \in Seq(S) /\ Len(Append(q, e)) = Len(q) + 1
               /\ Append(q, e)[Len(q) + 1] = e
               /\ \A i \in 1..Len(q) : Append(q, e)[i] = q[i]
    BY AppendProperties
  <2> QED
    BY <1>2, <1>3, <2>1
<1>6. \A i \in 1..(Len(s) + 1 - m) :
        SubSeq(t, m + 1, Len(s) + 1)[i] = Append(r, e)[i]
  <2> SUFFICES ASSUME NEW i \in 1..(Len(s) + 1 - m)
               PROVE  SubSeq(t, m + 1, Len(s) + 1)[i] = Append(r, e)[i]
    OBVIOUS
  <2>1. SubSeq(t, m + 1, Len(s) + 1)[i] = t[m + i]
    BY <1>4
  <2> HIDE DEF t, r
  <2>2. CASE i = Len(s) + 1 - m
    <3>1. m + i = Len(s) + 1 /\ i = Len(s) - m + 1
      BY <1>2, <2>2
    <3> QED
      BY <1>1, <1>5, <2>1, <3>1
  <2>3. CASE i # Len(s) + 1 - m
    <3>1. m + i \in 1..Len(s) /\ i \in 1..(Len(s) - m)
      BY <1>2, <2>3
    <3>2. t[m + i] = s[m + i] /\ r[i] = s[m + i] /\ Append(r, e)[i] = r[i]
      BY <1>1, <1>3, <1>5, <3>1
    <3> QED
      BY <2>1, <3>2
  <2> QED
    BY <2>2, <2>3
<1>7. ASSUME NEW u \in Seq(S), NEW v \in Seq(S), Len(u) = Len(s) + 1 - m, Len(v) = Len(u),
             \A i \in 1..(Len(s) + 1 - m) : u[i] = v[i]
      PROVE  u = v
  BY <1>7, SeqEqual
<1> QED
  BY <1>4, <1>5, <1>6, <1>7

\* A client that joins starts at the end of what was published.
LEMMA JoinContiguous ==
  ASSUME NEW p, NEW m, NEW f, NEW s, NEW g, NEW c \in Ws, c \notin m \cup f,
         GivenSoFar(p, m, f, s, g), Contiguous(p, m, s, g)
  PROVE  /\ GivenSoFar(p, m \cup {c}, f, [s EXCEPT ![c] = Len(p)], g)
         /\ Contiguous(p, m \cup {c}, [s EXCEPT ![c] = Len(p)], g)
<1> DEFINE s2 == [s EXCEPT ![c] = Len(p)]
<1>1. Len(p) \in Nat /\ \A d \in Ws : Len(g[d]) \in Nat
  BY LenProperties DEF GivenSoFar
<1>2. s2 \in [Ws -> Nat] /\ s2[c] = Len(p) /\ \A d \in Ws \ {c} : s2[d] = s[d]
  BY <1>1 DEF GivenSoFar
<1>3. g[c] = <<>> /\ Len(g[c]) = 0
  BY EmptySeq DEF GivenSoFar
<1> HIDE DEF s2
<1>4. GivenSoFar(p, m \cup {c}, f, s2, g)
  BY <1>1, <1>2, <1>3 DEF GivenSoFar
<1>5. Contiguous(p, m \cup {c}, s2, g)
  <2> SUFFICES ASSUME NEW d \in Ws
               PROVE  /\ g[d] = SubSeq(p, s2[d] + 1, s2[d] + Len(g[d]))
                      /\ d \in m \cup {c} => s2[d] + Len(g[d]) = Len(p)
    BY DEF Contiguous
  <2>1. CASE d = c
    <3>1. SubSeq(p, Len(p) + 1, Len(p)) = <<>>
      BY <1>1, SubSeqEmpty
    <3>2. SubSeq(p, s2[c] + 1, s2[c] + Len(g[c])) = <<>>
      BY <1>1, <1>2, <1>3, <3>1
    <3>3. s2[c] + Len(g[c]) = Len(p)
      BY <1>1, <1>2, <1>3
    <3>4. g[c] = SubSeq(p, s2[c] + 1, s2[c] + Len(g[c]))
      BY <1>3, <3>2, Zenon
    <3> QED
      BY <2>1, <3>3, <3>4, Zenon
  <2>2. CASE d # c
    BY <1>2, <2>2 DEF Contiguous
  <2> QED
    BY <2>1, <2>2
<1> QED
  BY <1>4, <1>5 DEF s2

\* The members that are given a message have all of them, the others leave.
LEMMA PublishContiguous ==
  ASSUME NEW p, NEW m, NEW f, NEW s, NEW g, NEW e \in Event, NEW keep \in SUBSET m,
         GivenSoFar(p, m, f, s, g), Contiguous(p, m, s, g)
  PROVE  LET p2 == Append(p, e)
             g2 == [c \in Ws |-> IF c \in keep THEN Append(g[c], e) ELSE g[c]]
         IN  GivenSoFar(p2, keep, f \cup (m \ keep), s, g2) /\ Contiguous(p2, keep, s, g2)
<1> DEFINE p2 == Append(p, e)
           g2 == [c \in Ws |-> IF c \in keep THEN Append(g[c], e) ELSE g[c]]
<1>0. /\ p \in Seq(Event) /\ m \subseteq Ws /\ f \subseteq Ws
      /\ s \in [Ws -> Nat] /\ g \in [Ws -> Seq(Event)] /\ keep \subseteq Ws
  BY DEF GivenSoFar
<1>1. Len(p) \in Nat /\ p2 \in Seq(Event) /\ Len(p2) = Len(p) + 1
  BY <1>0, LenProperties, AppendProperties
<1>2. \A c \in keep :
        /\ c \in Ws /\ g2[c] = Append(g[c], e) /\ g2[c] \in Seq(Event)
        /\ Len(g[c]) \in Nat /\ Len(g2[c]) = Len(g[c]) + 1
  <2> SUFFICES ASSUME NEW c \in keep
               PROVE  /\ c \in Ws /\ g2[c] = Append(g[c], e) /\ g2[c] \in Seq(Event)
                      /\ Len(g[c]) \in Nat /\ Len(g2[c]) = Len(g[c]) + 1
    OBVIOUS
  <2>1. c \in Ws /\ g[c] \in Seq(Event)
    BY <1>0
  <2>2. g2[c] = Append(g[c], e)
    BY <2>1
  <2>3. Append(g[c], e) \in Seq(Event) /\ Len(g[c]) \in Nat /\ Len(Append(g[c], e)) = Len(g[c]) + 1
    BY <2>1, LenProperties, AppendProperties
  <2> QED
    BY <2>1, <2>2, <2>3
<1>3. \A c \in Ws \ keep : g2[c] = g[c] /\ Len(g[c]) \in Nat
  BY <1>0, LenProperties
<1>4. g2 \in [Ws -> Seq(Event)]
  BY <1>0, <1>2, <1>3
<1>5. \A c \in Ws : s[c] \in Nat
  BY <1>0
<1>6. \A c \in keep : s[c] + Len(g[c]) = Len(p) /\ g[c] = SubSeq(p, s[c] + 1, s[c] + Len(g[c]))
  BY <1>0 DEF Contiguous
<1> HIDE DEF g2
<1>7. GivenSoFar(p2, keep, f \cup (m \ keep), s, g2)
  <2> SUFFICES ASSUME NEW c \in Ws
               PROVE  /\ c \notin keep \cup (f \cup (m \ keep)) => g2[c] = <<>>
                      /\ s[c] + Len(g2[c]) <= Len(p2)
    BY <1>0, <1>1, <1>4 DEF GivenSoFar
  <2> HIDE DEF p2
  <2>1. CASE c \in keep
    BY <1>1, <1>2, <1>5, <1>6, <2>1
  <2>2. CASE c \notin keep
    BY <1>1, <1>3, <1>5, <2>2 DEF GivenSoFar
  <2> QED
    BY <2>1, <2>2
<1>8. Contiguous(p2, keep, s, g2)
  <2> SUFFICES ASSUME NEW c \in Ws
               PROVE  /\ g2[c] = SubSeq(p2, s[c] + 1, s[c] + Len(g2[c]))
                      /\ c \in keep => s[c] + Len(g2[c]) = Len(p2)
    BY DEF Contiguous
  <2>1. CASE c \in keep
    <3>1. /\ s[c] + Len(g[c]) = Len(p) /\ s[c] \in Nat /\ Len(g[c]) \in Nat
          /\ g2[c] = Append(g[c], e) /\ Len(g2[c]) = Len(g[c]) + 1
          /\ g[c] = SubSeq(p, s[c] + 1, s[c] + Len(g[c]))
      BY <1>2, <1>5, <1>6, <2>1
    <3>2. g[c] = SubSeq(p, s[c] + 1, Len(p)) /\ s[c] <= Len(p)
      BY <1>1, <3>1
    <3>3. g2[c] = SubSeq(p2, s[c] + 1, Len(p) + 1)
      BY <1>0, <3>1, <3>2, RunExtended
    <3>4. s[c] + Len(g2[c]) = Len(p) + 1
      BY <1>1, <3>1
    <3> QED
      BY <1>1, <3>3, <3>4
  <2>2. CASE c \notin keep
    <3>1. /\ g2[c] = g[c] /\ Len(g[c]) \in Nat /\ s[c] + Len(g[c]) <= Len(p)
      BY <1>3, <2>2 DEF GivenSoFar
    <3>2. SubSeq(p2, s[c] + 1, s[c] + Len(g[c])) = SubSeq(p, s[c] + 1, s[c] + Len(g[c]))
      BY <1>0, <1>5, <3>1, RunOfLonger
    <3> QED
      BY <2>2, <3>1, <3>2 DEF Contiguous
  <2> QED
    BY <2>1, <2>2
<1> QED
  BY <1>7, <1>8 DEF g2

\* A client that leaves keeps what it was given.
LEMMA LeaveContiguous ==
  ASSUME NEW p, NEW m, NEW f, NEW s, NEW g, NEW c \in m,
         GivenSoFar(p, m, f, s, g), Contiguous(p, m, s, g)
  PROVE  GivenSoFar(p, m \ {c}, f \cup {c}, s, g) /\ Contiguous(p, m \ {c}, s, g)
  BY DEF GivenSoFar, Contiguous

\* What a client was handed by the hub, written or still in its channel.
Handed == [c \in Ws |-> written[c] \o send[c]]
Gone == {c \in Ws : sendCloses[c] > 0}

\* The invariant of the feed, of the state of the hub that maps to it.
FeedInv == /\ GivenSoFar(passed, clients, Gone, joined, Handed)
           /\ Contiguous(passed, clients, joined, Handed)

\* It holds at the start, when nobody was given anything.
LEMMA NoGapInit == F!Init => FeedInv
<1> SUFFICES ASSUME F!Init PROVE FeedInv
  OBVIOUS
<1>1. /\ passed = <<>> /\ clients = {} /\ Gone = {}
      /\ joined = [c \in Ws |-> 0] /\ Handed = [c \in Ws |-> <<>>]
  BY DEF F!Init, Handed, Gone
<1> HIDE DEF Handed, Gone
<1> QED
  BY <1>1, EmptySeq, SubSeqEmpty DEF FeedInv, GivenSoFar, Contiguous

\* And every step of the feed keeps it.
LEMMA NoGapStep == FeedInv /\ [F!Next]_(F!vars) => FeedInv'
<1> SUFFICES ASSUME FeedInv, [F!Next]_(F!vars) PROVE FeedInv'
  OBVIOUS
<1>1. ASSUME NEW c \in Ws, F!Join(c) PROVE FeedInv'
  <2>1. /\ c \notin clients \cup Gone /\ clients' = clients \cup {c}
        /\ joined' = [joined EXCEPT ![c] = Len(passed)]
        /\ passed' = passed /\ Gone' = Gone /\ Handed' = Handed
    BY <1>1 DEF F!Join, Handed, Gone
  <2> HIDE DEF Handed, Gone
  <2> QED
    BY <2>1, JoinContiguous DEF FeedInv
<1>2. ASSUME NEW c \in Ws, F!Leave(c) PROVE FeedInv'
  <2>1. /\ c \in clients /\ clients' = clients \ {c} /\ Gone' = Gone \cup {c}
        /\ passed' = passed /\ joined' = joined /\ Handed' = Handed
    BY <1>2 DEF F!Leave, Handed, Gone
  <2> HIDE DEF Handed, Gone
  <2> QED
    BY <2>1, LeaveContiguous DEF FeedInv
<1>3. ASSUME NEW e \in Event, NEW keep \in SUBSET clients, F!Publish(e, keep)
      PROVE  FeedInv'
  <2>1. /\ passed' = Append(passed, e) /\ clients' = keep
        /\ Gone' = Gone \cup (clients \ keep) /\ joined' = joined
        /\ Handed' = [c \in Ws |-> IF c \in keep THEN Append(Handed[c], e) ELSE Handed[c]]
    BY <1>3 DEF F!Publish, Handed, Gone
  <2> HIDE DEF Handed, Gone
  <2> QED
    BY <2>1, PublishContiguous DEF FeedInv
<1>4. CASE UNCHANGED F!vars
  <2>1. UNCHANGED <<passed, clients, Gone, joined, Handed>>
    BY <1>4 DEF F!vars, Handed, Gone
  <2> HIDE DEF Handed, Gone
  <2> QED
    BY <2>1 DEF FeedInv
<1> QED
  BY <1>1, <1>2, <1>3, <1>4 DEF F!Next

\* Whatever the clients do and however often one is left behind, what a client is
\* handed is a contiguous run of what was published, from its registration to its
\* removal.
THEOREM HubNoGap == Spec => []F!NoGap
<1>1. FeedInv => F!NoGap
  BY DEF FeedInv, Contiguous, F!NoGap, Handed
<1>2. F!Spec => []FeedInv
  BY NoGapInit, NoGapStep, PTL DEF F!Spec
<1> QED
  BY <1>1, <1>2, HubImplementsFeed, PTL DEF ImplementsFeed

-----------------------------------------------------------------------------
(* The inductive invariant of Servers *)

\* A request has a kind from the moment it arrives.
Arrived == \A r \in Requests : kind[r] = "none" <=> at[r] = "none"

\* Before its handler has subscribed, a request has no channel: the fan-out does
\* not know it, and nothing has closed it.
Unsubscribed ==
  \A r \in Requests : at[r] \in {"none", "begun"} => r \notin subs /\ closes[r] = 0

\* Once the shutdown is past a server, that server takes no request and has no
\* handler left, unless it was not up in time or not awaited.
AfterRest == shutdown \in {"grpc", "grpcDrain", "loop", "closed", "exited"}
AfterGrpc == shutdown \in {"loop", "closed", "exited"}
RestGap   == gaps \cap {"restMissed", "restExpired"} # {}
GrpcGap   == "grpcMissed" \in gaps

RestIsDown ==
  /\ shutdown = "restDrain" \/ (AfterRest /\ ~RestGap) => "rest" \in down
  /\ AfterRest /\ ~RestGap => Busy(Rest) = {}
GrpcIsDown ==
  /\ shutdown = "grpcDrain" \/ (AfterGrpc /\ ~GrpcGap) => "grpc" \in down
  /\ AfterGrpc /\ ~GrpcGap => Busy(Grpc) = {}

\* The store is closed at the end of the shutdown, with the event loop gone.
ClosedLast ==
  /\ store = "closed" <=> shutdown \in {"closed", "exited"}
  /\ store = "closed" => loop = "gone"

\* The flags among the types, which are proved apart from the others.
Flags == cancelled \in BOOLEAN /\ shutdownCh \in BOOLEAN /\ fanning \in BOOLEAN
         /\ subsClosed \in BOOLEAN

ServersInv ==
  /\ ServersTypeOK /\ Arrived /\ Unsubscribed /\ RestIsDown /\ GrpcIsDown /\ ClosedLast
  /\ SubsClosedOnce /\ StoreOutlivesUsers

-----------------------------------------------------------------------------
(* It is inductive: one lemma for each part of the daemon *)

LEMMA ServersBegin ==
  ASSUME ServersInit
  PROVE  ServersInv
<1>0. Flags
  BY DEF ServersInit, Flags
<1>1. ServersTypeOK
  BY <1>0, ServersAssumption DEF ServersInit, ServersTypeOK, Flags
<1>2. Arrived /\ Unsubscribed /\ SubsClosedOnce
  BY DEF ServersInit, Arrived, Unsubscribed, SubsClosedOnce
<1>3. RestIsDown /\ GrpcIsDown /\ ClosedLast /\ StoreOutlivesUsers
  BY DEF ServersInit, RestIsDown, GrpcIsDown, AfterRest, AfterGrpc, ClosedLast, StoreOutlivesUsers
<1> QED
  BY <1>1, <1>2, <1>3 DEF ServersInv

\* What a step that neither moves a request nor the shutdown leaves true.
LEMMA Elsewhere ==
  ASSUME ServersInv, ServersTypeOK', loop = "gone" => loop' = "gone",
         UNCHANGED <<shutdown, store, gaps, down, subs, closes, kind, at, late>>
  PROVE  ServersInv'
<1> USE DEF ServersInv
<1>1. Arrived' /\ Unsubscribed' /\ SubsClosedOnce'
  BY DEF Arrived, Unsubscribed, SubsClosedOnce
<1>2. RestIsDown' /\ GrpcIsDown'
  BY DEF RestIsDown, GrpcIsDown, AfterRest, AfterGrpc, RestGap, GrpcGap, Busy
<1>3. ClosedLast' /\ StoreOutlivesUsers'
  BY DEF ClosedLast, StoreOutlivesUsers
<1> QED
  BY <1>1, <1>2, <1>3

\* The event loop persists no game after it is gone, and the store is closed later.
LEMMA LoopStep ==
  ASSUME ServersInv, EventLoop \/ LoopEnds PROVE ServersInv'
<1> USE ServersAssumption DEF ServersInv, mainVars, srvVars, subVars, reqVars, EventLoop
<1>0. Flags'
  BY DEF ServersTypeOK, Flags, ProcessEvent, GameEnds, Persist, LoopEnds
<1>1. ServersTypeOK'
  <2>1. broadcastCh' \in 0..FanOutCap
    BY DEF ServersTypeOK, ProcessEvent, GameEnds, Persist, LoopEnds, Offer
  <2>2. loop' \in {"idle", "persisting", "gone"} /\ late' \subseteq {"loop"} \cup Unary
    BY DEF ServersTypeOK, ProcessEvent, GameEnds, Persist, LoopEnds, UsesStore
  <2>3. UNCHANGED <<shutdown, restSrv, grpcSrv, down, subs, queue, closes, reqVars, store, gaps>>
    BY DEF ProcessEvent, GameEnds, Persist, LoopEnds
  <2> QED
    BY <1>0, <2>1, <2>2, <2>3 DEF ServersTypeOK, Flags
<1>2. late' = late
  BY DEF ProcessEvent, GameEnds, Persist, LoopEnds, UsesStore, ClosedLast, ServersTypeOK
<1>3. UNCHANGED <<mainVars, srvVars, subVars, reqVars>> /\ (loop = "gone" => loop' = "gone")
  BY DEF ProcessEvent, GameEnds, Persist, LoopEnds
<1> QED
  BY <1>1, <1>2, <1>3, Elsewhere

\* The fan-out fills channels and touches nothing else.
LEMMA FanOutStep ==
  ASSUME ServersInv, FanOuts PROVE ServersInv'
<1> USE ServersAssumption DEF ServersInv, mainVars, srvVars, subVars, reqVars, FanOuts
<1>0. Flags'
  BY DEF ServersTypeOK, Flags, FanOut, FanOutEnds
<1>1. ServersTypeOK'
  <2>1. broadcastCh' \in 0..FanOutCap /\ queue' \in [Requests -> 0..SubCap]
    BY DEF ServersTypeOK, FanOut, FanOutEnds, HasRoom
  <2>2. UNCHANGED <<shutdown, restSrv, grpcSrv, down, loop, subs, closes, reqVars, store, gaps,
                    late>>
    BY DEF FanOut, FanOutEnds
  <2> QED
    BY <1>0, <2>1, <2>2 DEF ServersTypeOK, Flags
<1>2. UNCHANGED <<mainVars, srvVars, loop, subs, subsClosed, closes, reqVars, late>>
  BY DEF FanOut, FanOutEnds
<1> QED
  BY <1>1, <1>2, Elsewhere

LEMMA ServeStep ==
  ASSUME ServersInv, Serve \/ CancelDaemon PROVE ServersInv'
<1> USE DEF ServersInv, mainVars, srvVars, loopVars, subVars, reqVars, Serve
<1>0. Flags'
  BY DEF ServersTypeOK, Flags, RestBinds, GrpcBinds, CancelDaemon
<1>1. ServersTypeOK'
  BY <1>0 DEF ServersTypeOK, Flags, RestBinds, GrpcBinds, CancelDaemon
<1>2. UNCHANGED <<shutdown, store, gaps, down, loop, subVars, reqVars, late>>
  BY DEF RestBinds, GrpcBinds, CancelDaemon
<1> QED
  BY <1>1, <1>2, Elsewhere

\* A request arrives only where a server still takes requests.
LEMMA ArriveStep ==
  ASSUME ServersInv, NEW r \in Requests, Arrive(r) PROVE ServersInv'
<1> USE DEF ServersInv, mainVars, srvVars, loopVars, subVars, Arrive
<1>1. PICK k \in Rest \cup Grpc : Accepting(k) /\ kind' = [kind EXCEPT ![r] = k]
  OBVIOUS
<1>2. ServersTypeOK'
  BY <1>1 DEF ServersTypeOK
<1>3. Arrived' /\ Unsubscribed'
  BY <1>1 DEF Arrived, Unsubscribed, Rest, Grpc, ServersTypeOK
<1>4. RestIsDown'
  BY <1>1 DEF RestIsDown, AfterRest, RestGap, Busy, Accepting, ServersTypeOK
<1>5. GrpcIsDown'
  BY <1>1 DEF GrpcIsDown, AfterGrpc, GrpcGap, Busy, Accepting, Rest, Grpc, ServersTypeOK
<1> QED
  BY <1>2, <1>3, <1>4, <1>5 DEF ClosedLast, SubsClosedOnce, StoreOutlivesUsers

-----------------------------------------------------------------------------
(* The handlers *)

\* A handler that goes on, or ends, leaves no new work for a server.
LEMMA FewerBusy ==
  ASSUME ServersInv, NEW r \in Requests, at[r] \notin {"none", "gone"},
         NEW to \in {"sending", "reading", "leaving", "gone"},
         at' = [at EXCEPT ![r] = to], UNCHANGED <<kind, shutdown, down, gaps>>
  PROVE  Arrived' /\ RestIsDown' /\ GrpcIsDown'
<1> USE DEF ServersInv, ServersTypeOK
<1>1. \A ks : Busy(ks)' \subseteq Busy(ks)
  BY DEF Busy
<1> QED
  BY <1>1 DEF Arrived, RestIsDown, GrpcIsDown, AfterRest, AfterGrpc, RestGap, GrpcGap

\* A unary handler that is still to read the store is busy: the store is open, or its
\* server was missed or not awaited.
LEMMA ReadStoreStep ==
  ASSUME ServersInv, NEW r \in Requests, ReadStore(r) PROVE ServersInv'
<1> USE DEF ServersInv, ReadStore, Move, mainVars, srvVars, loopVars, subVars
<1>0. Flags'
  BY DEF ServersTypeOK, Flags
<1>1. ServersTypeOK'
  BY <1>0 DEF ServersTypeOK, Flags, UsesStore, Unary, Rest, Grpc
<1>2. Arrived' /\ RestIsDown' /\ GrpcIsDown'
  BY FewerBusy
<1>3. Unsubscribed' /\ SubsClosedOnce' /\ ClosedLast'
  BY DEF Unsubscribed, SubsClosedOnce, ClosedLast, ServersTypeOK
<1>4. store = "closed" => AfterRest /\ AfterGrpc
  BY DEF ClosedLast, AfterRest, AfterGrpc
<1>5. kind[r] = "grpc" /\ store = "closed" => GrpcGap
  BY <1>4 DEF GrpcIsDown, Busy, Grpc
<1>6. kind[r] = "rest" /\ store = "closed" => RestGap
  BY <1>4 DEF RestIsDown, Busy, Rest
<1>7. StoreOutlivesUsers'
  BY <1>5, <1>6 DEF StoreOutlivesUsers, UsesStore, RestGap, GrpcGap, Unary
<1> QED
  BY <1>1, <1>2, <1>3, <1>7

\* The steps of a streaming handler: its channel is closed by unsubscribe or by the
\* shutdown, whichever finds it in the set.
LEMMA StreamStep ==
  ASSUME ServersInv, NEW r \in Requests,
         Subscribe(r) \/ TakeEvent(r) \/ Leave(r) \/ Unsubscribe(r)
  PROVE  ServersInv'
<1> USE DEF ServersInv, Subscribe, TakeEvent, Leave, Unsubscribe, Move,
        mainVars, srvVars, loopVars, subVars
<1>0. Flags'
  BY DEF ServersTypeOK, Flags
<1>1. ServersTypeOK'
  <2>1. queue' \in [Requests -> 0..SubCap] /\ closes' \in [Requests -> Nat]
    BY ServersAssumption DEF ServersTypeOK
  <2>2. subs' \subseteq Requests
    BY DEF ServersTypeOK
  <2>3. at' \in [Requests -> {"none", "begun", "reading", "sending", "leaving", "gone"}]
    BY DEF ServersTypeOK
  <2> QED
    BY <1>0, <2>1, <2>2, <2>3 DEF ServersTypeOK, Flags
<1>2. Arrived' /\ RestIsDown' /\ GrpcIsDown'
  BY FewerBusy
<1>3. Unsubscribed' /\ SubsClosedOnce'
  BY DEF Unsubscribed, SubsClosedOnce, ServersTypeOK, Refused, Found
<1>4. ClosedLast' /\ StoreOutlivesUsers'
  BY DEF ClosedLast, StoreOutlivesUsers
<1> QED
  BY <1>1, <1>2, <1>3, <1>4

LEMMA SendStep ==
  ASSUME ServersInv, NEW r \in Requests, Send(r) PROVE ServersInv'
<1> USE DEF ServersInv, Send, Move, mainVars, srvVars, loopVars, subVars
<1>1. AfterSend(r) \in {"reading", "leaving", "gone"}
  BY DEF AfterSend
<1>2. ServersTypeOK'
  BY <1>1 DEF ServersTypeOK
<1>3. Arrived' /\ RestIsDown' /\ GrpcIsDown'
  BY <1>1, FewerBusy
<1>4. Unsubscribed' /\ SubsClosedOnce' /\ ClosedLast' /\ StoreOutlivesUsers'
  BY <1>1 DEF Unsubscribed, SubsClosedOnce, ClosedLast, StoreOutlivesUsers, ServersTypeOK
<1> QED
  BY <1>2, <1>3, <1>4

LEMMA ClientLeavesStep ==
  ASSUME ServersInv, NEW r \in Requests, ClientLeaves(r) PROVE ServersInv'
<1> USE DEF ServersInv, ClientLeaves, mainVars, srvVars, loopVars, subVars
<1>1. ServersTypeOK'
  BY DEF ServersTypeOK
<1> QED
  BY <1>1, Elsewhere

-----------------------------------------------------------------------------
(* The shutdown *)

LEMMA ShutdownTypes ==
  ASSUME ServersTypeOK, Shutdown \/ RestExpires \/ GrpcExpires PROVE ServersTypeOK'
<1> USE DEF ServersTypeOK, mainVars, srvVars, loopVars, subVars, reqVars
<1>0. Flags'
  BY DEF Flags, Shutdown, WatcherStops, RestShutdown, RestDrained, GrpcStop,
         GrpcDrained, CloseStore, Exit, RestExpires, GrpcExpires
<1>1. CASE \/ WatcherStops \/ RestShutdown \/ RestDrained \/ GrpcDrained
           \/ CloseStore \/ Exit
  BY <1>0, <1>1
     DEF Flags, WatcherStops, RestShutdown, RestDrained, GrpcDrained, CloseStore, Exit
<1>2. CASE GrpcStop
  <2>1. closes' \in [Requests -> Nat] /\ subs' \subseteq Requests
    BY <1>2 DEF GrpcStop
  <2>2. /\ shutdown' \in {"loop", "grpcDrain"} /\ down' \subseteq {"rest", "grpc"}
        /\ gaps' \subseteq {"restMissed", "grpcMissed", "restExpired"}
    BY <1>2 DEF GrpcStop
  <2> QED
    BY <1>0, <1>2, <2>1, <2>2 DEF Flags, GrpcStop
<1>3. CASE RestExpires \/ GrpcExpires
  BY <1>3 DEF RestExpires, GrpcExpires, Busy
<1> QED
  BY <1>1, <1>2, <1>3 DEF Shutdown

\* The shutdown goes past a server when that server is down and idle, or leaves a gap.
LEMMA ShutdownStep ==
  ASSUME ServersInv, Shutdown \/ RestExpires \/ GrpcExpires PROVE ServersInv'
<1> USE DEF ServersInv, Shutdown, WatcherStops, RestShutdown, RestDrained, GrpcStop,
        GrpcDrained, CloseStore, Exit, RestExpires, GrpcExpires,
        mainVars, srvVars, loopVars, subVars, reqVars
<1>1. ServersTypeOK'
  BY ShutdownTypes
<1>2. Arrived'
  BY DEF Arrived
<1>3. Unsubscribed' /\ SubsClosedOnce'
  BY DEF Unsubscribed, SubsClosedOnce, ServersTypeOK
<1>4. \A ks : Busy(ks)' = Busy(ks)
  BY DEF Busy
<1>5. RestIsDown'
  BY <1>4 DEF RestIsDown, AfterRest, RestGap
<1>6. GrpcIsDown'
  BY <1>4 DEF GrpcIsDown, AfterGrpc, GrpcGap, GrpcAwaits
<1>7. ClosedLast'
  BY DEF ClosedLast
<1>8. StoreOutlivesUsers'
  BY DEF StoreOutlivesUsers
<1> QED
  BY <1>1, <1>2, <1>3, <1>5, <1>6, <1>7, <1>8

-----------------------------------------------------------------------------
(* The theorems about Servers *)

LEMMA ServersStep ==
  ASSUME ServersInv, [ServersNext]_serversVars
  PROVE  ServersInv'
<1>1. CASE UNCHANGED serversVars
  <2>1. ServersTypeOK'
    BY <1>1 DEF serversVars, mainVars, srvVars, loopVars, subVars, reqVars, ServersInv,
                ServersTypeOK
  <2> QED
    BY <1>1, <2>1, Elsewhere DEF serversVars, mainVars, srvVars, loopVars, subVars, reqVars
<1>2. CASE EventLoop \/ LoopEnds \/ FanOuts \/ Serve \/ CancelDaemon
  BY <1>2, LoopStep, FanOutStep, ServeStep
<1>3. CASE Shutdown \/ RestExpires \/ GrpcExpires
  BY <1>3, ShutdownStep
<1>4. ASSUME NEW r \in Requests, Arrive(r) \/ Work(r) \/ Send(r) \/ ClientLeaves(r)
      PROVE  ServersInv'
  BY <1>4, ArriveStep, ReadStoreStep, StreamStep, SendStep, ClientLeavesStep DEF Work
<1> QED
  BY <1>1, <1>2, <1>3, <1>4 DEF ServersNext

LEMMA ServersInductive ==
  ServersSpec => []ServersInv
<1>1. ServersInit => ServersInv
  BY ServersBegin
<1>2. ServersInv /\ [ServersNext]_serversVars => ServersInv'
  BY ServersStep
<1> QED
  BY <1>1, <1>2, PTL DEF ServersSpec, ServersSafe

\* Every variable of the servers keeps its type: no channel ever holds more events
\* than its capacity (fanOut and Broadcast drop what does not fit).
THEOREM ServersTypeCorrect ==
  ServersSpec => []ServersTypeOK
<1>1. ServersInv => ServersTypeOK
  BY DEF ServersInv
<1> QED
  BY <1>1, ServersInductive, PTL

\* A subscriber's channel is closed at most once, by its own handler or by the
\* shutdown, whichever comes first (unsubscribe, closeAllSubscribers).
THEOREM SubscribersClosedOnce ==
  ServersSpec => []SubsClosedOnce
<1>1. ServersInv => SubsClosedOnce
  BY DEF ServersInv
<1> QED
  BY <1>1, ServersInductive, PTL

\* The fan-out never sends on a channel that was closed, whatever leaves or shuts
\* down beside it (fanOut, unsubscribe and closeAllSubscribers under subsMu).
THEOREM FanOutSendsOnOpen ==
  ServersSpec => SendsOnOpen
<1>1. ServersInv /\ [ServersNext]_serversVars
        => [\A r \in Requests : queue'[r] > queue[r] => closes[r] = 0]_serversVars
  <2> SUFFICES ASSUME ServersInv, ServersNext, NEW r \in Requests, queue'[r] > queue[r]
               PROVE  closes[r] = 0
    OBVIOUS
  <2> USE DEF ServersInv, ServersTypeOK
  <2>1. queue[r] \in Nat /\ closes[r] \in Nat /\ ~(queue[r] > queue[r])
    BY ServersAssumption
  <2>2. queue' # queue
    BY <2>1
  <2>3. FanOut \/ (\E q \in Requests : TakeEvent(q))
    BY <2>2 DEF ServersNext, EventLoop, ProcessEvent, GameEnds, Persist, LoopEnds,
       FanOuts, FanOutEnds,
       Serve, RestBinds, GrpcBinds, CancelDaemon, Shutdown, WatcherStops, RestShutdown,
       RestDrained, GrpcStop, GrpcDrained, CloseStore, Exit, RestExpires, GrpcExpires,
       Arrive, Work, ReadStore, Subscribe, Leave, Unsubscribe, Send,
       ClientLeaves, subVars
  <2>4. CASE FanOut
    BY <2>1, <2>4 DEF FanOut, SubsClosedOnce
  <2>5. ASSUME NEW q \in Requests, TakeEvent(q) PROVE FALSE
    BY <2>1, <2>5 DEF TakeEvent
  <2> QED
    BY <2>3, <2>4, <2>5
<1> QED
  BY <1>1, ServersInductive, PTL DEF SendsOnOpen, ServersSpec, ServersSafe

\* The event loop never uses a closed store, and a handler only if its server was
\* missed by the shutdown or not awaited (the order of the shutdown in startDaemon).
THEOREM StoreOutlivesUsersHolds ==
  ServersSpec => []StoreOutlivesUsers
<1>1. ServersInv => StoreOutlivesUsers
  BY DEF ServersInv
<1> QED
  BY <1>1, ServersInductive, PTL
=============================================================================
