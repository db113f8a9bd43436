------------------------ MODULE ReverseChannelsProofs ------------------------
(***************************************************************************)
(* Proofs about the reverse data channels of a node: the pool is well      *)
(* formed, no flow is given what belongs to another one, and no request    *)
(* waits beside an idle channel.                                           *)
(***************************************************************************)
EXTENDS ReverseChannels, SequenceTheorems, TLAPS

FrameKinds == {"upgrade", "accept", "refuse", "open", "request-end", "body", "abort",
               "response", "switch", "response-end", "idle", "fin"}
AnswerKinds == {"response", "switch", "response-end", "idle"}
Frames == [kind : FrameKinds, flow : Flows \cup {None} \cup (0 .. MaxSessions)]

(* No frame of these kinds is on its way.                                  *)
Without(q, kinds) == \A i \in 1 .. Len(q) : q[i].kind \notin kinds

EndsWithFin(q) == q # <<>> /\ q[Len(q)] = Fin

(* At most one request is on its way, and that is h's.                     *)
OpensOnce(q, h) ==
    \A i \in 1 .. Len(q) : q[i].kind = "open" =>
        q[i].flow = h /\ \A j \in 1 .. Len(q) : i < j => q[j].kind # "open"

(* Everything the node has answered is for h.                              *)
AnswersOnly(q, h) == \A i \in 1 .. Len(q) : q[i].kind \in AnswerKinds => q[i].flow = h

(* After an idle report there is no other answer.                          *)
IdleIsLast(q) ==
    \A i \in 1 .. Len(q) : q[i].kind = "idle" =>
        \A j \in 1 .. Len(q) : i < j => q[j].kind \notin AnswerKinds

(* Frames the Hub can read on a channel it has accepted.                   *)
AtHub(q) == \A i \in 1 .. Len(q) : q[i].kind \in AnswerKinds \cup {"abort"} \/ q[i] = Fin

OpensFlows(q) == \A i \in 1 .. Len(q) : q[i].kind = "open" => q[i].flow \in Flows

-----------------------------------------------------------------------------
(* Queues *)

LEMMA AppendFrame ==
    ASSUME NEW q \in Seq(Frames), NEW f \in Frames
    PROVE  /\ Append(q, f) \in Seq(Frames) /\ Append(q, f) # <<>>
           /\ Len(Append(q, f)) = Len(q) + 1 /\ Len(q) \in Nat
           /\ \A i \in 1 .. Len(q) : Append(q, f)[i] = q[i]
           /\ Append(q, f)[Len(q) + 1] = f
           /\ q # <<>> => Head(Append(q, f)) = Head(q) /\ Tail(Append(q, f)) = Append(Tail(q), f)
           /\ q = <<>> => Head(Append(q, f)) = f /\ Tail(Append(q, f)) = <<>>
<1>1. /\ Append(q, f) \in Seq(Frames) /\ Append(q, f) # <<>>
      /\ Len(Append(q, f)) = Len(q) + 1 /\ Len(q) \in Nat
      /\ \A i \in 1 .. Len(q) : Append(q, f)[i] = q[i]
      /\ Append(q, f)[Len(q) + 1] = f
  BY AppendProperties, LenProperties
<1>2. ASSUME q # <<>>
      PROVE  Head(Append(q, f)) = Head(q) /\ Tail(Append(q, f)) = Append(Tail(q), f)
  <2>1. Len(q) \in Nat /\ Len(q) >= 1
    BY <1>2, EmptySeq, SMT
  <2>2. Head(Append(q, f)) = Head(q)
    BY <1>1, <2>1, SMT
  <2>3. Tail(Append(q, f)) = Append(Tail(q), f)
    BY <1>1, <2>1, <1>2, SMT
  <2> QED BY <2>2, <2>3
<1>3. ASSUME q = <<>> PROVE Head(Append(q, f)) = f /\ Tail(Append(q, f)) = <<>>
  BY <1>3, SMT
<1> QED BY <1>1, <1>2, <1>3

LEMMA TailFrames ==
    ASSUME NEW q \in Seq(Frames), q # <<>>
    PROVE  /\ Tail(q) \in Seq(Frames) /\ Len(q) \in Nat \ {0} /\ Head(q) = q[1] /\ Head(q) \in Frames
           /\ Len(Tail(q)) = Len(q) - 1
           /\ \A i \in 1 .. Len(Tail(q)) : Tail(q)[i] = q[i + 1]
  BY HeadTailProperties, LenProperties, SMT

LEMMA ConcatFrames ==
    ASSUME NEW q \in Seq(Frames), NEW f \in Frames, NEW g \in Frames
    PROVE  q \o <<f>> = Append(q, f) /\ q \o <<f, g>> = Append(Append(q, f), g)
<1>1. q \o <<f>> = Append(q, f)
  BY SMT
<1>2. q \o <<f, g>> = Append(Append(q, f), g)
  BY SMT
<1> QED BY <1>1, <1>2

LEMMA WithoutQueue ==
    ASSUME NEW q \in Seq(Frames), NEW f \in Frames, NEW kinds
    PROVE  /\ Without(<<>>, kinds)
           /\ Without(q, kinds) /\ f.kind \notin kinds => Without(Append(q, f), kinds)
           /\ q # <<>> /\ Without(q, kinds) => Without(Tail(q), kinds)
           /\ Without(Append(q, f), kinds) => Without(q, kinds) /\ f.kind \notin kinds
  BY AppendFrame, TailFrames, SMT DEF Without

LEMMA FinAtEnd ==
    ASSUME NEW q \in Seq(Frames)
    PROVE  /\ Fin \in Frames
           /\ EndsWithFin(Append(q, Fin))
           /\ q # <<>> /\ EndsWithFin(q) /\ Head(q) # Fin => EndsWithFin(Tail(q))
           /\ \A f \in Frames : EndsWithFin(q) => EndsWithFin(Append(Append(q, f), Fin))
<1>1. Fin \in Frames
  BY DEF Fin, F, Frames, FrameKinds
<1>2. EndsWithFin(Append(q, Fin))
  BY <1>1, AppendFrame DEF EndsWithFin
<1>3. ASSUME q # <<>>, EndsWithFin(q), Head(q) # Fin PROVE EndsWithFin(Tail(q))
  <2> DEFINE n == Len(q)
  <2>1. n \in Nat \ {0} /\ q[1] # Fin /\ q[n] = Fin
    BY <1>3, TailFrames DEF EndsWithFin
  <2>2. n >= 2
    BY <2>1, SMT
  <2>3. Len(Tail(q)) = n - 1 /\ Tail(q)[n - 1] = q[n]
    BY <1>3, <2>2, TailFrames, SMT
  <2>4. Tail(q) # <<>>
    BY <2>2, <2>3, SMT
  <2> QED BY <2>1, <2>3, <2>4 DEF EndsWithFin
<1>4. ASSUME NEW f \in Frames PROVE EndsWithFin(Append(Append(q, f), Fin))
  BY <1>1, AppendFrame DEF EndsWithFin
<1> QED BY <1>1, <1>2, <1>3, <1>4

LEMMA OpensQueue ==
    ASSUME NEW q \in Seq(Frames), NEW f \in Frames, NEW h
    PROVE  /\ OpensOnce(<<>>, h) /\ OpensFlows(<<>>)
           /\ Without(q, {"open"}) => OpensOnce(q, h) /\ OpensFlows(q)
           /\ f.kind # "open" /\ OpensOnce(q, h) => OpensOnce(Append(q, f), h)
           /\ f.kind # "open" /\ OpensFlows(q) => OpensFlows(Append(q, f))
           /\ Without(q, {"open"}) /\ f.kind = "open" /\ f.flow = h => OpensOnce(Append(q, f), h)
           /\ f.flow \in Flows /\ OpensFlows(q) => OpensFlows(Append(q, f))
<1>1. /\ OpensOnce(<<>>, h) /\ OpensFlows(<<>>)
      /\ Without(q, {"open"}) => OpensOnce(q, h) /\ OpensFlows(q)
  BY SMT DEF OpensOnce, OpensFlows, Without
<1>2. f.kind # "open" /\ OpensOnce(q, h) => OpensOnce(Append(q, f), h)
  BY AppendFrame, SMT DEF OpensOnce
<1>3. f.kind # "open" /\ OpensFlows(q) => OpensFlows(Append(q, f))
  BY AppendFrame, SMT DEF OpensFlows
<1>4. Without(q, {"open"}) /\ f.kind = "open" /\ f.flow = h => OpensOnce(Append(q, f), h)
  BY AppendFrame, SMT DEF OpensOnce, Without
<1>5. f.flow \in Flows /\ OpensFlows(q) => OpensFlows(Append(q, f))
  BY AppendFrame, SMT DEF OpensFlows
<1> QED BY <1>1, <1>2, <1>3, <1>4, <1>5

LEMMA OpensTail ==
    ASSUME NEW q \in Seq(Frames), q # <<>>, NEW h
    PROVE  /\ OpensFlows(q) => OpensFlows(Tail(q))
           /\ OpensFlows(q) /\ Head(q).kind = "open" => Head(q).flow \in Flows
           /\ OpensOnce(q, h) => OpensOnce(Tail(q), h)
           /\ OpensOnce(q, h) /\ Head(q).kind = "open" => Head(q).flow = h /\ Without(Tail(q), {"open"})
           /\ Head(q).kind = "open" => ~Without(q, {"open"})
<1>1. OpensFlows(q) => OpensFlows(Tail(q))
  BY TailFrames, SMT DEF OpensFlows
<1>2. OpensFlows(q) /\ Head(q).kind = "open" => Head(q).flow \in Flows
  BY TailFrames, SMT DEF OpensFlows
<1>3. ASSUME OpensOnce(q, h) PROVE OpensOnce(Tail(q), h)
  <2> SUFFICES ASSUME NEW i \in 1 .. Len(Tail(q)), Tail(q)[i].kind = "open"
               PROVE  Tail(q)[i].flow = h /\ \A j \in 1 .. Len(Tail(q)) : i < j => Tail(q)[j].kind # "open"
    BY DEF OpensOnce
  <2>1. i + 1 \in 1 .. Len(q) /\ q[i + 1].kind = "open"
    BY TailFrames, SMT
  <2>2. q[i + 1].flow = h /\ \A j \in 1 .. Len(q) : i + 1 < j => q[j].kind # "open"
    BY <1>3, <2>1 DEF OpensOnce
  <2> QED BY <2>2, TailFrames, SMT
<1>4. ASSUME OpensOnce(q, h), Head(q).kind = "open" PROVE Head(q).flow = h /\ Without(Tail(q), {"open"})
  <2>1. 1 \in 1 .. Len(q) /\ q[1].kind = "open"
    BY <1>4, TailFrames, SMT
  <2>2. q[1].flow = h /\ \A j \in 1 .. Len(q) : 1 < j => q[j].kind # "open"
    BY <1>4, <2>1 DEF OpensOnce
  <2> QED BY <2>2, TailFrames, SMT DEF Without
<1>5. Head(q).kind = "open" => ~Without(q, {"open"})
  BY TailFrames, SMT DEF Without
<1> QED BY <1>1, <1>2, <1>3, <1>4, <1>5

LEMMA AnswersQueue ==
    ASSUME NEW q \in Seq(Frames), NEW f \in Frames, NEW h
    PROVE  /\ Without(q, AnswerKinds) => AnswersOnly(q, h) /\ IdleIsLast(q)
           /\ AnswersOnly(q, h) /\ (f.kind \in AnswerKinds => f.flow = h) => AnswersOnly(Append(q, f), h)
           /\ Without(q, {"idle"}) => IdleIsLast(Append(q, f))
           /\ IdleIsLast(q) /\ f.kind \notin AnswerKinds => IdleIsLast(Append(q, f))
           /\ AtHub(q) /\ f.kind \in AnswerKinds \cup {"abort"} => AtHub(Append(q, f))
           /\ AtHub(q) => AtHub(Append(q, Fin))
<1>1. Without(q, AnswerKinds) => AnswersOnly(q, h) /\ IdleIsLast(q)
  BY SMT DEF AnswersOnly, IdleIsLast, Without, AnswerKinds
<1>2. AnswersOnly(q, h) /\ (f.kind \in AnswerKinds => f.flow = h) => AnswersOnly(Append(q, f), h)
  BY AppendFrame, SMT DEF AnswersOnly
<1>3. Without(q, {"idle"}) => IdleIsLast(Append(q, f))
  BY AppendFrame, SMT DEF IdleIsLast, Without
<1>4. IdleIsLast(q) /\ f.kind \notin AnswerKinds => IdleIsLast(Append(q, f))
  BY AppendFrame, SMT DEF IdleIsLast
<1>5. AtHub(q) /\ f.kind \in AnswerKinds \cup {"abort"} => AtHub(Append(q, f))
  BY AppendFrame, SMT DEF AtHub
<1>6. AtHub(q) => AtHub(Append(q, Fin))
  BY AppendFrame, FinAtEnd, SMT DEF AtHub
<1> QED BY <1>1, <1>2, <1>3, <1>4, <1>5, <1>6

LEMMA AnswersTail ==
    ASSUME NEW q \in Seq(Frames), q # <<>>, NEW h
    PROVE  /\ AnswersOnly(q, h) => AnswersOnly(Tail(q), h)
           /\ IdleIsLast(q) => IdleIsLast(Tail(q))
           /\ IdleIsLast(q) /\ Head(q).kind = "idle" => Without(Tail(q), AnswerKinds)
           /\ Head(q).kind = "idle" => ~Without(q, {"idle"}) /\ ~Without(q, AnswerKinds)
           /\ AtHub(q) => AtHub(Tail(q))
           /\ AtHub(q) => Head(q).kind \in AnswerKinds \cup {"abort"} \/ Head(q) = Fin
<1>1. AnswersOnly(q, h) => AnswersOnly(Tail(q), h)
  BY TailFrames, SMT DEF AnswersOnly
<1>2. ASSUME IdleIsLast(q) PROVE IdleIsLast(Tail(q))
  <2> SUFFICES ASSUME NEW i \in 1 .. Len(Tail(q)), Tail(q)[i].kind = "idle",
                      NEW j \in 1 .. Len(Tail(q)), i < j
               PROVE  Tail(q)[j].kind \notin AnswerKinds
    BY DEF IdleIsLast
  <2>1. i + 1 \in 1 .. Len(q) /\ q[i + 1].kind = "idle" /\ j + 1 \in 1 .. Len(q) /\ i + 1 < j + 1
    BY TailFrames, SMT
  <2>2. q[j + 1].kind \notin AnswerKinds
    BY <1>2, <2>1 DEF IdleIsLast
  <2> QED BY <2>2, TailFrames
<1>3. ASSUME IdleIsLast(q), Head(q).kind = "idle" PROVE Without(Tail(q), AnswerKinds)
  <2>1. 1 \in 1 .. Len(q) /\ q[1].kind = "idle"
    BY <1>3, TailFrames, SMT
  <2>2. \A j \in 1 .. Len(q) : 1 < j => q[j].kind \notin AnswerKinds
    BY <1>3, <2>1 DEF IdleIsLast
  <2> QED BY <2>2, TailFrames, SMT DEF Without
<1>4. Head(q).kind = "idle" => ~Without(q, {"idle"}) /\ ~Without(q, AnswerKinds)
  BY TailFrames, SMT DEF Without, AnswerKinds
<1>5. AtHub(q) => AtHub(Tail(q))
  BY TailFrames, SMT DEF AtHub
<1>6. AtHub(q) => Head(q).kind \in AnswerKinds \cup {"abort"} \/ Head(q) = Fin
  BY TailFrames, SMT DEF AtHub
<1> QED BY <1>1, <1>2, <1>3, <1>4, <1>5, <1>6

-----------------------------------------------------------------------------
(* One channel *)

(* The node is done with what it was asked.                                *)
Quiet(toNode, state, toHub) ==
    state # "busy" /\ Without(toNode, {"open"}) /\ Without(toHub, AnswerKinds)

Upgrades(q) == q # <<>> /\ Head(q).kind = "upgrade"

(* A channel the Hub does not have: the node's upgrade is on its way, or   *)
(* its answer, or the end the Hub has put to it.                           *)
AbsentAtHub(toNode, state, toHub) ==
    /\ \/ toHub = <<>> \/ toHub = <<Fin>>
       \/ Upgrades(toHub) /\ (Tail(toHub) = <<>> \/ Tail(toHub) = <<Fin>>)
    /\ state = "connecting" =>
         \/ Upgrades(toHub) /\ Tail(toHub) = <<>> /\ toNode = <<>>
         \/ toHub = <<>> /\ toNode # <<>> /\ (Head(toNode).kind = "accept" => EndsWithFin(Tail(toNode)))
    /\ state \in {"idle", "busy"} => toHub = <<>> /\ EndsWithFin(toNode)

(* A channel the Hub has.                                                  *)
PresentAtHub(toNode, state, toHub) ==
    /\ AtHub(toHub)
    /\ state = "none" => EndsWithFin(toHub)
    /\ state = "connecting" => toNode # <<>> /\ Head(toNode).kind = "accept"

(* A channel leased to h, whose marks are given: the request of h is on    *)
(* its way or runs, or its answers are on their way, or all of it is done. *)
LeasedTo(h, marks, toNode, state, flow, toHub) ==
    /\ AnswersOnly(toHub, h) /\ IdleIsLast(toHub) /\ OpensOnce(toNode, h)
    /\ state = "busy" => flow = h /\ Without(toNode, {"open"}) /\ Without(toHub, {"idle"})
    /\ Without(toNode, {"open"}) \/ Without(toHub, AnswerKinds)
    /\ "idle" \in marks => Quiet(toNode, state, toHub)

(* What holds of a channel between the two ends, in every step of a lease. *)
ChannelOK(hub, h, marks, toNode, state, flow, toHub) ==
    /\ h \in Flows \cup {None} /\ (hub = "busy" => h \in Flows) /\ (h \in Flows => hub = "busy")
    /\ flow \in Flows \cup {None} /\ (state = "busy" => flow \in Flows) /\ (flow \in Flows => state = "busy")
    /\ OpensFlows(toNode)
    /\ state = "none" => toNode = <<>> /\ (toHub = <<>> \/ EndsWithFin(toHub))
    /\ hub = "none" => AbsentAtHub(toNode, state, toHub)
    /\ hub # "none" => PresentAtHub(toNode, state, toHub)
    /\ hub = "idle" => Quiet(toNode, state, toHub)
    /\ hub = "busy" => LeasedTo(h, marks, toNode, state, flow, toHub)

HubStates == {"none", "idle", "busy"}
NodeStates == {"none", "connecting", "idle", "busy"}

LEMMA EmptyQueue ==
    ASSUME NEW kinds, NEW h
    PROVE  /\ <<>> \in Seq(Frames) /\ Without(<<>>, kinds) /\ AnswersOnly(<<>>, h) /\ IdleIsLast(<<>>)
           /\ OpensOnce(<<>>, h) /\ OpensFlows(<<>>) /\ AtHub(<<>>)
<1>1. <<>> \in Seq(Frames) /\ Without(<<>>, kinds) /\ AnswersOnly(<<>>, h) /\ IdleIsLast(<<>>)
  BY SMT DEF Without, AnswersOnly, IdleIsLast
<1>2. OpensOnce(<<>>, h) /\ OpensFlows(<<>>) /\ AtHub(<<>>)
  BY SMT DEF OpensOnce, OpensFlows, AtHub
<1> QED BY <1>1, <1>2

LEMMA ChannelCloses ==
    ASSUME NEW hub \in HubStates, NEW h, NEW marks, NEW toNode \in Seq(Frames), NEW state \in NodeStates,
           NEW flow, NEW toHub \in Seq(Frames), hub # "none",
           ChannelOK(hub, h, marks, toNode, state, flow, toHub)
    PROVE  ChannelOK("none", None, {}, IF state = "none" THEN <<>> ELSE Append(toNode, Fin), state, flow, <<>>)
<1> DEFINE q == IF state = "none" THEN <<>> ELSE Append(toNode, Fin)
<1>1. Fin \in Frames /\ Fin.kind = "fin"
  BY FinAtEnd DEF Fin, F
<1>2. OpensFlows(q)
  BY <1>1, OpensQueue, EmptyQueue DEF ChannelOK
<1>3. AbsentAtHub(q, state, <<>>)
  <2>1. CASE state = "connecting"
    <3>1. toNode # <<>> /\ Head(toNode).kind = "accept"
      BY <2>1 DEF ChannelOK, PresentAtHub
    <3>2. q # <<>> /\ Tail(q) = Append(Tail(toNode), Fin)
      BY <3>1, <2>1, <1>1, AppendFrame
    <3>3. EndsWithFin(Tail(q))
      BY <3>1, <3>2, TailFrames, FinAtEnd
    <3> QED BY <2>1, <3>2, <3>3 DEF AbsentAtHub
  <2>2. CASE state # "connecting"
    BY <2>2, FinAtEnd DEF AbsentAtHub
  <2> QED BY <2>1, <2>2
<1>4. None \notin Flows
  BY ChannelAssumption
<1> HIDE DEF q
<1>5. state = "none" => q = <<>>
  BY DEF q
<1>6. ChannelOK("none", None, {}, q, state, flow, <<>>)
  BY <1>2, <1>3, <1>4, <1>5 DEF ChannelOK
<1> QED BY <1>6 DEF q

LEMMA ChannelSeenClosed ==
    ASSUME NEW h, NEW marks, NEW toNode \in Seq(Frames), NEW state \in NodeStates,
           NEW flow, NEW toHub \in Seq(Frames), EndsWithFin(toHub),
           ChannelOK("none", h, marks, toNode, state, flow, toHub)
    PROVE  ChannelOK("none", h, marks, toNode, state, flow, <<>>)
<1>1. AbsentAtHub(toNode, state, toHub)
  BY DEF ChannelOK
<1>2. toHub # <<>>
  BY DEF EndsWithFin
<1>3. state = "none"
  <2>1. state # "connecting"
    <3> SUFFICES ASSUME state = "connecting" PROVE FALSE
      OBVIOUS
    <3>1. Upgrades(toHub) /\ Tail(toHub) = <<>>
      BY <1>1, <1>2 DEF AbsentAtHub
    <3>2. Head(toHub) # Fin
      BY <3>1 DEF Upgrades, Fin, F
    <3>3. EndsWithFin(Tail(toHub))
      BY <1>2, <3>2, FinAtEnd
    <3> QED BY <3>1, <3>3 DEF EndsWithFin
  <2> QED BY <2>1, <1>1, <1>2 DEF AbsentAtHub, NodeStates
<1>4. AbsentAtHub(toNode, state, <<>>)
  BY <1>3 DEF AbsentAtHub
<1> QED BY <1>3, <1>4 DEF ChannelOK

LEMMA ChannelDrops ==
    ASSUME NEW hub \in HubStates, NEW h, NEW marks, NEW toNode \in Seq(Frames), NEW state \in NodeStates,
           NEW flow, NEW toHub \in Seq(Frames), state # "none",
           ChannelOK(hub, h, marks, toNode, state, flow, toHub)
    PROVE  ChannelOK(hub, h, marks, <<>>, "none", None,
                     IF hub = "none" /\ toHub = <<>> THEN toHub ELSE Append(toHub, Fin))
<1>1. Fin \in Frames /\ Fin.kind = "fin" /\ None \notin Flows
  BY FinAtEnd, ChannelAssumption DEF Fin, F
<1>2. CASE hub = "none"
  <2>1. AbsentAtHub(toNode, state, toHub)
    BY <1>2 DEF ChannelOK
  <2>2. CASE toHub = <<>>
    <3>1. AbsentAtHub(<<>>, "none", toHub)
      BY <2>2 DEF AbsentAtHub
    <3> QED BY <1>1, <1>2, <2>2, <3>1, EmptyQueue DEF ChannelOK
  <2>3. CASE toHub # <<>>
    <3>1. Upgrades(toHub) /\ Tail(toHub) = <<>>
      BY <2>1, <2>3 DEF AbsentAtHub, NodeStates
    <3>a. EndsWithFin(Append(toHub, Fin))
      BY FinAtEnd
    <3>b. /\ Append(toHub, Fin) # <<>> /\ Head(Append(toHub, Fin)) = Head(toHub)
          /\ Tail(Append(toHub, Fin)) = Append(Tail(toHub), Fin)
      BY <2>3, <1>1, AppendFrame
    <3>2. /\ EndsWithFin(Append(toHub, Fin)) /\ Upgrades(Append(toHub, Fin))
          /\ Tail(Append(toHub, Fin)) = Append(<<>>, Fin)
      BY <3>1, <3>a, <3>b DEF Upgrades
    <3>3. Append(<<>>, Fin) = <<Fin>>
      BY SMT
    <3>4. AbsentAtHub(<<>>, "none", Append(toHub, Fin))
      BY <3>2, <3>3 DEF AbsentAtHub
    <3>5. ChannelOK(hub, h, marks, <<>>, "none", None, Append(toHub, Fin))
      BY <1>1, <1>2, <3>2, <3>4, EmptyQueue DEF ChannelOK
    <3> QED BY <2>3, <3>5
  <2> QED BY <2>2, <2>3
<1>3. CASE hub # "none"
  <2> DEFINE q == Append(toHub, Fin)
  <2>1. PresentAtHub(<<>>, "none", q)
    BY <1>3, <1>1, AnswersQueue, FinAtEnd DEF PresentAtHub, ChannelOK
  <2>2. Without(toHub, AnswerKinds) => Without(q, AnswerKinds)
    BY <1>1, WithoutQueue DEF AnswerKinds
  <2>3. ASSUME hub = "idle" PROVE Quiet(<<>>, "none", q)
    BY <2>2, <2>3, EmptyQueue DEF Quiet, ChannelOK
  <2>4. ASSUME hub = "busy" PROVE LeasedTo(h, marks, <<>>, "none", None, q)
    <3>1. LeasedTo(h, marks, toNode, state, flow, toHub)
      BY <2>4 DEF ChannelOK
    <3>2. AnswersOnly(q, h) /\ IdleIsLast(q)
      BY <3>1, <1>1, AnswersQueue DEF LeasedTo, AnswerKinds
    <3>3. "idle" \in marks => Quiet(<<>>, "none", q)
      BY <3>1, <2>2, EmptyQueue DEF Quiet, LeasedTo
    <3> QED BY <3>2, <3>3, EmptyQueue DEF LeasedTo
  <2>5. EndsWithFin(q)
    BY FinAtEnd
  <2> HIDE DEF q
  <2>6. ChannelOK(hub, h, marks, <<>>, "none", None, q)
    BY <1>1, <1>3, <2>1, <2>3, <2>4, <2>5, EmptyQueue DEF ChannelOK
  <2> QED BY <1>3, <2>6 DEF q
<1> QED BY <1>2, <1>3

LEMMA ChannelTold ==
    ASSUME NEW hub \in HubStates, NEW h, NEW marks, NEW toNode \in Seq(Frames), NEW state \in NodeStates,
           NEW flow, NEW toHub \in Seq(Frames), NEW f \in Frames, hub # "none", state # "none",
           f.kind \in {"body", "abort", "request-end"},
           ChannelOK(hub, h, marks, toNode, state, flow, toHub)
    PROVE  ChannelOK(hub, h, marks, Append(toNode, f), state, flow, toHub)
<1> DEFINE q == Append(toNode, f)
<1>1. f.kind # "open" /\ OpensFlows(q)
  BY OpensQueue DEF ChannelOK
<1>2. Without(toNode, {"open"}) => Without(q, {"open"})
  BY <1>1, WithoutQueue
<1>3. PresentAtHub(q, state, toHub)
  BY AppendFrame DEF ChannelOK, PresentAtHub
<1>4. ASSUME hub = "idle" PROVE Quiet(q, state, toHub)
  BY <1>2, <1>4 DEF ChannelOK, Quiet
<1>5. ASSUME hub = "busy" PROVE LeasedTo(h, marks, q, state, flow, toHub)
  <2>1. LeasedTo(h, marks, toNode, state, flow, toHub)
    BY <1>5 DEF ChannelOK
  <2>2. OpensOnce(q, h)
    BY <2>1, <1>1, OpensQueue DEF LeasedTo
  <2> HIDE DEF q
  <2> QED BY <2>1, <2>2, <1>2 DEF LeasedTo, Quiet
<1> HIDE DEF q
<1>6. ChannelOK(hub, h, marks, q, state, flow, toHub)
  BY <1>1, <1>3, <1>4, <1>5 DEF ChannelOK
<1> QED BY <1>6 DEF q

LEMMA ChannelLeases ==
    ASSUME NEW marks, NEW h, NEW toNode \in Seq(Frames), NEW state \in NodeStates,
           NEW flow, NEW toHub \in Seq(Frames), NEW r \in Flows, NEW others, "idle" \notin others,
           ChannelOK("idle", h, marks, toNode, state, flow, toHub)
    PROVE  ChannelOK("busy", r, others, IF state = "none" THEN toNode ELSE Append(toNode, F("open", r)),
                     state, flow, toHub)
<1> DEFINE f == F("open", r)
           q == IF state = "none" THEN toNode ELSE Append(toNode, f)
<1>1. f \in Frames /\ f.kind = "open" /\ f.flow = r
  BY DEF F, Frames, FrameKinds
<1>2. Quiet(toNode, state, toHub)
  BY DEF ChannelOK
<1>3. OpensFlows(q) /\ OpensOnce(q, r)
  BY <1>1, <1>2, OpensQueue DEF ChannelOK, Quiet
<1>4. PresentAtHub(q, state, toHub)
  BY <1>1, AppendFrame DEF ChannelOK, PresentAtHub
<1> HIDE DEF f
<1>5. state = "none" => q = toNode
  OBVIOUS
<1> HIDE DEF q
<1>6. LeasedTo(r, others, q, state, flow, toHub)
  <2>1. AnswersOnly(toHub, r) /\ IdleIsLast(toHub)
    BY <1>1, <1>2, AnswersQueue DEF Quiet
  <2> QED BY <1>2, <1>3, <2>1 DEF LeasedTo, Quiet
<1>7. ChannelOK("busy", r, others, q, state, flow, toHub)
  BY <1>3, <1>4, <1>5, <1>6 DEF ChannelOK
<1> QED BY <1>7 DEF q, f

LEMMA ChannelFrees ==
    ASSUME NEW h, NEW marks, NEW toNode \in Seq(Frames), NEW state \in NodeStates,
           NEW flow, NEW toHub \in Seq(Frames), NEW others,
           ChannelOK("busy", h, marks, toNode, state, flow, toHub), Quiet(toNode, state, toHub)
    PROVE  ChannelOK("idle", None, others, toNode, state, flow, toHub)
  BY ChannelAssumption DEF ChannelOK

LEMMA ChannelMarks ==
    ASSUME NEW hub \in HubStates, NEW h, NEW marks, NEW toNode \in Seq(Frames), NEW state \in NodeStates,
           NEW flow, NEW toHub \in Seq(Frames), NEW others,
           ChannelOK(hub, h, marks, toNode, state, flow, toHub),
           "idle" \in others => "idle" \in marks \/ Quiet(toNode, state, toHub)
    PROVE  ChannelOK(hub, h, others, toNode, state, flow, toHub)
<1>1. ASSUME hub = "busy" PROVE LeasedTo(h, others, toNode, state, flow, toHub)
  BY <1>1 DEF ChannelOK, LeasedTo
<1> QED BY <1>1 DEF ChannelOK

LEMMA UpgradeReaches ==
    ASSUME NEW hub \in HubStates, NEW h, NEW marks, NEW toNode \in Seq(Frames), NEW state \in NodeStates,
           NEW flow, NEW toHub \in Seq(Frames), Upgrades(toHub),
           ChannelOK(hub, h, marks, toNode, state, flow, toHub)
    PROVE  /\ hub = "none" /\ h = None /\ (Tail(toHub) = <<>> \/ Tail(toHub) = <<Fin>>)
           /\ state \in {"none", "connecting"} /\ toNode = <<>>
           /\ state = "none" => Tail(toHub) = <<Fin>>
<1>1. toHub # <<>> /\ Head(toHub).kind = "upgrade" /\ Head(toHub) # Fin
  BY DEF Upgrades, F, Fin
<1>2. hub = "none"
  <2> SUFFICES ASSUME hub # "none" PROVE FALSE
    OBVIOUS
  <2>1. AtHub(toHub)
    BY DEF ChannelOK, PresentAtHub
  <2>2. Head(toHub).kind \in AnswerKinds \cup {"abort"}
    BY <1>1, <2>1, AnswersTail
  <2> QED BY <1>1, <2>2 DEF AnswerKinds
<1>3. AbsentAtHub(toNode, state, toHub) /\ h = None
  BY <1>2 DEF ChannelOK, HubStates
<1>4. Head(<<Fin>>) = Fin
  OBVIOUS
<1>5. toHub # <<Fin>>
  BY <1>1, <1>4
<1>6. Tail(toHub) = <<>> \/ Tail(toHub) = <<Fin>>
  BY <1>1, <1>3, <1>5 DEF AbsentAtHub
<1>7. state \in {"none", "connecting"}
  BY <1>1, <1>3 DEF AbsentAtHub, NodeStates
<1>8. toNode = <<>>
  BY <1>1, <1>3, <1>7 DEF AbsentAtHub, ChannelOK
<1>9. ASSUME state = "none" PROVE Tail(toHub) # <<>>
  <2> SUFFICES ASSUME Tail(toHub) = <<>> PROVE FALSE
    OBVIOUS
  <2>1. EndsWithFin(toHub)
    BY <1>1, <1>9 DEF ChannelOK
  <2>2. EndsWithFin(Tail(toHub))
    BY <1>1, <2>1, FinAtEnd
  <2> QED BY <2>2 DEF EndsWithFin
<1> QED BY <1>2, <1>3, <1>6, <1>7, <1>8, <1>9

LEMMA ChannelAccepted ==
    ASSUME NEW h, NEW marks, NEW toNode \in Seq(Frames), NEW state \in NodeStates,
           NEW flow, NEW toHub \in Seq(Frames), Upgrades(toHub), NEW others,
           ChannelOK("none", h, marks, toNode, state, flow, toHub)
    PROVE  ChannelOK("idle", None, others,
                     IF state = "none" THEN toNode ELSE Append(toNode, F("accept", None)), state, flow, Tail(toHub))
<1> DEFINE f == F("accept", None)
           q == IF state = "none" THEN toNode ELSE Append(toNode, f)
<1>1. f \in Frames /\ f.kind = "accept" /\ Fin \in Frames /\ Fin.kind = "fin" /\ None \notin Flows
  BY ChannelAssumption DEF F, Fin, Frames, FrameKinds
<1>2. /\ Tail(toHub) = <<>> \/ Tail(toHub) = <<Fin>>
      /\ state \in {"none", "connecting"} /\ toNode = <<>> /\ (state = "none" => Tail(toHub) = <<Fin>>)
  BY UpgradeReaches DEF HubStates
<1>3. <<Fin>> = Append(<<>>, Fin)
  BY SMT
<1>4. EndsWithFin(<<Fin>>) /\ AtHub(<<Fin>>) /\ Without(<<Fin>>, AnswerKinds)
  <2>1. EndsWithFin(Append(<<>>, Fin))
    BY FinAtEnd, EmptyQueue
  <2>2. AtHub(Append(<<>>, Fin))
    BY <1>1, AnswersQueue, EmptyQueue
  <2>3. Without(Append(<<>>, Fin), AnswerKinds)
    BY <1>1, WithoutQueue, EmptyQueue DEF AnswerKinds
  <2> QED BY <1>3, <2>1, <2>2, <2>3
<1>5. AtHub(Tail(toHub)) /\ Without(Tail(toHub), AnswerKinds)
  BY <1>2, <1>4, EmptyQueue
<1>6. Without(q, {"open"}) /\ OpensFlows(q) /\ (state # "none" => q # <<>> /\ Head(q) = f)
  BY <1>1, <1>2, EmptyQueue, WithoutQueue, OpensQueue, AppendFrame
<1> HIDE DEF f
<1>7. state = "none" => q = <<>>
  BY <1>2
<1> HIDE DEF q
<1>8. PresentAtHub(q, state, Tail(toHub)) /\ Quiet(q, state, Tail(toHub))
  BY <1>1, <1>2, <1>4, <1>5, <1>6 DEF PresentAtHub, Quiet
<1>9. flow \in Flows \cup {None} /\ flow \notin Flows
  BY <1>2 DEF ChannelOK
<1>10. ChannelOK("idle", None, others, q, state, flow, Tail(toHub))
  BY <1>1, <1>2, <1>4, <1>6, <1>7, <1>8, <1>9 DEF ChannelOK
<1> QED BY <1>10 DEF q, f

LEMMA ChannelRefused ==
    ASSUME NEW h, NEW marks, NEW toNode \in Seq(Frames), NEW state \in NodeStates,
           NEW flow, NEW toHub \in Seq(Frames), Upgrades(toHub),
           ChannelOK("none", h, marks, toNode, state, flow, toHub)
    PROVE  ChannelOK("none", h, marks,
                     IF state = "none" THEN toNode ELSE Append(toNode, F("refuse", None)), state, flow, Tail(toHub))
<1> DEFINE f == F("refuse", None)
           q == IF state = "none" THEN toNode ELSE Append(toNode, f)
<1>1. f \in Frames /\ f.kind = "refuse" /\ f.kind # "accept"
  BY DEF F, Frames, FrameKinds
<1>2. /\ Tail(toHub) = <<>> \/ Tail(toHub) = <<Fin>>
      /\ state \in {"none", "connecting"} /\ toNode = <<>> /\ (state = "none" => Tail(toHub) = <<Fin>>)
      /\ h = None
  BY UpgradeReaches DEF HubStates
<1>3. state = "connecting" => Tail(toHub) = <<>>
  BY UpgradeReaches DEF ChannelOK, AbsentAtHub, HubStates, Upgrades
<1>4. <<Fin>> = Append(<<>>, Fin) /\ EndsWithFin(<<Fin>>)
  <2>1. <<Fin>> = Append(<<>>, Fin)
    BY SMT
  <2> QED BY <2>1, FinAtEnd, EmptyQueue
<1>5. OpensFlows(q) /\ (state # "none" => q # <<>> /\ Head(q) = f)
  BY <1>1, <1>2, EmptyQueue, OpensQueue, AppendFrame
<1> HIDE DEF f
<1>6. state = "none" => q = <<>>
  BY <1>2
<1> HIDE DEF q
<1>7. AbsentAtHub(q, state, Tail(toHub))
  BY <1>1, <1>2, <1>3, <1>5 DEF AbsentAtHub
<1>8. flow \in Flows \cup {None} /\ flow \notin Flows /\ h \notin Flows
  BY <1>2, ChannelAssumption DEF ChannelOK
<1>9. ChannelOK("none", h, marks, q, state, flow, Tail(toHub))
  BY <1>2, <1>4, <1>5, <1>6, <1>7, <1>8 DEF ChannelOK
<1> QED BY <1>9 DEF q, f

LEMMA ChannelReads ==
    ASSUME NEW hub \in HubStates, NEW h, NEW marks, NEW toNode \in Seq(Frames), NEW state \in NodeStates,
           NEW flow, NEW toHub \in Seq(Frames), hub # "none", toHub # <<>>, Head(toHub) # Fin,
           ChannelOK(hub, h, marks, toNode, state, flow, toHub)
    PROVE  /\ ChannelOK(hub, h, marks, toNode, state, flow, Tail(toHub))
           /\ hub = "busy" /\ Head(toHub).kind = "idle" => Quiet(toNode, state, Tail(toHub))
           /\ Head(toHub).kind \in AnswerKinds \cup {"abort"}
<1> DEFINE q == Tail(toHub)
<1>1. /\ Without(toHub, AnswerKinds) => Without(q, AnswerKinds)
      /\ Without(toHub, {"idle"}) => Without(q, {"idle"})
  <2> QED BY TailFrames, SMT DEF Without
<1>2. PresentAtHub(toNode, state, q)
  BY AnswersTail, FinAtEnd DEF ChannelOK, PresentAtHub
<1>3. ASSUME hub = "idle" PROVE Quiet(toNode, state, q)
  BY <1>1, <1>3 DEF ChannelOK, Quiet
<1>4. ASSUME hub = "busy" PROVE LeasedTo(h, marks, toNode, state, flow, q)
  <2>1. LeasedTo(h, marks, toNode, state, flow, toHub)
    BY <1>4 DEF ChannelOK
  <2>2. AnswersOnly(q, h) /\ IdleIsLast(q)
    BY <2>1, AnswersTail DEF LeasedTo
  <2> HIDE DEF q
  <2> QED BY <1>1, <2>1, <2>2 DEF LeasedTo, Quiet
<1>5. ASSUME hub = "busy", Head(toHub).kind = "idle" PROVE Quiet(toNode, state, q)
  <2>1. LeasedTo(h, marks, toNode, state, flow, toHub)
    BY <1>5 DEF ChannelOK
  <2>2. Without(q, AnswerKinds) /\ ~Without(toHub, {"idle"}) /\ ~Without(toHub, AnswerKinds)
    BY <2>1, <1>5, AnswersTail DEF LeasedTo
  <2> HIDE DEF q
  <2> QED BY <2>1, <2>2 DEF LeasedTo, Quiet
<1>6. Head(toHub).kind \in AnswerKinds \cup {"abort"}
  BY AnswersTail DEF ChannelOK, PresentAtHub
<1>7. state = "none" => EndsWithFin(q)
  BY <1>2 DEF PresentAtHub
<1> HIDE DEF q
<1>8. ChannelOK(hub, h, marks, toNode, state, flow, q)
  BY <1>2, <1>3, <1>4, <1>7 DEF ChannelOK
<1> QED BY <1>5, <1>6, <1>8 DEF q

LEMMA ChannelDials ==
    ASSUME NEW h, NEW marks, NEW flow, NEW toHub, NEW s \in 0 .. MaxSessions,
           ChannelOK("none", h, marks, <<>>, "none", flow, <<>>)
    PROVE  ChannelOK("none", h, marks, <<>>, "connecting", flow, <<F("upgrade", s)>>)
<1> DEFINE f == F("upgrade", s)
<1>1. f \in Frames /\ f.kind = "upgrade"
  BY DEF F, Frames, FrameKinds
<1>2. <<f>> # <<>> /\ Head(<<f>>) = f /\ Tail(<<f>>) = <<>>
  BY SMT
<1> HIDE DEF f
<1>3. AbsentAtHub(<<>>, "connecting", <<f>>)
  BY <1>1, <1>2 DEF AbsentAtHub, Upgrades
<1>4. ChannelOK("none", h, marks, <<>>, "connecting", flow, <<f>>)
  BY <1>3 DEF ChannelOK
<1> QED BY <1>4 DEF f

LEMMA ChannelOpens ==
    ASSUME NEW hub \in HubStates, NEW h, NEW marks, NEW toNode \in Seq(Frames),
           NEW flow, NEW toHub \in Seq(Frames), toNode # <<>>, Head(toNode).kind = "accept",
           ChannelOK(hub, h, marks, toNode, "connecting", flow, toHub)
    PROVE  ChannelOK(hub, h, marks, Tail(toNode), "idle", flow, toHub)
<1> DEFINE q == Tail(toNode)
<1>1. /\ Without(toNode, {"open"}) => Without(q, {"open"})
      /\ OpensFlows(q)
  <2>1. OpensFlows(q)
    BY OpensTail DEF ChannelOK
  <2>2. Without(toNode, {"open"}) => Without(q, {"open"})
    BY TailFrames, SMT DEF Without
  <2> QED BY <2>1, <2>2
<1>2. ASSUME hub = "none" PROVE AbsentAtHub(q, "idle", toHub)
  BY <1>2 DEF ChannelOK, AbsentAtHub
<1>3. ASSUME hub # "none" PROVE PresentAtHub(q, "idle", toHub)
  BY <1>3 DEF ChannelOK, PresentAtHub
<1>4. ASSUME hub = "idle" PROVE Quiet(q, "idle", toHub)
  BY <1>1, <1>4 DEF ChannelOK, Quiet
<1>5. ASSUME hub = "busy" PROVE LeasedTo(h, marks, q, "idle", flow, toHub)
  <2>1. LeasedTo(h, marks, toNode, "connecting", flow, toHub)
    BY <1>5 DEF ChannelOK
  <2>2. OpensOnce(q, h)
    BY <2>1, OpensTail DEF LeasedTo
  <2> HIDE DEF q
  <2> QED BY <1>1, <2>1, <2>2 DEF LeasedTo, Quiet
<1> HIDE DEF q
<1>6. ChannelOK(hub, h, marks, q, "idle", flow, toHub)
  BY <1>1, <1>2, <1>3, <1>4, <1>5 DEF ChannelOK
<1> QED BY <1>6 DEF q

LEMMA ChannelSkips ==
    ASSUME NEW hub \in HubStates, NEW h, NEW marks, NEW toNode \in Seq(Frames), NEW state \in {"idle", "busy"},
           NEW flow, NEW toHub \in Seq(Frames), toNode # <<>>, Head(toNode) # Fin,
           ChannelOK(hub, h, marks, toNode, state, flow, toHub)
    PROVE  ChannelOK(hub, h, marks, Tail(toNode), state, flow, toHub)
<1> DEFINE q == Tail(toNode)
<1>1. OpensFlows(q)
  BY OpensTail DEF ChannelOK
<1>2. Without(toNode, {"open"}) => Without(q, {"open"})
  BY TailFrames, SMT DEF Without
<1>3. ASSUME hub = "none" PROVE AbsentAtHub(q, state, toHub)
  BY <1>3, FinAtEnd DEF ChannelOK, AbsentAtHub
<1>4. ASSUME hub # "none" PROVE PresentAtHub(q, state, toHub)
  BY <1>4 DEF ChannelOK, PresentAtHub
<1>5. ASSUME hub = "idle" PROVE Quiet(q, state, toHub)
  BY <1>2, <1>5 DEF ChannelOK, Quiet
<1>6. ASSUME hub = "busy" PROVE LeasedTo(h, marks, q, state, flow, toHub)
  <2>1. LeasedTo(h, marks, toNode, state, flow, toHub)
    BY <1>6 DEF ChannelOK
  <2>2. OpensOnce(q, h)
    BY <2>1, OpensTail DEF LeasedTo
  <2> HIDE DEF q
  <2> QED BY <1>2, <2>1, <2>2 DEF LeasedTo, Quiet
<1> HIDE DEF q
<1>7. ChannelOK(hub, h, marks, q, state, flow, toHub)
  BY <1>1, <1>3, <1>4, <1>5, <1>6 DEF ChannelOK
<1> QED BY <1>7 DEF q

LEMMA ChannelExecutes ==
    ASSUME NEW hub \in HubStates, NEW h, NEW marks, NEW toNode \in Seq(Frames),
           NEW flow, NEW toHub \in Seq(Frames), toNode # <<>>, Head(toNode).kind = "open",
           ChannelOK(hub, h, marks, toNode, "idle", flow, toHub)
    PROVE  /\ ChannelOK(hub, h, marks, Tail(toNode), "busy", Head(toNode).flow, toHub)
           /\ Head(toNode).flow \in Flows
<1> DEFINE q == Tail(toNode)
           x == Head(toNode).flow
<1>1. OpensFlows(q) /\ x \in Flows /\ ~Without(toNode, {"open"})
  BY OpensTail DEF ChannelOK
<1>2. Head(toNode) # Fin
  BY DEF F, Fin
<1>3. ASSUME hub = "none" PROVE AbsentAtHub(q, "busy", toHub)
  BY <1>2, <1>3, FinAtEnd DEF ChannelOK, AbsentAtHub
<1>4. ASSUME hub # "none" PROVE PresentAtHub(q, "busy", toHub)
  BY <1>4 DEF ChannelOK, PresentAtHub
<1>5. hub # "idle"
  BY <1>1 DEF ChannelOK, Quiet
<1>6. ASSUME hub = "busy" PROVE LeasedTo(h, marks, q, "busy", x, toHub)
  <2>1. LeasedTo(h, marks, toNode, "idle", flow, toHub)
    BY <1>6 DEF ChannelOK
  <2>2. OpensOnce(q, h) /\ x = h /\ Without(q, {"open"})
    BY <2>1, OpensTail DEF LeasedTo
  <2>3. Without(toHub, AnswerKinds) /\ "idle" \notin marks
    BY <1>1, <2>1 DEF LeasedTo, Quiet
  <2>4. Without(toHub, {"idle"})
    BY <2>3 DEF Without, AnswerKinds
  <2> HIDE DEF q, x
  <2> QED BY <2>1, <2>2, <2>3, <2>4 DEF LeasedTo
<1> HIDE DEF q, x
<1>7. ChannelOK(hub, h, marks, q, "busy", x, toHub)
  BY <1>1, <1>3, <1>4, <1>5, <1>6 DEF ChannelOK
<1> QED BY <1>1, <1>7 DEF q, x

LEMMA ChannelAnswers ==
    ASSUME NEW hub \in HubStates, NEW h, NEW marks, NEW toNode \in Seq(Frames),
           NEW flow, NEW toHub \in Seq(Frames), NEW f \in Frames,
           f.kind \in {"response", "switch", "response-end"}, f.flow = flow, hub # "none",
           ChannelOK(hub, h, marks, toNode, "busy", flow, toHub)
    PROVE  ChannelOK(hub, h, marks, toNode, "busy", flow, Append(toHub, f))
<1> DEFINE q == Append(toHub, f)
<1>1. hub = "busy"
  BY DEF ChannelOK, Quiet, HubStates
<1>2. LeasedTo(h, marks, toNode, "busy", flow, toHub)
  BY <1>1 DEF ChannelOK
<1>3. f.kind # "idle" /\ f.kind \in AnswerKinds /\ f.flow = h
  BY <1>2 DEF LeasedTo, AnswerKinds
<1>4. AnswersOnly(q, h) /\ IdleIsLast(q)
  BY <1>2, <1>3, AnswersQueue DEF LeasedTo
<1>5. Without(q, {"idle"})
  BY <1>2, <1>3, WithoutQueue DEF LeasedTo
<1>6. "idle" \notin marks
  BY <1>2 DEF LeasedTo, Quiet
<1>7. PresentAtHub(toNode, "busy", q)
  BY <1>1, <1>3, AnswersQueue DEF ChannelOK, PresentAtHub
<1> HIDE DEF q
<1>8. LeasedTo(h, marks, toNode, "busy", flow, q)
  BY <1>2, <1>4, <1>5, <1>6 DEF LeasedTo
<1>9. ChannelOK(hub, h, marks, toNode, "busy", flow, q)
  BY <1>1, <1>7, <1>8 DEF ChannelOK
<1> QED BY <1>9 DEF q

LEMMA ChannelAborts ==
    ASSUME NEW hub \in HubStates, NEW h, NEW marks, NEW toNode \in Seq(Frames), NEW state \in NodeStates,
           NEW flow, NEW toHub \in Seq(Frames), NEW f \in Frames, f.kind = "abort", hub # "none", state # "none",
           ChannelOK(hub, h, marks, toNode, state, flow, toHub)
    PROVE  ChannelOK(hub, h, marks, toNode, state, flow, Append(toHub, f))
<1> DEFINE q == Append(toHub, f)
<1>1. f.kind \notin AnswerKinds /\ f.kind # "idle"
  BY DEF AnswerKinds
<1>2. /\ Without(toHub, AnswerKinds) => Without(q, AnswerKinds)
      /\ Without(toHub, {"idle"}) => Without(q, {"idle"})
  BY <1>1, WithoutQueue
<1>3. PresentAtHub(toNode, state, q)
  BY AnswersQueue DEF ChannelOK, PresentAtHub
<1>4. ASSUME hub = "busy" PROVE LeasedTo(h, marks, toNode, state, flow, q)
  <2>1. LeasedTo(h, marks, toNode, state, flow, toHub)
    BY <1>4 DEF ChannelOK
  <2>2. AnswersOnly(q, h) /\ IdleIsLast(q)
    BY <1>1, <2>1, AnswersQueue DEF LeasedTo
  <2> HIDE DEF q
  <2> QED BY <1>2, <2>1, <2>2 DEF LeasedTo, Quiet
<1>5. ASSUME hub = "idle" PROVE Quiet(toNode, state, q)
  BY <1>2, <1>5 DEF ChannelOK, Quiet
<1> HIDE DEF q
<1>6. ChannelOK(hub, h, marks, toNode, state, flow, q)
  BY <1>3, <1>4, <1>5 DEF ChannelOK
<1> QED BY <1>6 DEF q

LEMMA ChannelReportsIdle ==
    ASSUME NEW hub \in HubStates, NEW h, NEW marks, NEW toNode \in Seq(Frames),
           NEW flow, NEW toHub \in Seq(Frames), NEW others \in Seq(Frames),
           ChannelOK(hub, h, marks, toNode, "busy", flow, toHub),
           others = IF hub = "none" THEN toHub
                    ELSE Append(Append(toHub, F("response-end", flow)), F("idle", flow))
    PROVE  ChannelOK(hub, h, marks, toNode, "idle", None, others)
<1> DEFINE e == F("response-end", flow)
           f == F("idle", flow)
<1>1. /\ flow \in Flows /\ None \notin Flows
      /\ e \in Frames /\ f \in Frames /\ e.kind = "response-end" /\ f.kind = "idle" /\ e.flow = flow /\ f.flow = flow
  BY ChannelAssumption DEF F, Frames, FrameKinds, ChannelOK
<1>2. CASE hub = "none"
  <2>1. AbsentAtHub(toNode, "idle", toHub)
    BY <1>2 DEF ChannelOK, AbsentAtHub
  <2> QED BY <1>1, <1>2, <2>1 DEF ChannelOK
<1>3. CASE hub # "none"
  <2> DEFINE p == Append(toHub, e)
  <2> HIDE DEF e, f
  <2>1. ChannelOK(hub, h, marks, toNode, "busy", flow, p) /\ p \in Seq(Frames)
    BY <1>1, <1>3, ChannelAnswers, AppendFrame
  <2>2. hub = "busy"
    BY <1>3 DEF ChannelOK, Quiet, HubStates
  <2>3. others = Append(p, f)
    BY <1>3 DEF e, f
  <2> HIDE DEF p
  <2>4. LeasedTo(h, marks, toNode, "busy", flow, p)
    BY <2>1, <2>2 DEF ChannelOK
  <2>5. AnswersOnly(others, h) /\ IdleIsLast(others)
    BY <1>1, <2>1, <2>3, <2>4, AnswersQueue DEF LeasedTo
  <2>6. "idle" \notin marks
    BY <2>4 DEF LeasedTo, Quiet
  <2>7. LeasedTo(h, marks, toNode, "idle", None, others)
    BY <2>4, <2>5, <2>6 DEF LeasedTo
  <2>8. PresentAtHub(toNode, "idle", others)
    BY <1>1, <2>1, <2>2, <2>3, AnswersQueue DEF ChannelOK, PresentAtHub, AnswerKinds
  <2> QED BY <1>1, <2>1, <2>2, <2>7, <2>8 DEF ChannelOK
<1> QED BY <1>2, <1>3

-----------------------------------------------------------------------------
(* The Hub *)

Managers ==
    [state : [Chans -> HubStates], gen : [Chans -> 0 .. MaxSessions], holder : [Chans -> Flows \cup {None}],
     out : [Chans -> Seq(Frames)], stage : [Flows -> Stages], chan : [Flows -> Chans \cup {0}],
     marks : [Flows -> SUBSET Marks]]

Steps == {"none", "requested", "responding", "upgraded"}
Pools ==
    [session : 0 .. MaxSessions, stopped : BOOLEAN, state : [Chans -> NodeStates],
     flow : [Chans -> Flows \cup {None}], step : [Chans -> Steps], out : [Chans -> Seq(Frames)]]

MarksOf(m, h) == IF h \in Flows THEN m.marks[h] ELSE {}

(* What is left for the Hub to read when it goes to m.                     *)
ToHub(m, sent, c) == IF mgr.state[c] # "none" /\ m.state[c] = "none" THEN <<>> ELSE sent[c]

ChannelAt(m, sent, c) ==
    ChannelOK(m.state[c], m.holder[c], MarksOf(m, m.holder[c]), m.out[c],
              node.state[c], node.flow[c], ToHub(m, sent, c))

(* A flow refers to a channel that lives.  An HTTP flow may have lost its  *)
(* lease to another flow by an early answer, a WebSocket flow never has.   *)
FlowAt(m, r) ==
    /\ m.chan[r] # 0 => m.state[m.chan[r]] # "none" /\ m.stage[r] \notin {"new", "waiting"}
    /\ m.stage[r] \in {"new", "waiting"} => "idle" \notin m.marks[r]
    /\ mode[r] = "websocket" /\ m.chan[r] # 0 => m.holder[m.chan[r]] = r
    /\ mode[r] = "http" /\ "idle" \in m.marks[r] => \A c \in Chans : m.holder[c] # r

HolderAt(m, c) == m.holder[c] \in Flows => m.chan[m.holder[c]] = c

BoundTo(m, s) ==
    /\ \A c \in Chans : m.state[c] # "none" => s # 0 /\ m.gen[c] = s
    /\ \A r \in Flows : m.stage[r] = "waiting" => s # 0

NoneWaits(m) == \A r \in Flows, c \in Chans : m.stage[r] = "waiting" => m.state[c] # "idle"

HubSound(m, sent, s) ==
    /\ m \in Managers /\ sent \in [Chans -> Seq(Frames)]
    /\ \A c \in Chans : ChannelAt(m, sent, c) /\ HolderAt(m, c)
    /\ \A r \in Flows : FlowAt(m, r)
    /\ BoundTo(m, s)

HubOK(m, sent, s) == HubSound(m, sent, s) /\ NoneWaits(m)

(* No channel of m is new.                                                 *)
Within(m) == \A c \in Chans : m.state[c] # "none" => mgr.state[c] # "none"

Open(m, S) == {c \in S : m.state[c] # "none"}
Cut(m, S) == {m.holder[c] : c \in Open(m, S)} \ {None}

LEMMA RecordFields ==
    ASSUME NEW A, NEW B, NEW C, NEW D, NEW E, NEW G, NEW H,
           NEW m \in [state : A, gen : B, holder : C, out : D, stage : E, chan : G, marks : H],
           NEW st \in A, NEW ge \in B, NEW ho \in C, NEW ou \in D, NEW sg \in E, NEW ch \in G, NEW ma \in H
    PROVE  [m EXCEPT !.state = st, !.gen = ge, !.holder = ho, !.out = ou, !.chan = ch, !.stage = sg, !.marks = ma]
             \in [state : A, gen : B, holder : C, out : D, stage : E, chan : G, marks : H]
  OBVIOUS

LEMMA CloseChannelsIs ==
    ASSUME NEW m \in Managers, NEW S \in SUBSET Chans
    PROVE  LET k == CloseChannels(m, S) IN
           /\ k \in Managers
           /\ \A c \in Open(m, S) :
                 /\ k.state[c] = "none" /\ k.holder[c] = None /\ k.gen[c] = 0
                 /\ k.out[c] = IF node.state[c] = "none" THEN <<>> ELSE Append(m.out[c], Fin)
           /\ \A c \in Chans \ Open(m, S) :
                 /\ k.state[c] = m.state[c] /\ k.holder[c] = m.holder[c] /\ k.gen[c] = m.gen[c]
                 /\ k.out[c] = m.out[c]
           /\ \A r \in Flows :
                 /\ k.chan[r] = IF m.chan[r] \in Open(m, S) THEN 0 ELSE m.chan[r]
                 /\ k.stage[r] = IF r \in Cut(m, S) /\ m.stage[r] # "sending" THEN "over" ELSE m.stage[r]
                 /\ k.marks[r] = IF r \in Cut(m, S) THEN {} ELSE m.marks[r]
<1> DEFINE k == CloseChannels(m, S)
           open == Open(m, S)
           cut == Cut(m, S)
<1>1. k = [m EXCEPT
              !.state = [c \in Chans |-> IF c \in open THEN "none" ELSE m.state[c]],
              !.gen = [c \in Chans |-> IF c \in open THEN 0 ELSE m.gen[c]],
              !.holder = [c \in Chans |-> IF c \in open THEN None ELSE m.holder[c]],
              !.out = [c \in Chans |-> IF c \notin open THEN m.out[c]
                                      ELSE IF node.state[c] = "none" THEN <<>> ELSE Append(m.out[c], Fin)],
              !.chan = [r \in Flows |-> IF m.chan[r] \in open THEN 0 ELSE m.chan[r]],
              !.stage = [r \in Flows |-> IF r \in cut /\ m.stage[r] # "sending" THEN "over" ELSE m.stage[r]],
              !.marks = [r \in Flows |-> IF r \in cut THEN {} ELSE m.marks[r]]]
  BY Zenon DEF CloseChannels, Open, Cut
<1>2. open \in SUBSET Chans
  BY DEF Open
<1> HIDE DEF k, open, cut
<1>3. [c \in Chans |-> IF c \in open THEN "none" ELSE m.state[c]] \in [Chans -> HubStates]
  BY DEF Managers, HubStates
<1>4. [c \in Chans |-> IF c \in open THEN 0 ELSE m.gen[c]] \in [Chans -> 0 .. MaxSessions]
  BY ChannelAssumption, SMT DEF Managers
<1>5. [c \in Chans |-> IF c \in open THEN None ELSE m.holder[c]] \in [Chans -> Flows \cup {None}]
  BY DEF Managers
<1>6. [c \in Chans |-> IF c \notin open THEN m.out[c]
                       ELSE IF node.state[c] = "none" THEN <<>> ELSE Append(m.out[c], Fin)]
        \in [Chans -> Seq(Frames)]
  <2> SUFFICES ASSUME NEW c \in Chans
               PROVE  (IF c \notin open THEN m.out[c]
                       ELSE IF node.state[c] = "none" THEN <<>> ELSE Append(m.out[c], Fin)) \in Seq(Frames)
    OBVIOUS
  <2>1. m.out[c] \in Seq(Frames)
    BY DEF Managers
  <2> QED BY <2>1, FinAtEnd, AppendFrame, EmptyQueue
<1>7. [r \in Flows |-> IF r \in cut /\ m.stage[r] # "sending" THEN "over" ELSE m.stage[r]] \in [Flows -> Stages]
  BY DEF Managers, Stages
<1>8. [r \in Flows |-> IF m.chan[r] \in open THEN 0 ELSE m.chan[r]] \in [Flows -> Chans \cup {0}]
  BY DEF Managers
<1>9. [r \in Flows |-> IF r \in cut THEN {} ELSE m.marks[r]] \in [Flows -> SUBSET Marks]
  BY DEF Managers
<1> DEFINE st == [c \in Chans |-> IF c \in open THEN "none" ELSE m.state[c]]
           ge == [c \in Chans |-> IF c \in open THEN 0 ELSE m.gen[c]]
           ho == [c \in Chans |-> IF c \in open THEN None ELSE m.holder[c]]
           ou == [c \in Chans |-> IF c \notin open THEN m.out[c]
                                 ELSE IF node.state[c] = "none" THEN <<>> ELSE Append(m.out[c], Fin)]
           ch == [r \in Flows |-> IF m.chan[r] \in open THEN 0 ELSE m.chan[r]]
           sg == [r \in Flows |-> IF r \in cut /\ m.stage[r] # "sending" THEN "over" ELSE m.stage[r]]
           ma == [r \in Flows |-> IF r \in cut THEN {} ELSE m.marks[r]]
<1>9a. /\ k \in Managers
       /\ k.state = st /\ k.gen = ge /\ k.holder = ho /\ k.out = ou
       /\ k.chan = ch /\ k.stage = sg /\ k.marks = ma
  <2> HIDE DEF st, ge, ho, ou, ch, sg, ma
  <2>1. k = [m EXCEPT !.state = st, !.gen = ge, !.holder = ho, !.out = ou, !.chan = ch, !.stage = sg, !.marks = ma]
    BY <1>1 DEF st, ge, ho, ou, ch, sg, ma
  <2>2. /\ st \in [Chans -> HubStates] /\ ge \in [Chans -> 0 .. MaxSessions]
        /\ ho \in [Chans -> Flows \cup {None}] /\ ou \in [Chans -> Seq(Frames)]
        /\ ch \in [Flows -> Chans \cup {0}] /\ sg \in [Flows -> Stages] /\ ma \in [Flows -> SUBSET Marks]
    BY <1>3, <1>4, <1>5, <1>6, <1>7, <1>8, <1>9 DEF st, ge, ho, ou, ch, sg, ma
  <2>3. k \in Managers
    BY <2>1, <2>2, RecordFields, Zenon DEF Managers
  <2>4. /\ k.state = st /\ k.gen = ge /\ k.holder = ho /\ k.out = ou
        /\ k.chan = ch /\ k.stage = sg /\ k.marks = ma
    BY <2>1 DEF Managers
  <2> QED BY <2>3, <2>4
<1>10. /\ k \in Managers
       /\ k.state = [c \in Chans |-> IF c \in open THEN "none" ELSE m.state[c]]
       /\ k.gen = [c \in Chans |-> IF c \in open THEN 0 ELSE m.gen[c]]
       /\ k.holder = [c \in Chans |-> IF c \in open THEN None ELSE m.holder[c]]
       /\ k.out = [c \in Chans |-> IF c \notin open THEN m.out[c]
                                   ELSE IF node.state[c] = "none" THEN <<>> ELSE Append(m.out[c], Fin)]
       /\ k.chan = [r \in Flows |-> IF m.chan[r] \in open THEN 0 ELSE m.chan[r]]
       /\ k.stage = [r \in Flows |-> IF r \in cut /\ m.stage[r] # "sending" THEN "over" ELSE m.stage[r]]
       /\ k.marks = [r \in Flows |-> IF r \in cut THEN {} ELSE m.marks[r]]
  BY <1>9a
<1>11. \A c \in open :
          /\ k.state[c] = "none" /\ k.holder[c] = None /\ k.gen[c] = 0
          /\ k.out[c] = IF node.state[c] = "none" THEN <<>> ELSE Append(m.out[c], Fin)
  BY <1>10, <1>2
<1>12. \A c \in Chans \ open :
          /\ k.state[c] = m.state[c] /\ k.holder[c] = m.holder[c] /\ k.gen[c] = m.gen[c]
          /\ k.out[c] = m.out[c]
  BY <1>10
<1>13. \A r \in Flows :
          /\ k.chan[r] = IF m.chan[r] \in open THEN 0 ELSE m.chan[r]
          /\ k.stage[r] = IF r \in cut /\ m.stage[r] # "sending" THEN "over" ELSE m.stage[r]
          /\ k.marks[r] = IF r \in cut THEN {} ELSE m.marks[r]
  BY <1>10
<1> QED BY <1>10, <1>11, <1>12, <1>13 DEF k, open, cut

LEMMA CloseChannelsOK ==
    ASSUME NEW m, NEW sent, NEW s, HubOK(m, sent, s), Within(m), node \in Pools,
           NEW S \in SUBSET Chans
    PROVE  /\ HubOK(CloseChannels(m, S), sent, s) /\ Within(CloseChannels(m, S))
           /\ \A c \in S : CloseChannels(m, S).state[c] = "none"
<1> PICK k : k = CloseChannels(m, S)
  OBVIOUS
<1> PICK open : open = Open(m, S)
  OBVIOUS
<1> PICK cut : cut = Cut(m, S)
  OBVIOUS
<1>0. m \in Managers /\ sent \in [Chans -> Seq(Frames)] /\ None \notin Flows
  BY ChannelAssumption DEF HubOK, HubSound
<1>1. /\ k \in Managers
      /\ \A c \in open :
            /\ k.state[c] = "none" /\ k.holder[c] = None /\ k.gen[c] = 0
            /\ k.out[c] = IF node.state[c] = "none" THEN <<>> ELSE Append(m.out[c], Fin)
      /\ \A c \in Chans \ open :
            /\ k.state[c] = m.state[c] /\ k.holder[c] = m.holder[c] /\ k.gen[c] = m.gen[c]
            /\ k.out[c] = m.out[c]
      /\ \A r \in Flows :
            /\ k.chan[r] = IF m.chan[r] \in open THEN 0 ELSE m.chan[r]
            /\ k.stage[r] = IF r \in cut /\ m.stage[r] # "sending" THEN "over" ELSE m.stage[r]
            /\ k.marks[r] = IF r \in cut THEN {} ELSE m.marks[r]
  BY <1>0, CloseChannelsIs
<1>2. /\ \A c \in S : c \notin open => m.state[c] = "none"
      /\ \A c \in open : c \in Chans /\ m.state[c] # "none"
      /\ \A r \in cut : \E c \in open : r = m.holder[c]
  BY DEF Open, Cut
<1>3. \A c \in S : k.state[c] = "none"
  BY <1>1, <1>2
<1>4. Within(k)
  BY <1>1, <1>2 DEF Within
<1>5. ASSUME NEW c \in Chans PROVE ChannelAt(k, sent, c)
  <2>1. /\ ChannelOK(m.state[c], m.holder[c], MarksOf(m, m.holder[c]), m.out[c],
                     node.state[c], node.flow[c], ToHub(m, sent, c))
        /\ m.state[c] \in HubStates /\ m.out[c] \in Seq(Frames) /\ ToHub(m, sent, c) \in Seq(Frames)
        /\ node.state[c] \in NodeStates
    <3>1. ToHub(m, sent, c) \in Seq(Frames)
      BY <1>0, EmptyQueue DEF ToHub
    <3> QED BY <1>0, <3>1 DEF HubOK, HubSound, ChannelAt, Managers, Pools
  <2>2. CASE c \in open
    <3>1. ChannelOK("none", None, {}, IF node.state[c] = "none" THEN <<>> ELSE Append(m.out[c], Fin),
                    node.state[c], node.flow[c], <<>>)
      BY <2>1, <2>2, <1>2, ChannelCloses
    <3>2. ToHub(k, sent, c) = <<>>
      BY <2>2, <1>1, <1>2 DEF ToHub, Within
    <3>3. MarksOf(k, None) = {}
      BY <1>0 DEF MarksOf
    <3> QED BY <3>1, <3>2, <3>3, <2>2, <1>1 DEF ChannelAt
  <2>3. CASE c \notin open
    <3>1. ToHub(k, sent, c) = ToHub(m, sent, c)
      BY <2>3, <1>1 DEF ToHub
    <3>2. m.holder[c] \in Flows => m.holder[c] \notin cut
      <4> SUFFICES ASSUME m.holder[c] \in Flows, m.holder[c] \in cut PROVE FALSE
        OBVIOUS
      <4>1. PICK d \in open : m.holder[c] = m.holder[d]
        BY <1>2
      <4>2. m.chan[m.holder[c]] = c /\ m.chan[m.holder[d]] = d
        BY <1>2, <4>1 DEF HubOK, HubSound, HolderAt
      <4> QED BY <4>1, <4>2, <2>3
    <3>3. MarksOf(k, m.holder[c]) = MarksOf(m, m.holder[c])
      BY <1>1, <3>2 DEF MarksOf
    <3> QED BY <2>1, <2>3, <3>1, <3>3, <1>1 DEF ChannelAt
  <2> QED BY <2>2, <2>3
<1>6. ASSUME NEW c \in Chans PROVE HolderAt(k, c)
  BY <1>0, <1>1, <1>2 DEF HubOK, HubSound, HolderAt
<1>7. ASSUME NEW r \in Flows PROVE FlowAt(k, r)
  <2>1. FlowAt(m, r) /\ m.chan[r] \in Chans \cup {0}
    BY <1>0 DEF HubOK, HubSound, Managers
  <2>2. ASSUME k.chan[r] # 0
        PROVE  /\ k.chan[r] = m.chan[r] /\ m.chan[r] \in Chans \ open
               /\ k.state[k.chan[r]] = m.state[m.chan[r]] /\ k.holder[k.chan[r]] = m.holder[m.chan[r]]
    BY <2>1, <2>2, <1>1
  <2>3. k.stage[r] = "over" \/ k.stage[r] = m.stage[r]
    BY <1>1
  <2>4. k.marks[r] \subseteq m.marks[r]
    BY <1>1
  <2>5. \A c \in Chans : k.holder[c] = m.holder[c] \/ k.holder[c] = None
    BY <1>1
  <2> QED BY <2>1, <2>2, <2>3, <2>4, <2>5, <1>0 DEF FlowAt
<1>8. BoundTo(k, s)
  BY <1>1, <1>2 DEF HubOK, HubSound, BoundTo
<1>9. NoneWaits(k)
  BY <1>1, <1>2 DEF HubOK, NoneWaits
<1>10. HubOK(k, sent, s)
  BY <1>0, <1>1, <1>5, <1>6, <1>7, <1>8, <1>9 DEF HubOK, HubSound
<1> QED BY <1>3, <1>4, <1>10

OnlyFlows(m, k) ==
    /\ k \in Managers /\ k.state = m.state /\ k.gen = m.gen /\ k.holder = m.holder /\ k.out = m.out
    /\ k.chan = m.chan

(* Steps that concern flows only.                                          *)
LEMMA FlowsChange ==
    ASSUME NEW m, NEW sent, NEW s, HubOK(m, sent, s), node \in Pools, NEW k, OnlyFlows(m, k),
           \A r \in Flows : k.stage[r] = m.stage[r] \/ k.stage[r] \notin {"new", "waiting"},
           \A r \in Flows : "idle" \in k.marks[r] =>
              \/ "idle" \in m.marks[r]
              \/ /\ mode[r] = "websocket" /\ k.stage[r] \notin {"new", "waiting"}
                 /\ \A c \in Chans : m.holder[c] = r => Quiet(m.out[c], node.state[c], ToHub(m, sent, c))
    PROVE  HubOK(k, sent, s) /\ (Within(m) => Within(k))
<1>0. /\ m \in Managers /\ sent \in [Chans -> Seq(Frames)]
      /\ k \in Managers /\ k.state = m.state /\ k.gen = m.gen /\ k.holder = m.holder /\ k.out = m.out
      /\ k.chan = m.chan
  BY DEF HubOK, HubSound, OnlyFlows
<1>1. ASSUME NEW c \in Chans PROVE ChannelAt(k, sent, c) /\ HolderAt(k, c)
  <2>1. ChannelAt(m, sent, c) /\ HolderAt(m, c)
    BY DEF HubOK, HubSound
  <2>2. /\ m.state[c] \in HubStates /\ m.out[c] \in Seq(Frames) /\ ToHub(m, sent, c) \in Seq(Frames)
        /\ node.state[c] \in NodeStates /\ ToHub(k, sent, c) = ToHub(m, sent, c)
    BY <1>0, EmptyQueue DEF ToHub, Managers, Pools
  <2>3. "idle" \in MarksOf(k, m.holder[c]) =>
           "idle" \in MarksOf(m, m.holder[c]) \/ Quiet(m.out[c], node.state[c], ToHub(m, sent, c))
    BY DEF MarksOf
  <2>4. ChannelOK(m.state[c], m.holder[c], MarksOf(k, m.holder[c]), m.out[c],
                  node.state[c], node.flow[c], ToHub(m, sent, c))
    BY <2>1, <2>2, <2>3, ChannelMarks DEF ChannelAt
  <2>5. ChannelAt(k, sent, c)
    BY <1>0, <2>2, <2>4 DEF ChannelAt
  <2>6. HolderAt(k, c)
    BY <1>0, <2>1 DEF HolderAt
  <2> QED BY <2>5, <2>6
<1>2. ASSUME NEW r \in Flows PROVE FlowAt(k, r)
  <2>1. FlowAt(m, r)
    BY DEF HubOK, HubSound
  <2> QED BY <1>0, <2>1 DEF FlowAt
<1>3. BoundTo(k, s) /\ NoneWaits(k)
  <2>1. BoundTo(m, s) /\ NoneWaits(m)
    BY DEF HubOK, HubSound
  <2> QED BY <1>0, <2>1 DEF BoundTo, NoneWaits
<1> QED BY <1>0, <1>1, <1>2, <1>3 DEF HubOK, HubSound, Within

(* k is m with another stage and other marks of r.                         *)
FlowSet(m, k, r, x, S) ==
    /\ k \in Managers /\ k.state = m.state /\ k.gen = m.gen /\ k.holder = m.holder /\ k.out = m.out
    /\ k.chan = m.chan
    /\ k.stage[r] = x /\ k.marks[r] = S
    /\ \A q \in Flows \ {r} : k.stage[q] = m.stage[q] /\ k.marks[q] = m.marks[q]

LEMMA StageSet ==
    ASSUME NEW m \in Managers, NEW r \in Flows, NEW x \in Stages
    PROVE  FlowSet(m, [m EXCEPT !.stage[r] = x], r, x, m.marks[r])
  BY DEF Managers, FlowSet

LEMMA StageMarksSet ==
    ASSUME NEW m \in Managers, NEW r \in Flows, NEW x \in Stages, NEW S \in SUBSET Marks
    PROVE  FlowSet(m, [m EXCEPT !.stage[r] = x, !.marks[r] = S], r, x, S)
  BY DEF Managers, FlowSet

LEMMA MarkSet ==
    ASSUME NEW m \in Managers, NEW r \in Flows, NEW S \in SUBSET Marks
    PROVE  FlowSet(m, Mark(m, r, S), r, m.stage[r], m.marks[r] \cup S)
  BY DEF Managers, FlowSet, Mark

LEMMA FlowSetOK ==
    ASSUME NEW m, NEW sent, NEW s, HubOK(m, sent, s), node \in Pools, NEW k, NEW r \in Flows, NEW x, NEW S,
           FlowSet(m, k, r, x, S), x = m.stage[r] \/ x \notin {"new", "waiting"},
           "idle" \in S =>
              \/ "idle" \in m.marks[r]
              \/ /\ mode[r] = "websocket" /\ x \notin {"new", "waiting"}
                 /\ \A c \in Chans : m.holder[c] = r => Quiet(m.out[c], node.state[c], ToHub(m, sent, c))
    PROVE  HubOK(k, sent, s) /\ (Within(m) => Within(k))
<1>0. OnlyFlows(m, k)
  BY DEF FlowSet, OnlyFlows
<1>1. \A q \in Flows : k.stage[q] = m.stage[q] \/ k.stage[q] \notin {"new", "waiting"}
  BY DEF FlowSet
<1>2. \A q \in Flows : "idle" \in k.marks[q] =>
        \/ "idle" \in m.marks[q]
        \/ /\ mode[q] = "websocket" /\ k.stage[q] \notin {"new", "waiting"}
           /\ \A c \in Chans : m.holder[c] = q => Quiet(m.out[c], node.state[c], ToHub(m, sent, c))
  BY DEF FlowSet
<1> QED BY <1>0, <1>1, <1>2, FlowsChange

ToldKinds == {"body", "abort", "request-end"}

LEMMA SendIs ==
    ASSUME NEW m \in Managers, NEW c \in Chans, NEW f \in Frames
    PROVE  LET k == Send(m, c, <<f>>) IN
           /\ k \in Managers /\ k.state = m.state /\ k.gen = m.gen /\ k.holder = m.holder
           /\ k.stage = m.stage /\ k.chan = m.chan /\ k.marks = m.marks
           /\ k.out[c] = IF node.state[c] = "none" THEN m.out[c] ELSE Append(m.out[c], f)
           /\ \A d \in Chans \ {c} : k.out[d] = m.out[d]
<1>1. m.out[c] \in Seq(Frames)
  BY DEF Managers
<1>2. m.out[c] \o <<f>> = Append(m.out[c], f) /\ Append(m.out[c], f) \in Seq(Frames)
  BY <1>1, ConcatFrames, AppendFrame
<1> PICK q \in Seq(Frames) : q = m.out[c] \o <<f>>
  BY <1>2
<1>3. CASE node.state[c] = "none"
  BY <1>3 DEF Send
<1>4. CASE node.state[c] # "none"
  <2>1. Send(m, c, <<f>>) = [m EXCEPT !.out[c] = q]
    BY <1>4 DEF Send
  <2>2. LET k == [m EXCEPT !.out[c] = q] IN
           /\ k \in Managers /\ k.state = m.state /\ k.gen = m.gen /\ k.holder = m.holder
           /\ k.stage = m.stage /\ k.chan = m.chan /\ k.marks = m.marks
           /\ k.out[c] = q /\ \A d \in Chans \ {c} : k.out[d] = m.out[d]
    BY DEF Managers
  <2> QED BY <1>2, <1>4, <2>1, <2>2
<1> QED BY <1>3, <1>4

LEMMA SendOK ==
    ASSUME NEW m, NEW sent, NEW s, HubOK(m, sent, s), node \in Pools, NEW c \in Chans, m.state[c] # "none",
           NEW f \in Frames, f.kind \in ToldKinds
    PROVE  HubOK(Send(m, c, <<f>>), sent, s) /\ (Within(m) => Within(Send(m, c, <<f>>)))
<1> PICK k : k = Send(m, c, <<f>>)
  OBVIOUS
<1>0. m \in Managers /\ sent \in [Chans -> Seq(Frames)]
  BY DEF HubOK, HubSound
<1>1. /\ k \in Managers /\ k.state = m.state /\ k.gen = m.gen /\ k.holder = m.holder
      /\ k.stage = m.stage /\ k.chan = m.chan /\ k.marks = m.marks
      /\ k.out[c] = IF node.state[c] = "none" THEN m.out[c] ELSE Append(m.out[c], f)
      /\ \A d \in Chans \ {c} : k.out[d] = m.out[d]
  BY <1>0, SendIs
<1>2. ASSUME NEW d \in Chans PROVE ChannelAt(k, sent, d) /\ HolderAt(k, d)
  <2>1. ChannelAt(m, sent, d) /\ HolderAt(m, d)
    BY DEF HubOK, HubSound
  <2>2. /\ m.state[d] \in HubStates /\ m.out[d] \in Seq(Frames) /\ ToHub(m, sent, d) \in Seq(Frames)
        /\ node.state[d] \in NodeStates /\ ToHub(k, sent, d) = ToHub(m, sent, d)
    BY <1>0, <1>1, EmptyQueue DEF ToHub, Managers, Pools
  <2>3. MarksOf(k, k.holder[d]) = MarksOf(m, m.holder[d])
    BY <1>1 DEF MarksOf
  <2>4. ChannelOK(m.state[d], m.holder[d], MarksOf(m, m.holder[d]), k.out[d],
                  node.state[d], node.flow[d], ToHub(m, sent, d))
    <3>1. CASE d = c /\ node.state[c] # "none"
      <4>1. k.out[d] = Append(m.out[d], f)
        BY <1>1, <3>1
      <4>2. ChannelOK(m.state[d], m.holder[d], MarksOf(m, m.holder[d]), Append(m.out[d], f),
                      node.state[d], node.flow[d], ToHub(m, sent, d))
        BY <2>1, <2>2, <3>1, ChannelTold DEF ChannelAt, ToldKinds
      <4> QED BY <4>1, <4>2
    <3>2. CASE d # c \/ node.state[c] = "none"
      <4>1. k.out[d] = m.out[d]
        BY <1>1, <3>2
      <4> QED BY <2>1, <4>1 DEF ChannelAt
    <3> QED BY <3>1, <3>2
  <2>5. ChannelAt(k, sent, d)
    BY <1>1, <2>2, <2>3, <2>4 DEF ChannelAt
  <2>6. HolderAt(k, d)
    BY <1>1, <2>1 DEF HolderAt
  <2> QED BY <2>5, <2>6
<1>3. ASSUME NEW r \in Flows PROVE FlowAt(k, r)
  <2>1. FlowAt(m, r)
    BY DEF HubOK, HubSound
  <2> QED BY <1>1, <2>1 DEF FlowAt
<1>4. BoundTo(k, s) /\ NoneWaits(k)
  <2>1. BoundTo(m, s) /\ NoneWaits(m)
    BY DEF HubOK, HubSound
  <2> QED BY <1>1, <2>1 DEF BoundTo, NoneWaits
<1> QED BY <1>0, <1>1, <1>2, <1>3, <1>4 DEF HubOK, HubSound, Within

(* A flow that has no channel writes to nobody.                            *)
LEMMA SendNowhere ==
    ASSUME NEW m \in Managers, NEW frames
    PROVE  Send(m, 0, frames) = m
<1>1. 0 \notin Chans
  BY ChannelAssumption, SMT DEF Chans
<1>2. [m.out EXCEPT ![0] = m.out[0] \o frames] = m.out
  BY <1>1 DEF Managers
<1>3. [m EXCEPT !.out = m.out] = m
  BY DEF Managers
<1>4. [m EXCEPT !.out[0] = m.out[0] \o frames] = m
  BY <1>2, <1>3
<1> QED BY <1>4 DEF Send

LEMMA FailOK ==
    ASSUME NEW m, NEW sent, NEW s, HubOK(m, sent, s), Within(m), node \in Pools, NEW r \in Flows
    PROVE  HubOK(Fail(m, r), sent, s) /\ Within(Fail(m, r))
<1>1. m \in Managers /\ {m.chan[r]} \ {0} \in SUBSET Chans
  BY DEF HubOK, HubSound, Managers
<1> PICK k : k = CloseChannels(m, {m.chan[r]} \ {0})
  OBVIOUS
<1>2. HubOK(k, sent, s) /\ Within(k) /\ k \in Managers
  <2>1. HubOK(k, sent, s) /\ Within(k)
    BY <1>1, CloseChannelsOK
  <2> QED BY <2>1 DEF HubOK, HubSound
<1>3. "over" \in Stages /\ {} \in SUBSET Marks
  BY DEF Stages
<1> PICK l : l = [k EXCEPT !.stage[r] = "over", !.marks[r] = {}]
  OBVIOUS
<1>4. FlowSet(k, l, r, "over", {})
  BY <1>2, <1>3, StageMarksSet
<1>5. HubOK(l, sent, s) /\ Within(l)
  BY <1>2, <1>4, FlowSetOK
<1> QED BY <1>5 DEF Fail

LEMMA AbortOK ==
    ASSUME NEW m, NEW sent, NEW s, HubOK(m, sent, s), Within(m), node \in Pools, NEW r \in Flows
    PROVE  HubOK(Abort(m, r), sent, s) /\ Within(Abort(m, r))
<1>1. m \in Managers /\ m.chan[r] \in Chans \cup {0}
  BY DEF HubOK, HubSound, Managers
<1> PICK k : k = Send(m, m.chan[r], <<F("abort", r)>>)
  OBVIOUS
<1>2. HubOK(k, sent, s) /\ Within(k)
  <2>1. CASE m.chan[r] = 0
    BY <1>1, <2>1, SendNowhere
  <2>2. CASE m.chan[r] # 0
    <3>1. m.chan[r] \in Chans /\ m.state[m.chan[r]] # "none"
      BY <1>1, <2>2 DEF HubOK, HubSound, FlowAt
    <3>2. F("abort", r) \in Frames /\ F("abort", r).kind \in ToldKinds
      BY DEF F, Frames, FrameKinds, ToldKinds
    <3> QED BY <3>1, <3>2, SendOK
  <2> QED BY <2>1, <2>2
<1> QED BY <1>2, FailOK DEF Abort

OutSet(m, k, c, q) ==
    /\ k \in Managers /\ k.state = m.state /\ k.gen = m.gen /\ k.holder = m.holder
    /\ k.stage = m.stage /\ k.chan = m.chan /\ k.marks = m.marks
    /\ k.out[c] = q /\ \A d \in Chans \ {c} : k.out[d] = m.out[d]

LEMMA OutIs ==
    ASSUME NEW m \in Managers, NEW c \in Chans, NEW q \in Seq(Frames)
    PROVE  OutSet(m, [m EXCEPT !.out[c] = q], c, q)
  BY DEF Managers, OutSet

(* k is m after r has been given channel c.                                *)
LeaseSet(m, k, r, c) ==
    /\ k \in Managers /\ k.gen = m.gen /\ k.marks = m.marks
    /\ k.state[c] = "busy" /\ k.holder[c] = r /\ k.chan[r] = c /\ k.stage[r] \in {"sending", "awaiting"}
    /\ k.out[c] = IF node.state[c] = "none" THEN m.out[c]
                  ELSE IF mode[r] = "http" THEN Append(m.out[c], F("open", r))
                  ELSE Append(Append(m.out[c], F("open", r)), F("request-end", r))
    /\ \A d \in Chans \ {c} : k.state[d] = m.state[d] /\ k.holder[d] = m.holder[d] /\ k.out[d] = m.out[d]
    /\ \A q \in Flows \ {r} : k.stage[q] = m.stage[q] /\ k.chan[q] = m.chan[q]

LEMMA LeaseIs ==
    ASSUME NEW m \in Managers, NEW r \in Flows, NEW c \in Chans
    PROVE  LeaseSet(m, Lease(m, r, c), r, c)
<1> PICK x : x = IF mode[r] = "http" THEN "sending" ELSE "awaiting"
  OBVIOUS
<1>1. x \in {"sending", "awaiting"} /\ x \in Stages
  BY DEF Stages
<1> PICK l : l = [m EXCEPT !.state[c] = "busy", !.holder[c] = r, !.chan[r] = c, !.stage[r] = x]
  OBVIOUS
<1>2. /\ l \in Managers /\ l.gen = m.gen /\ l.marks = m.marks /\ l.out = m.out
      /\ l.state[c] = "busy" /\ l.holder[c] = r /\ l.chan[r] = c /\ l.stage[r] = x
      /\ \A d \in Chans \ {c} : l.state[d] = m.state[d] /\ l.holder[d] = m.holder[d]
      /\ \A q \in Flows \ {r} : l.stage[q] = m.stage[q] /\ l.chan[q] = m.chan[q]
  BY <1>1 DEF Managers, HubStates
<1>3. F("open", r) \in Frames /\ F("request-end", r) \in Frames
  BY DEF F, Frames, FrameKinds
<1>4. m.out[c] \in Seq(Frames)
  BY DEF Managers
<1> PICK q \in Seq(Frames) :
      q = IF mode[r] = "http" THEN Append(m.out[c], F("open", r))
          ELSE Append(Append(m.out[c], F("open", r)), F("request-end", r))
  <2>1. Append(m.out[c], F("open", r)) \in Seq(Frames)
    BY <1>3, <1>4, AppendFrame
  <2>2. Append(Append(m.out[c], F("open", r)), F("request-end", r)) \in Seq(Frames)
    BY <1>3, <2>1, AppendFrame
  <2> QED BY <2>1, <2>2
<1>5. m.out[c] \o OpenFrames(r) = q
  <2>1. m.out[c] \o <<F("open", r)>> = Append(m.out[c], F("open", r))
    BY <1>3, <1>4, ConcatFrames
  <2>2. m.out[c] \o <<F("open", r), F("request-end", r)>>
          = Append(Append(m.out[c], F("open", r)), F("request-end", r))
    BY <1>3, <1>4, ConcatFrames
  <2> QED BY <2>1, <2>2, Zenon DEF OpenFrames
<1>6. Lease(m, r, c) = Send(l, c, OpenFrames(r))
  BY Zenon DEF Lease
<1>7. CASE node.state[c] = "none"
  <2>1. Lease(m, r, c) = l
    BY <1>6, <1>7 DEF Send
  <2> QED BY <1>1, <1>2, <1>7, <2>1 DEF LeaseSet
<1>8. CASE node.state[c] # "none"
  <2>1. Lease(m, r, c) = [l EXCEPT !.out[c] = q]
    BY <1>2, <1>5, <1>6, <1>8 DEF Send
  <2> PICK k : k = [l EXCEPT !.out[c] = q]
    OBVIOUS
  <2>2. OutSet(l, k, c, q)
    BY <1>2, OutIs
  <2>3. LeaseSet(m, k, r, c)
    BY <1>1, <1>2, <1>8, <2>2 DEF LeaseSet, OutSet
  <2> QED BY <2>1, <2>3
<1> QED BY <1>7, <1>8

LEMMA LeaseOK ==
    ASSUME NEW m, NEW sent, NEW s, HubSound(m, sent, s), node \in Pools, mode \in [Flows -> {"http", "websocket"}],
           NEW c \in Chans, m.state[c] = "idle", NEW r \in Flows, m.stage[r] \in {"new", "waiting"},
           \A q \in Flows, d \in Chans : q # r /\ m.stage[q] = "waiting" /\ d # c => m.state[d] # "idle"
    PROVE  HubOK(Lease(m, r, c), sent, s) /\ (Within(m) => Within(Lease(m, r, c)))
<1> PICK k : k = Lease(m, r, c)
  OBVIOUS
<1>0. /\ m \in Managers /\ sent \in [Chans -> Seq(Frames)]
      /\ \A d \in Chans : ChannelAt(m, sent, d) /\ HolderAt(m, d)
      /\ \A q \in Flows : FlowAt(m, q)
      /\ BoundTo(m, s)
  BY DEF HubSound
<1>1. LeaseSet(m, k, r, c)
  BY <1>0, LeaseIs
<1>2. m.chan[r] = 0 /\ "idle" \notin m.marks[r] /\ m.holder[c] \notin Flows
  <2>1. m.chan[r] = 0 /\ "idle" \notin m.marks[r]
    BY <1>0 DEF FlowAt
  <2>2. m.holder[c] \notin Flows
    BY <1>0 DEF ChannelAt, ChannelOK
  <2> QED BY <2>1, <2>2
<1>3. ASSUME NEW d \in Chans PROVE ChannelAt(k, sent, d)
  <2>1. /\ ChannelOK(m.state[d], m.holder[d], MarksOf(m, m.holder[d]), m.out[d],
                     node.state[d], node.flow[d], ToHub(m, sent, d))
        /\ m.state[d] \in HubStates /\ m.out[d] \in Seq(Frames) /\ ToHub(m, sent, d) \in Seq(Frames)
        /\ node.state[d] \in NodeStates
    <3>1. ToHub(m, sent, d) \in Seq(Frames)
      BY <1>0, EmptyQueue DEF ToHub
    <3> QED BY <1>0, <3>1 DEF ChannelAt, Managers, Pools
  <2>2. ToHub(k, sent, d) = ToHub(m, sent, d)
    BY <1>1 DEF ToHub, LeaseSet
  <2>3. CASE d = c
    <3>1. MarksOf(k, r) = m.marks[r]
      BY <1>1 DEF MarksOf, LeaseSet
    <3> PICK q1 : q1 = IF node.state[c] = "none" THEN m.out[c] ELSE Append(m.out[c], F("open", r))
      OBVIOUS
    <3>2. ChannelOK("busy", r, m.marks[r], q1, node.state[c], node.flow[c], ToHub(m, sent, c))
      <4> PICK h, ma, qN : h = m.holder[c] /\ ma = MarksOf(m, m.holder[c]) /\ qN = ToHub(m, sent, c)
        OBVIOUS
      <4>1. /\ ChannelOK("idle", h, ma, m.out[c], node.state[c], node.flow[c], qN)
            /\ m.out[c] \in Seq(Frames) /\ node.state[c] \in NodeStates /\ qN \in Seq(Frames)
        BY <2>1, <2>3
      <4>2. ChannelOK("busy", r, m.marks[r],
                      IF node.state[c] = "none" THEN m.out[c] ELSE Append(m.out[c], F("open", r)),
                      node.state[c], node.flow[c], qN)
        BY <4>1, <1>2, ChannelLeases
      <4> QED BY <4>2
    <3>3. CASE node.state[c] = "none" \/ mode[r] = "http"
      <4>1. k.out[c] = q1
        BY <1>1, <3>3 DEF LeaseSet
      <4> QED BY <1>1, <2>2, <2>3, <3>1, <3>2, <4>1 DEF ChannelAt, LeaseSet
    <3>4. CASE node.state[c] # "none" /\ mode[r] # "http"
      <4>1. F("request-end", r) \in Frames /\ F("request-end", r).kind = "request-end" /\ F("open", r) \in Frames
        BY DEF F, Frames, FrameKinds
      <4>2. q1 \in Seq(Frames) /\ k.out[c] = Append(q1, F("request-end", r))
        BY <1>1, <2>1, <2>3, <3>4, <4>1, AppendFrame DEF LeaseSet
      <4>3. ChannelOK("busy", r, m.marks[r], Append(q1, F("request-end", r)),
                      node.state[c], node.flow[c], ToHub(m, sent, c))
        BY <2>1, <2>3, <3>2, <3>4, <4>1, <4>2, ChannelTold DEF HubStates
      <4> QED BY <1>1, <2>2, <2>3, <3>1, <4>2, <4>3 DEF ChannelAt, LeaseSet
    <3> QED BY <3>3, <3>4
  <2>4. CASE d # c
    <3>1. /\ k.state[d] = m.state[d] /\ k.holder[d] = m.holder[d] /\ k.out[d] = m.out[d]
          /\ MarksOf(k, k.holder[d]) = MarksOf(m, m.holder[d])
      BY <1>1, <2>4 DEF LeaseSet, MarksOf
    <3> QED BY <2>1, <2>2, <3>1 DEF ChannelAt
  <2> QED BY <2>3, <2>4
<1>4. ASSUME NEW d \in Chans PROVE HolderAt(k, d)
  <2>0. 0 \notin Chans
    BY ChannelAssumption, SMT DEF Chans
  <2>1. HolderAt(m, d)
    BY <1>0
  <2>2. CASE d = c
    BY <1>1, <2>2 DEF HolderAt, LeaseSet
  <2>3. CASE d # c
    <3>1. k.holder[d] = m.holder[d] /\ (m.holder[d] \in Flows => m.holder[d] # r)
      BY <1>1, <1>2, <2>0, <2>1, <2>3 DEF HolderAt, LeaseSet
    <3> QED BY <1>1, <2>1, <3>1 DEF HolderAt, LeaseSet
  <2> QED BY <2>2, <2>3
<1>5. ASSUME NEW q \in Flows PROVE FlowAt(k, q)
  <2>0. FlowAt(m, q) /\ m.chan[q] \in Chans \cup {0}
    BY <1>0 DEF Managers
  <2>1. CASE q = r
    BY <1>1, <1>2, <2>1 DEF FlowAt, LeaseSet
  <2>2. CASE q # r
    <3>1. k.chan[q] = m.chan[q] /\ k.stage[q] = m.stage[q] /\ k.marks[q] = m.marks[q]
      BY <1>1, <2>2 DEF LeaseSet
    <3>2. m.chan[q] # 0 => k.state[m.chan[q]] # "none"
      BY <1>1, <2>0 DEF FlowAt, LeaseSet
    <3>3. mode[q] = "websocket" /\ m.chan[q] # 0 => k.holder[m.chan[q]] = q
      BY <1>1, <1>2, <2>0 DEF FlowAt, LeaseSet
    <3>4. \A d \in Chans : k.holder[d] = q => m.holder[d] = q
      BY <1>1, <2>2 DEF LeaseSet
    <3> QED BY <2>0, <3>1, <3>2, <3>3, <3>4 DEF FlowAt
  <2> QED BY <2>1, <2>2
<1>6. BoundTo(k, s)
  BY <1>0, <1>1 DEF BoundTo, LeaseSet
<1>7. NoneWaits(k)
  BY <1>1 DEF NoneWaits, LeaseSet
<1>8. Within(m) => Within(k)
  BY <1>1 DEF Within, LeaseSet
<1>9. k \in Managers
  BY <1>1 DEF LeaseSet
<1> QED BY <1>0, <1>3, <1>4, <1>5, <1>6, <1>7, <1>8, <1>9 DEF HubOK, HubSound

FreeOf(m, c) == [m EXCEPT !.state[c] = "idle", !.holder[c] = None]

(* k is m with c idle.                                                     *)
FreeSet(m, k, c) ==
    /\ k \in Managers /\ k.gen = m.gen /\ k.marks = m.marks /\ k.stage = m.stage /\ k.chan = m.chan /\ k.out = m.out
    /\ k.state[c] = "idle" /\ k.holder[c] = None
    /\ \A d \in Chans \ {c} : k.state[d] = m.state[d] /\ k.holder[d] = m.holder[d]

LEMMA FreeIs ==
    ASSUME NEW m \in Managers, NEW c \in Chans
    PROVE  FreeSet(m, FreeOf(m, c), c)
  BY DEF Managers, FreeSet, FreeOf, HubStates

LEMMA FreedOK ==
    ASSUME NEW m \in Managers, NEW c \in Chans, NEW sent, HubSound(FreeOf(m, c), sent, session),
           node \in Pools, mode \in [Flows -> {"http", "websocket"}],
           \A q \in Flows, d \in Chans : m.stage[q] = "waiting" /\ d # c => m.state[d] # "idle",
           NEW k \in Freed(m, c)
    PROVE  HubOK(k, sent, session) /\ (Within(FreeOf(m, c)) => Within(k))
<1> PICK free : free = FreeOf(m, c)
  OBVIOUS
<1>1. FreeSet(m, free, c) /\ free \in Managers
  <2>1. FreeSet(m, free, c)
    BY FreeIs
  <2> QED BY <2>1 DEF FreeSet
<1>2. free.gen[c] = session /\ m.gen[c] = session
  BY <1>1 DEF HubSound, BoundTo, FreeSet
<1>3. k \in IF Waiters(m) = {} \/ m.gen[c] # session THEN {free} ELSE {Lease(free, r, c) : r \in Waiters(m)}
  BY DEF Freed, FreeOf
<1>4. CASE Waiters(m) = {}
  <2>1. k = free
    BY <1>3, <1>4
  <2>2. NoneWaits(free)
    BY <1>1, <1>4 DEF NoneWaits, Waiters, FreeSet
  <2> QED BY <2>1, <2>2 DEF HubOK
<1>5. CASE Waiters(m) # {}
  <2>1. PICK r \in Waiters(m) : k = Lease(free, r, c)
    BY <1>2, <1>3, <1>5
  <2>2. r \in Flows /\ free.stage[r] = "waiting" /\ free.state[c] = "idle"
    BY <1>1, <2>1 DEF Waiters, FreeSet
  <2>3. \A q \in Flows, d \in Chans : q # r /\ free.stage[q] = "waiting" /\ d # c => free.state[d] # "idle"
    BY <1>1 DEF FreeSet
  <2> QED BY <2>1, <2>2, <2>3, LeaseOK
<1> QED BY <1>4, <1>5

(* The lease of r on c ends, and with it what is remembered of r changes.  *)
LeaseEnds(m, l, r, c) ==
    /\ l \in Managers /\ l.state = m.state /\ l.gen = m.gen /\ l.holder = m.holder /\ l.out = m.out
    /\ l.stage[r] \in {m.stage[r], "over"}
    /\ l.chan[r] \in {0, m.chan[r]} /\ (mode[r] = "websocket" => l.chan[r] = 0 /\ "idle" \notin l.marks[r])
    /\ \A q \in Flows \ {r} : l.stage[q] = m.stage[q] /\ l.chan[q] = m.chan[q] /\ l.marks[q] = m.marks[q]

LEMMA LeaseEndsOK ==
    ASSUME NEW m, NEW sent, HubOK(m, sent, session), NEW c \in Chans, NEW r \in Flows, m.holder[c] = r,
           node \in Pools, mode \in [Flows -> {"http", "websocket"}],
           Quiet(m.out[c], node.state[c], ToHub(m, sent, c)),
           NEW l, LeaseEnds(m, l, r, c), NEW k \in Freed(l, c)
    PROVE  HubOK(k, sent, session) /\ (Within(m) => Within(k))
<1>0. /\ m \in Managers /\ sent \in [Chans -> Seq(Frames)]
      /\ \A d \in Chans : ChannelAt(m, sent, d) /\ HolderAt(m, d)
      /\ \A q \in Flows : FlowAt(m, q)
      /\ BoundTo(m, session) /\ NoneWaits(m) /\ l \in Managers
  BY DEF HubOK, HubSound, LeaseEnds
<1>1. m.state[c] = "busy" /\ m.chan[r] = c /\ c # 0 /\ m.stage[r] \notin {"new", "waiting"}
  <2>1. m.state[c] = "busy"
    BY <1>0 DEF ChannelAt, ChannelOK
  <2>2. c # 0
    BY ChannelAssumption, SMT DEF Chans
  <2> QED BY <1>0, <2>1, <2>2 DEF HolderAt, FlowAt
<1> PICK free : free = FreeOf(l, c)
  OBVIOUS
<1>2. FreeSet(l, free, c)
  BY <1>0, FreeIs
<1>3. ASSUME NEW d \in Chans PROVE ChannelAt(free, sent, d)
  <2>1. /\ ChannelOK(m.state[d], m.holder[d], MarksOf(m, m.holder[d]), m.out[d],
                     node.state[d], node.flow[d], ToHub(m, sent, d))
        /\ m.state[d] \in HubStates /\ m.out[d] \in Seq(Frames) /\ ToHub(m, sent, d) \in Seq(Frames)
        /\ node.state[d] \in NodeStates
    <3>1. ToHub(m, sent, d) \in Seq(Frames)
      BY <1>0, EmptyQueue DEF ToHub
    <3> QED BY <1>0, <3>1 DEF ChannelAt, Managers, Pools
  <2>2. CASE d = c
    <3>1. ToHub(free, sent, d) = ToHub(m, sent, d)
      BY <1>1, <1>2, <2>2 DEF ToHub, FreeSet
    <3> PICK qH, qN, ma : qH = m.out[c] /\ qN = ToHub(m, sent, c) /\ ma = MarksOf(m, m.holder[c])
      OBVIOUS
    <3>2. /\ ChannelOK("busy", r, ma, qH, node.state[c], node.flow[c], qN) /\ Quiet(qH, node.state[c], qN)
          /\ qH \in Seq(Frames) /\ qN \in Seq(Frames) /\ node.state[c] \in NodeStates
      BY <1>1, <2>1, <2>2
    <3>3. ChannelOK("idle", None, MarksOf(free, None), qH, node.state[c], node.flow[c], qN)
      BY <3>2, ChannelFrees
    <3> QED BY <1>2, <2>2, <3>1, <3>3 DEF ChannelAt, FreeSet, LeaseEnds
  <2>3. CASE d # c
    <3>1. ToHub(free, sent, d) = ToHub(m, sent, d)
      BY <1>2, <2>3 DEF ToHub, FreeSet, LeaseEnds
    <3>2. /\ free.state[d] = m.state[d] /\ free.holder[d] = m.holder[d] /\ free.out[d] = m.out[d]
          /\ free.marks = l.marks
      BY <1>2, <2>3 DEF FreeSet, LeaseEnds
    <3>3. m.holder[d] # r
      BY <1>0, <1>1, <2>3 DEF HolderAt
    <3>4. MarksOf(free, m.holder[d]) = MarksOf(m, m.holder[d])
      BY <3>2, <3>3 DEF MarksOf, LeaseEnds
    <3> QED BY <2>1, <3>1, <3>2, <3>4 DEF ChannelAt
  <2> QED BY <2>2, <2>3
<1>4. \A d \in Chans : m.holder[d] = r => d = c
  BY <1>0, <1>1 DEF HolderAt
<1>5. ASSUME NEW d \in Chans PROVE HolderAt(free, d)
  <2>1. HolderAt(m, d)
    BY <1>0
  <2>2. CASE d = c
    BY <1>2, <2>2, ChannelAssumption DEF HolderAt, FreeSet
  <2>3. CASE d # c
    <3>1. free.holder[d] = m.holder[d] /\ m.holder[d] # r /\ free.chan = l.chan
      BY <1>2, <1>4, <2>3 DEF FreeSet, LeaseEnds
    <3> QED BY <2>1, <3>1 DEF HolderAt, LeaseEnds
  <2> QED BY <2>2, <2>3
<1>6. ASSUME NEW q \in Flows PROVE FlowAt(free, q)
  <2>0. FlowAt(m, q) /\ m.chan[q] \in Chans \cup {0}
    BY <1>0 DEF Managers
  <2>1. free.chan = l.chan /\ free.stage = l.stage /\ free.marks = l.marks
    BY <1>2 DEF FreeSet
  <2>2. \A d \in Chans : m.state[d] # "none" => free.state[d] # "none"
    BY <1>2 DEF FreeSet, LeaseEnds
  <2>3. \A d \in Chans : free.holder[d] = q => m.holder[d] = q /\ d # c
    BY <1>2, ChannelAssumption DEF FreeSet, LeaseEnds
  <2>4. CASE q = r
    <3>1. \A d \in Chans : free.holder[d] # r
      BY <1>4, <2>3, <2>4
    <3>2. l.stage[r] \notin {"new", "waiting"}
      BY <1>1 DEF LeaseEnds
    <3>3. l.chan[r] # 0 => free.state[l.chan[r]] # "none"
      BY <1>1, <1>2 DEF LeaseEnds, FreeSet
    <3> QED BY <2>1, <2>4, <3>1, <3>2, <3>3 DEF FlowAt, LeaseEnds
  <2>5. CASE q # r
    <3>1. l.chan[q] = m.chan[q] /\ l.stage[q] = m.stage[q] /\ l.marks[q] = m.marks[q]
      BY <2>5 DEF LeaseEnds
    <3>2. mode[q] = "websocket" /\ m.chan[q] # 0 => free.holder[m.chan[q]] = q
      <4> SUFFICES ASSUME mode[q] = "websocket", m.chan[q] # 0 PROVE free.holder[m.chan[q]] = q
        OBVIOUS
      <4>1. m.holder[m.chan[q]] = q /\ m.chan[q] \in Chans \ {c}
        BY <2>0, <2>5 DEF FlowAt
      <4> QED BY <1>2, <4>1 DEF FreeSet, LeaseEnds
    <3> QED BY <2>0, <2>1, <2>2, <2>3, <3>1, <3>2 DEF FlowAt
  <2> QED BY <2>4, <2>5
<1>7. BoundTo(free, session)
  <2>1. free.gen = m.gen /\ free.stage = l.stage
    BY <1>2 DEF FreeSet, LeaseEnds
  <2>2. \A d \in Chans : free.state[d] # "none" => m.state[d] # "none"
    BY <1>1, <1>2 DEF FreeSet, LeaseEnds
  <2>3. \A q \in Flows : l.stage[q] = "waiting" => m.stage[q] = "waiting"
    BY DEF LeaseEnds
  <2> QED BY <1>0, <2>1, <2>2, <2>3 DEF BoundTo
<1>8. HubSound(free, sent, session)
  BY <1>0, <1>2, <1>3, <1>5, <1>6, <1>7 DEF HubSound, FreeSet
<1>9. \A q \in Flows, d \in Chans : l.stage[q] = "waiting" /\ d # c => l.state[d] # "idle"
  BY <1>0, <1>1 DEF NoneWaits, LeaseEnds
<1>10. Within(m) => Within(free)
  BY <1>1, <1>2 DEF Within, FreeSet, LeaseEnds
<1> QED BY <1>0, <1>8, <1>9, <1>10, FreedOK

LEMMA OverIs ==
    ASSUME NEW m \in Managers, NEW r \in Flows
    PROVE  LET k == Over(m, r) IN
           /\ k \in Managers /\ k.state = m.state /\ k.gen = m.gen /\ k.holder = m.holder /\ k.out = m.out
           /\ k.stage[r] = "over" /\ k.chan[r] = 0 /\ k.marks[r] = {}
           /\ \A q \in Flows \ {r} : k.stage[q] = m.stage[q] /\ k.chan[q] = m.chan[q] /\ k.marks[q] = m.marks[q]
<1> PICK x, S : x = "over" /\ S = {}
  OBVIOUS
<1>1. x \in Stages /\ S \in SUBSET Marks
  BY DEF Stages
<1>2. LET k == [m EXCEPT !.stage[r] = x, !.chan[r] = 0, !.marks[r] = S] IN
      /\ k \in Managers /\ k.state = m.state /\ k.gen = m.gen /\ k.holder = m.holder /\ k.out = m.out
      /\ k.stage[r] = x /\ k.chan[r] = 0 /\ k.marks[r] = S
      /\ \A q \in Flows \ {r} : k.stage[q] = m.stage[q] /\ k.chan[q] = m.chan[q] /\ k.marks[q] = m.marks[q]
  BY <1>1 DEF Managers
<1> QED BY <1>2 DEF Over

LEMMA MaybeIdleOK ==
    ASSUME NEW m, NEW sent, HubOK(m, sent, session), NEW r \in Flows, mode[r] = "websocket",
           node \in Pools, mode \in [Flows -> {"http", "websocket"}], NEW k \in MaybeIdle(m, r)
    PROVE  HubOK(k, sent, session) /\ (Within(m) => Within(k))
<1>0. m \in Managers /\ m.chan[r] \in Chans \cup {0} /\ FlowAt(m, r)
  BY DEF HubOK, HubSound, Managers
<1>1. CASE k = m
  BY <1>1
<1>2. CASE /\ {"idle", "closed", "ended"} \subseteq m.marks[r] /\ m.chan[r] # 0
           /\ k \in Freed(Over(m, r), m.chan[r])
  <2> PICK c \in Chans : c = m.chan[r]
    BY <1>0, <1>2
  <2>1. m.holder[c] = r /\ ChannelAt(m, sent, c)
    BY <1>0, <1>2 DEF FlowAt, HubOK, HubSound
  <2>2. "idle" \in MarksOf(m, m.holder[c])
    BY <1>2, <2>1 DEF MarksOf
  <2>3. Quiet(m.out[c], node.state[c], ToHub(m, sent, c))
    BY <2>1, <2>2 DEF ChannelAt, ChannelOK, LeasedTo
  <2> PICK l : l = Over(m, r)
    OBVIOUS
  <2>4. LeaseEnds(m, l, r, c)
    BY <1>0, OverIs DEF LeaseEnds
  <2> QED BY <1>2, <2>1, <2>3, <2>4, LeaseEndsOK
<1> QED BY <1>1, <1>2 DEF MaybeIdle

LEMMA MarkedOK ==
    ASSUME NEW m, NEW sent, HubOK(m, sent, session), NEW r \in Flows, node \in Pools,
           NEW S \in SUBSET Marks, "idle" \notin S
    PROVE  HubOK(Mark(m, r, S), sent, session) /\ (Within(m) => Within(Mark(m, r, S)))
<1>0. m \in Managers
  BY DEF HubOK, HubSound
<1> PICK k : k = Mark(m, r, S)
  OBVIOUS
<1> PICK T : T = m.marks[r] \cup S
  OBVIOUS
<1>1. FlowSet(m, k, r, m.stage[r], T)
  BY <1>0, MarkSet
<1>2. "idle" \in T => "idle" \in m.marks[r]
  OBVIOUS
<1>3. HubOK(k, sent, session) /\ (Within(m) => Within(k))
  BY <1>1, <1>2, FlowSetOK
<1> QED BY <1>3

LEMMA OnResponseOK ==
    ASSUME NEW m, NEW sent, HubOK(m, sent, session), NEW r \in Flows, NEW upgraded \in BOOLEAN,
           node \in Pools, NEW k \in OnResponse(m, r, upgraded)
    PROVE  HubOK(k, sent, session) /\ (Within(m) => Within(k))
<1> PICK x : x = IF m.stage[r] = "awaiting" THEN "streaming" ELSE m.stage[r]
  OBVIOUS
<1> PICK S : S = (IF upgraded /\ mode[r] = "websocket" THEN {"upgraded"} ELSE {})
                 \cup (IF m.stage[r] = "awaiting" /\ mode[r] = "websocket" THEN {"ready"} ELSE {})
  OBVIOUS
<1>0. m \in Managers
  BY DEF HubOK, HubSound
<1>1. S \in SUBSET Marks /\ "idle" \notin S
  BY DEF Marks
<1>2. x \in Stages /\ (x = m.stage[r] \/ x \notin {"new", "waiting"})
  BY <1>0 DEF Managers, Stages
<1> PICK l : l = [m EXCEPT !.stage[r] = x]
  OBVIOUS
<1>3. k = Mark(l, r, S)
  BY Zenon DEF OnResponse
<1>4. FlowSet(m, l, r, x, m.marks[r])
  BY <1>0, <1>2, StageSet
<1>5. HubOK(l, sent, session) /\ (Within(m) => Within(l))
  BY <1>2, <1>4, FlowSetOK
<1> QED BY <1>1, <1>3, <1>5, MarkedOK

LEMMA OnResponseEndOK ==
    ASSUME NEW m, NEW sent, HubOK(m, sent, session), NEW r \in Flows,
           node \in Pools, mode \in [Flows -> {"http", "websocket"}], NEW k \in OnResponseEnd(m, r)
    PROVE  HubOK(k, sent, session) /\ (Within(m) => Within(k))
<1>1. CASE mode[r] = "http"
  <2>1. k = Mark(m, r, {"ended"})
    BY <1>1 DEF OnResponseEnd
  <2>2. {"ended"} \in SUBSET Marks /\ "idle" \notin {"ended"}
    BY DEF Marks
  <2> QED BY <2>1, <2>2, MarkedOK
<1>2. CASE mode[r] # "http"
  <2> PICK S : S = {"ended", "tearingDown"} \cup (IF "upgraded" \in m.marks[r] THEN {} ELSE {"closed"})
    OBVIOUS
  <2>1. S \in SUBSET Marks /\ "idle" \notin S
    BY DEF Marks
  <2>2. k \in MaybeIdle(Mark(m, r, S), r)
    BY <1>2, Zenon DEF OnResponseEnd
  <2>3. HubOK(Mark(m, r, S), sent, session) /\ (Within(m) => Within(Mark(m, r, S)))
    BY <2>1, MarkedOK
  <2> QED BY <1>2, <2>2, <2>3, MaybeIdleOK
<1> QED BY <1>1, <1>2

LEMMA OnIdleOK ==
    ASSUME NEW m, NEW sent, HubOK(m, sent, session), NEW c \in Chans, NEW r \in Flows, m.holder[c] = r,
           node \in Pools, mode \in [Flows -> {"http", "websocket"}], Within(m),
           Quiet(m.out[c], node.state[c], ToHub(m, sent, c)), NEW k \in OnIdle(m, r, c)
    PROVE  HubOK(k, sent, session) /\ Within(k)
<1>0. m \in Managers /\ HolderAt(m, c) /\ FlowAt(m, r) /\ m.chan[r] = c /\ c # 0
  <2>1. m \in Managers /\ HolderAt(m, c) /\ FlowAt(m, r)
    BY DEF HubOK, HubSound
  <2>2. c # 0
    BY ChannelAssumption, SMT DEF Chans
  <2> QED BY <2>1, <2>2 DEF HolderAt
<1>1. {"idle"} \in SUBSET Marks
  BY DEF Marks
<1> PICK M : M = Mark(m, r, {"idle"})
  OBVIOUS
<1>2. FlowSet(m, M, r, m.stage[r], m.marks[r] \cup {"idle"})
  BY <1>0, <1>1, MarkSet
<1>3. CASE mode[r] = "websocket"
  <2>1. k \in MaybeIdle(M, r)
    BY <1>3, Zenon DEF OnIdle
  <2>2. m.stage[r] \notin {"new", "waiting"}
    BY <1>0 DEF FlowAt
  <2>3. \A d \in Chans : m.holder[d] = r => d = c
    BY <1>0 DEF HubOK, HubSound, HolderAt
  <2>4. HubOK(M, sent, session) /\ (Within(m) => Within(M))
    BY <1>2, <1>3, <2>2, <2>3, FlowSetOK
  <2> QED BY <1>3, <2>1, <2>4, MaybeIdleOK
<1>4. CASE mode[r] # "websocket" /\ "ended" \notin m.marks[r]
  <2>1. k = Fail(m, r)
    BY <1>4 DEF OnIdle
  <2> QED BY <2>1, FailOK
<1>5. CASE mode[r] # "websocket" /\ "ended" \in m.marks[r] /\ m.stage[r] = "draining"
  <2> PICK l : l = Over(m, r)
    OBVIOUS
  <2>1. k \in Freed(l, c)
    BY <1>5, Zenon DEF OnIdle
  <2>2. LeaseEnds(m, l, r, c)
    BY <1>0, OverIs DEF LeaseEnds
  <2> QED BY <2>1, <2>2, LeaseEndsOK
<1>6. CASE mode[r] # "websocket" /\ "ended" \in m.marks[r] /\ m.stage[r] # "draining"
  <2>1. k \in Freed(M, c)
    BY <1>6, Zenon DEF OnIdle
  <2>2. LeaseEnds(m, M, r, c)
    BY <1>2, <1>6 DEF LeaseEnds, FlowSet
  <2> QED BY <2>1, <2>2, LeaseEndsOK
<1> QED BY <1>3, <1>4, <1>5, <1>6

(* Everything the Hub can read from the node leaves it sound.              *)
LEMMA OnNodeMessageOK ==
    ASSUME NEW m, NEW sent, HubOK(m, sent, session), NEW c \in Chans, NEW kind \in AnswerKinds \cup {"abort"},
           node \in Pools, mode \in [Flows -> {"http", "websocket"}], Within(m),
           m.state[c] = "busy" /\ kind = "idle" => Quiet(m.out[c], node.state[c], ToHub(m, sent, c)),
           NEW k \in OnNodeMessage(m, c, kind)
    PROVE  HubOK(k, sent, session) /\ Within(k)
<1>0. /\ m \in Managers /\ {c} \in SUBSET Chans /\ m.holder[c] \in Flows \cup {None} /\ None \notin Flows
      /\ m.holder[c] \in Flows => m.state[c] = "busy"
  <2>1. ChannelAt(m, sent, c) /\ m \in Managers
    BY DEF HubOK, HubSound
  <2> QED BY <2>1, ChannelAssumption DEF ChannelAt, ChannelOK
<1>1. HubOK(CloseChannels(m, {c}), sent, session) /\ Within(CloseChannels(m, {c}))
  BY <1>0, CloseChannelsOK
<1>2. CASE m.holder[c] = None
  <2>1. k = CloseChannels(m, {c})
    BY <1>2 DEF OnNodeMessage
  <2> QED BY <1>1, <2>1
<1>3. CASE m.holder[c] # None
  <2> PICK r \in Flows : r = m.holder[c]
    BY <1>0, <1>3
  <2>0. OnNodeMessage(m, c, kind) = CASE kind = "response" -> OnResponse(m, r, FALSE)
                                      [] kind = "switch" -> OnResponse(m, r, TRUE)
                                      [] kind = "response-end" -> OnResponseEnd(m, r)
                                      [] kind = "idle" -> OnIdle(m, r, c)
                                      [] kind = "abort" -> {CloseChannels(m, {c})}
    BY <1>3, Zenon DEF OnNodeMessage
  <2>1. CASE kind = "response"
    <3>1. k \in OnResponse(m, r, FALSE)
      BY <2>0, <2>1
    <3> QED BY <3>1, OnResponseOK
  <2>2. CASE kind = "switch"
    <3>1. k \in OnResponse(m, r, TRUE)
      BY <2>0, <2>2
    <3> QED BY <3>1, OnResponseOK
  <2>3. CASE kind = "response-end"
    <3>1. k \in OnResponseEnd(m, r)
      BY <2>0, <2>3
    <3> QED BY <3>1, OnResponseEndOK
  <2>4. CASE kind = "idle"
    <3>1. k \in OnIdle(m, r, c)
      BY <2>0, <2>4
    <3>2. Quiet(m.out[c], node.state[c], ToHub(m, sent, c))
      BY <1>0, <2>4
    <3> QED BY <3>1, <3>2, OnIdleOK
  <2>5. CASE kind = "abort"
    <3>1. k = CloseChannels(m, {c})
      BY <2>0, <2>5
    <3> QED BY <1>1, <3>1
  <2> QED BY <2>1, <2>2, <2>3, <2>4, <2>5 DEF AnswerKinds
<1> QED BY <1>2, <1>3

(* A session that ends takes its channels and its waiters along, so that   *)
(* the next one may begin.                                                 *)
LEMMA SessionEndsOK ==
    ASSUME NEW m, NEW sent, HubOK(m, sent, session), Within(m), node \in Pools, NEW s
    PROVE  HubOK(CloseChannelsForSession(m), sent, s)
<1>0. m \in Managers
  BY DEF HubOK, HubSound
<1> PICK S : S = {c \in Chans : m.gen[c] = session}
  OBVIOUS
<1>1. S \in SUBSET Chans /\ \A c \in Chans : m.state[c] # "none" => c \in S
  BY DEF HubOK, HubSound, BoundTo
<1> PICK l : l = CloseChannels(m, S)
  OBVIOUS
<1>2. HubOK(l, sent, session) /\ Within(l) /\ \A c \in S : l.state[c] = "none"
  BY <1>1, CloseChannelsOK
<1>3. l \in Managers /\ \A c \in Chans : l.state[c] = "none"
  <2>1. l \in Managers
    BY <1>2 DEF HubOK, HubSound
  <2>2. Open(m, S) \in SUBSET S /\ \A c \in Chans \ S : m.state[c] = "none"
    BY <1>1 DEF Open
  <2>3. \A c \in Chans \ Open(m, S) : l.state[c] = m.state[c]
    BY <1>0, <1>1, CloseChannelsIs
  <2> QED BY <1>2, <2>1, <2>2, <2>3
<1> PICK sg : sg = [r \in Flows |-> IF l.stage[r] = "waiting" THEN "over" ELSE l.stage[r]]
  OBVIOUS
<1> PICK ma : ma = [r \in Flows |-> IF m.stage[r] = "waiting" THEN {} ELSE l.marks[r]]
  OBVIOUS
<1>4. sg \in [Flows -> Stages] /\ ma \in [Flows -> SUBSET Marks]
  BY <1>3 DEF Managers, Stages
<1> PICK k : k = [l EXCEPT !.stage = sg, !.marks = ma]
  OBVIOUS
<1>5. CloseChannelsForSession(m) = k
  BY Zenon DEF CloseChannelsForSession
<1>6. /\ k \in Managers /\ k.state = l.state /\ k.gen = l.gen /\ k.holder = l.holder /\ k.out = l.out
      /\ k.chan = l.chan /\ k.stage = sg /\ k.marks = ma
  BY <1>3, <1>4 DEF Managers
<1>7. HubOK(k, sent, session)
  <2>1. \A r \in Flows : k.stage[r] = l.stage[r] \/ k.stage[r] \notin {"new", "waiting"}
    BY <1>6
  <2>2. \A r \in Flows : "idle" \in k.marks[r] => "idle" \in l.marks[r]
    BY <1>6
  <2>3. OnlyFlows(l, k)
    BY <1>6 DEF OnlyFlows
  <2> QED BY <1>2, <2>1, <2>2, <2>3, FlowsChange
<1>8. BoundTo(k, s)
  <2>1. \A r \in Flows : k.stage[r] # "waiting"
    BY <1>6
  <2> QED BY <1>3, <1>6, <2>1 DEF BoundTo
<1> QED BY <1>5, <1>7, <1>8 DEF HubOK, HubSound

-----------------------------------------------------------------------------
(* The steps of the Hub *)

StepsOK(n) == \A c \in Chans : n.step[c] # "none" <=> n.state[c] = "busy"

(* The inductive invariant.                                                *)
RcInv ==
    /\ mode \in [Flows -> {"http", "websocket"}]
    /\ session \in 0 .. MaxSessions /\ sessions \in 0 .. MaxSessions /\ trouble \in 0 .. MaxTrouble
    /\ node \in Pools /\ StepsOK(node)
    /\ HubOK(mgr, node.out, session)

LEMMA HubStepOK ==
    ASSUME RcInv, NEW m, NEW sent, HubOK(m, sent, session'), HubStep(m, sent), mode' = mode,
           session' \in 0 .. MaxSessions, sessions' \in 0 .. MaxSessions, trouble' \in 0 .. MaxTrouble
    PROVE  RcInv'
<1> PICK q : q = [c \in Chans |-> ToHub(m, sent, c)]
  OBVIOUS
<1>0. /\ m \in Managers /\ sent \in [Chans -> Seq(Frames)] /\ node \in Pools /\ StepsOK(node)
      /\ \A c \in Chans : ChannelAt(m, sent, c) /\ HolderAt(m, c)
      /\ \A r \in Flows : FlowAt(m, r)
      /\ BoundTo(m, session') /\ NoneWaits(m)
  BY DEF RcInv, HubOK, HubSound
<1>1. q \in [Chans -> Seq(Frames)]
  <2>1. ASSUME NEW c \in Chans PROVE ToHub(m, sent, c) \in Seq(Frames)
    BY <1>0, EmptyQueue DEF ToHub
  <2> QED BY <2>1
<1>2. mgr' = m /\ node' = [node EXCEPT !.out = q]
  BY DEF HubStep, ToHub
<1>3. /\ node' \in Pools /\ node'.out = q /\ node'.state = node.state /\ node'.flow = node.flow
      /\ node'.step = node.step
  BY <1>0, <1>1, <1>2 DEF Pools
<1>4. StepsOK(node')
  BY <1>0, <1>3 DEF StepsOK
<1>5. ASSUME NEW c \in Chans PROVE ChannelAt(mgr, node.out, c)'
  <2>1. ToHub(mgr, node.out, c)' = ToHub(m, sent, c)
    BY <1>2, <1>3 DEF ToHub
  <2>2. ChannelOK(m.state[c], m.holder[c], MarksOf(m, m.holder[c]), m.out[c],
                  node.state[c], node.flow[c], ToHub(m, sent, c))
    BY <1>0 DEF ChannelAt
  <2> QED BY <1>2, <1>3, <2>1, <2>2 DEF ChannelAt
<1>6. ASSUME NEW c \in Chans PROVE HolderAt(mgr, c)'
  BY <1>0, <1>2 DEF HolderAt
<1>7. ASSUME NEW r \in Flows PROVE FlowAt(mgr, r)'
  <2>1. FlowAt(m, r)
    BY <1>0
  <2> QED BY <1>2, <2>1 DEF FlowAt
<1>8. BoundTo(mgr, session)' /\ NoneWaits(mgr)'
  BY <1>0, <1>2 DEF BoundTo, NoneWaits
<1>9. HubOK(mgr, node.out, session)'
  BY <1>0, <1>1, <1>2, <1>3, <1>5, <1>6, <1>7, <1>8 DEF HubOK, HubSound
<1> QED BY <1>3, <1>4, <1>9 DEF RcInv

LEMMA CalmOK ==
    ASSUME RcInv, NEW m, NEW sent, HubOK(m, sent, session), HubStep(m, sent), Calm \/ Trouble
    PROVE  RcInv'
<1>1. /\ mode' = mode /\ session' = session /\ sessions' = sessions
      /\ trouble' = trouble \/ (trouble < MaxTrouble /\ trouble' = trouble + 1)
  BY DEF Calm, Trouble, Failing
<1>2. session \in 0 .. MaxSessions /\ sessions \in 0 .. MaxSessions /\ trouble \in 0 .. MaxTrouble
  BY DEF RcInv
<1>3. trouble' \in 0 .. MaxTrouble
  BY <1>1, <1>2, ChannelAssumption, SMT
<1>4. HubOK(m, sent, session')
  BY <1>1
<1> QED BY <1>1, <1>2, <1>3, <1>4, HubStepOK

LEMMA FlowStepOK ==
    ASSUME RcInv, NEW m, HubOK(m, node.out, session), FlowStep(m)
    PROVE  RcInv'
  BY CalmOK DEF FlowStep

LEMMA HubNow ==
    ASSUME RcInv
    PROVE  /\ HubOK(mgr, node.out, session) /\ Within(mgr) /\ mgr \in Managers /\ node \in Pools
           /\ node.out \in [Chans -> Seq(Frames)] /\ mode \in [Flows -> {"http", "websocket"}]
           /\ \A c \in Chans : ToHub(mgr, node.out, c) = IF mgr.state[c] # "none" /\ mgr.state[c] = "none"
                                                         THEN <<>> ELSE node.out[c]
           /\ \A r \in Flows : mgr.chan[r] \in Chans \cup {0} /\ mgr.stage[r] \in Stages
           /\ \A r \in Flows : FlowAt(mgr, r)
  BY DEF RcInv, HubOK, HubSound, Within, Managers, Pools, ToHub

LEMMA SessionReadyOK == ASSUME RcInv, SessionReady PROVE RcInv'
<1>1. sessions \in 0 .. MaxSessions /\ sessions < MaxSessions /\ trouble \in 0 .. MaxTrouble
  BY DEF RcInv, SessionReady
<1>2. session' = sessions + 1 /\ sessions' = sessions + 1 /\ mode' = mode
  BY DEF SessionReady
<1>3. session' \in 0 .. MaxSessions /\ sessions' \in 0 .. MaxSessions /\ session' # 0
  BY <1>1, <1>2, ChannelAssumption, SMT
<1>4. trouble' \in 0 .. MaxTrouble
  <2>1. trouble' = trouble \/ (trouble < MaxTrouble /\ trouble' = trouble + 1)
    BY DEF SessionReady, Failing
  <2> QED BY <1>1, <2>1, ChannelAssumption, SMT
<1>5. CASE session = 0
  <2>1. HubStep(mgr, node.out)
    BY <1>5 DEF SessionReady
  <2>2. BoundTo(mgr, session')
    BY <1>5, HubNow DEF HubOK, HubSound, BoundTo
  <2>3. HubOK(mgr, node.out, session')
    BY <2>2, HubNow DEF HubOK, HubSound
  <2> QED BY <1>2, <1>3, <1>4, <2>1, <2>3, HubStepOK
<1>6. CASE session # 0
  <2>1. HubStep(CloseChannelsForSession(mgr), node.out)
    BY <1>6 DEF SessionReady
  <2>2. HubOK(CloseChannelsForSession(mgr), node.out, session')
    BY HubNow, SessionEndsOK
  <2> QED BY <1>2, <1>3, <1>4, <2>1, <2>2, HubStepOK
<1> QED BY <1>5, <1>6

LEMMA SessionLostOK == ASSUME RcInv, SessionLost PROVE RcInv'
<1>1. session' = 0 /\ sessions' = sessions /\ mode' = mode /\ HubStep(CloseChannelsForSession(mgr), node.out)
  BY DEF SessionLost
<1>2. sessions \in 0 .. MaxSessions /\ trouble \in 0 .. MaxTrouble
      /\ trouble < MaxTrouble /\ trouble' = trouble + 1
  BY DEF RcInv, SessionLost, Failing
<1>3. trouble' \in 0 .. MaxTrouble /\ session' \in 0 .. MaxSessions /\ sessions' \in 0 .. MaxSessions
  BY <1>1, <1>2, ChannelAssumption, SMT
<1>4. HubOK(CloseChannelsForSession(mgr), node.out, session')
  BY HubNow, SessionEndsOK
<1> QED BY <1>1, <1>3, <1>4, HubStepOK

LEMMA HubReceivesOK == ASSUME RcInv, NEW c \in Chans, HubReceives(c) PROVE RcInv'
<1> PICK sent : sent = Popped(node.out, c)
  OBVIOUS
<1>0. mgr.state[c] # "none" /\ node.out[c] # <<>> /\ Head(node.out[c]) # Fin
  BY DEF HubReceives
<1>1. PICK m \in OnNodeMessage(mgr, c, Head(node.out[c]).kind) : HubStep(m, sent)
  BY DEF HubReceives
<1>2. /\ mgr.state[c] \in HubStates /\ mgr.out[c] \in Seq(Frames) /\ node.out[c] \in Seq(Frames)
      /\ node.state[c] \in NodeStates
  BY HubNow DEF Managers, Pools
<1>3. ChannelOK(mgr.state[c], mgr.holder[c], MarksOf(mgr, mgr.holder[c]), mgr.out[c],
                node.state[c], node.flow[c], node.out[c])
  BY HubNow DEF HubOK, HubSound, ChannelAt
<1>4. /\ ChannelOK(mgr.state[c], mgr.holder[c], MarksOf(mgr, mgr.holder[c]), mgr.out[c],
                   node.state[c], node.flow[c], Tail(node.out[c]))
      /\ mgr.state[c] = "busy" /\ Head(node.out[c]).kind = "idle" => Quiet(mgr.out[c], node.state[c], Tail(node.out[c]))
      /\ Head(node.out[c]).kind \in AnswerKinds \cup {"abort"}
  BY <1>0, <1>2, <1>3, ChannelReads
<1>5. /\ sent \in [Chans -> Seq(Frames)] /\ sent[c] = Tail(node.out[c])
      /\ \A d \in Chans \ {c} : sent[d] = node.out[d]
  <2>1. Tail(node.out[c]) \in Seq(Frames)
    BY <1>0, <1>2, TailFrames
  <2> QED BY <2>1, HubNow DEF Popped
<1>6. HubOK(mgr, sent, session)
  <2>1. ASSUME NEW d \in Chans PROVE ChannelAt(mgr, sent, d)
    <3>1. ChannelAt(mgr, node.out, d)
      BY HubNow DEF HubOK, HubSound
    <3>2. CASE d = c
      BY <1>0, <1>4, <1>5, <3>2 DEF ChannelAt, ToHub
    <3>3. CASE d # c
      BY <1>5, <3>1, <3>3 DEF ChannelAt, ToHub
    <3> QED BY <3>2, <3>3
  <2> QED BY <1>5, <2>1, HubNow DEF HubOK, HubSound
<1>7. mgr.state[c] = "busy" /\ Head(node.out[c]).kind = "idle" =>
        Quiet(mgr.out[c], node.state[c], ToHub(mgr, sent, c))
  BY <1>0, <1>4, <1>5 DEF ToHub
<1> PICK kind \in AnswerKinds \cup {"abort"} : kind = Head(node.out[c]).kind
  BY <1>4
<1>8. HubOK(m, sent, session)
  BY <1>1, <1>6, <1>7, HubNow, OnNodeMessageOK
<1> QED BY <1>1, <1>8, CalmOK DEF HubReceives

(* A flow that holds no channel is over.                                   *)
LEMMA OverOK ==
    ASSUME NEW m, NEW sent, NEW s, HubOK(m, sent, s), NEW r \in Flows, \A c \in Chans : m.holder[c] # r
    PROVE  HubOK(Over(m, r), sent, s)
<1> PICK k : k = Over(m, r)
  OBVIOUS
<1>0. m \in Managers
  BY DEF HubOK, HubSound
<1>1. /\ k \in Managers /\ k.state = m.state /\ k.gen = m.gen /\ k.holder = m.holder /\ k.out = m.out
      /\ k.stage[r] = "over" /\ k.chan[r] = 0 /\ k.marks[r] = {}
      /\ \A q \in Flows \ {r} : k.stage[q] = m.stage[q] /\ k.chan[q] = m.chan[q] /\ k.marks[q] = m.marks[q]
  BY <1>0, OverIs
<1>2. ASSUME NEW c \in Chans PROVE ChannelAt(k, sent, c) /\ HolderAt(k, c)
  <2>1. ChannelAt(m, sent, c) /\ HolderAt(m, c) /\ m.holder[c] # r
    BY DEF HubOK, HubSound
  <2>2. MarksOf(k, k.holder[c]) = MarksOf(m, m.holder[c]) /\ ToHub(k, sent, c) = ToHub(m, sent, c)
    BY <1>1, <2>1 DEF MarksOf, ToHub
  <2>3. ChannelAt(k, sent, c)
    BY <1>1, <2>1, <2>2 DEF ChannelAt
  <2>4. HolderAt(k, c)
    BY <1>1, <2>1 DEF HolderAt
  <2> QED BY <2>3, <2>4
<1>3. ASSUME NEW q \in Flows PROVE FlowAt(k, q)
  <2>1. FlowAt(m, q)
    BY DEF HubOK, HubSound
  <2>2. CASE q = r
    BY <1>1, <2>2 DEF FlowAt
  <2>3. CASE q # r
    BY <1>1, <2>1, <2>3 DEF FlowAt
  <2> QED BY <2>2, <2>3
<1>4. BoundTo(k, s) /\ NoneWaits(k)
  <2>1. BoundTo(m, s) /\ NoneWaits(m)
    BY DEF HubOK, HubSound
  <2>2. \A q \in Flows : k.stage[q] = "waiting" => m.stage[q] = "waiting"
    BY <1>1
  <2> QED BY <1>1, <2>1, <2>2 DEF BoundTo, NoneWaits
<1> QED BY <1>1, <1>2, <1>3, <1>4 DEF HubOK, HubSound

LEMMA HubClosesOK == ASSUME RcInv, NEW c \in Chans, HubCloses(c) PROVE RcInv'
<1>1. HubOK(CloseChannels(mgr, {c}), node.out, session)
  BY HubNow, CloseChannelsOK
<1> QED BY <1>1, CalmOK DEF HubCloses

LEMMA HubSeesCloseOK == ASSUME RcInv, NEW c \in Chans, HubSeesClose(c) PROVE RcInv'
<1> PICK sent : sent = [node.out EXCEPT ![c] = <<>>]
  OBVIOUS
<1> PICK k : k = CloseChannels(mgr, {c})
  OBVIOUS
<1>0. node.out[c] \in Seq(Frames) /\ EndsWithFin(node.out[c])
  BY HubNow DEF HubSeesClose, EndsWithFin
<1>1. HubOK(k, node.out, session) /\ k.state[c] = "none"
  BY HubNow, CloseChannelsOK
<1>2. sent \in [Chans -> Seq(Frames)] /\ sent[c] = <<>> /\ \A d \in Chans \ {c} : sent[d] = node.out[d]
  BY HubNow, EmptyQueue
<1>3. ASSUME NEW d \in Chans PROVE ChannelAt(k, sent, d)
  <2>1. ChannelAt(k, node.out, d)
    BY <1>1 DEF HubOK, HubSound
  <2>2. CASE d # c
    BY <1>2, <2>1, <2>2 DEF ChannelAt, ToHub
  <2>3. CASE d = c /\ mgr.state[c] # "none"
    <3>1. ToHub(k, sent, c) = <<>> /\ ToHub(k, node.out, c) = <<>>
      BY <1>1, <2>3 DEF ToHub
    <3> QED BY <2>1, <2>3, <3>1 DEF ChannelAt
  <2>4. CASE d = c /\ mgr.state[c] = "none"
    <3>1. ToHub(k, sent, c) = <<>> /\ ToHub(k, node.out, c) = node.out[c]
      BY <1>2, <2>4 DEF ToHub
    <3>2. k.out[c] \in Seq(Frames) /\ node.state[c] \in NodeStates
      BY <1>1, HubNow DEF HubOK, HubSound, Managers, Pools
    <3>3. ChannelOK("none", k.holder[c], MarksOf(k, k.holder[c]), k.out[c],
                    node.state[c], node.flow[c], node.out[c])
      BY <1>1, <2>1, <2>4, <3>1 DEF ChannelAt
    <3>4. ChannelOK("none", k.holder[c], MarksOf(k, k.holder[c]), k.out[c],
                    node.state[c], node.flow[c], <<>>)
      BY <1>0, <3>2, <3>3, ChannelSeenClosed
    <3> QED BY <1>1, <2>4, <3>1, <3>4 DEF ChannelAt
  <2> QED BY <2>2, <2>3, <2>4
<1>4. HubOK(k, sent, session)
  BY <1>1, <1>2, <1>3 DEF HubOK, HubSound
<1>5. HubStep(k, sent) /\ Calm
  BY DEF HubSeesClose
<1> QED BY <1>4, <1>5, CalmOK

LEMMA AcquireChannelOK == ASSUME RcInv, NEW r \in Flows, AcquireChannel(r) PROVE RcInv'
<1>1. mgr.stage[r] = "new" /\ \E c \in Chans : mgr.state[c] # "none"
  BY DEF AcquireChannel
<1>2. CASE \E c \in IdleChannels(mgr) : FlowStep(Lease(mgr, r, c))
  <2>1. PICK c \in IdleChannels(mgr) : FlowStep(Lease(mgr, r, c))
    BY <1>2
  <2>2. c \in Chans /\ mgr.state[c] = "idle"
    BY DEF IdleChannels
  <2>3. \A q \in Flows, d \in Chans : q # r /\ mgr.stage[q] = "waiting" /\ d # c => mgr.state[d] # "idle"
    BY HubNow DEF HubOK, NoneWaits
  <2>4. HubSound(mgr, node.out, session)
    BY HubNow DEF HubOK
  <2>5. HubOK(Lease(mgr, r, c), node.out, session)
    BY <1>1, <2>2, <2>3, <2>4, HubNow, LeaseOK
  <2> QED BY <2>1, <2>5, FlowStepOK
<1>3. CASE IdleChannels(mgr) = {} /\ FlowStep([mgr EXCEPT !.stage[r] = "waiting"])
  <2> PICK k : k = [mgr EXCEPT !.stage[r] = "waiting"]
    OBVIOUS
  <2>1. FlowSet(mgr, k, r, "waiting", mgr.marks[r])
    BY HubNow, StageSet DEF Stages
  <2>2. BoundTo(mgr, session)
    BY HubNow DEF HubOK, HubSound
  <2>3. session # 0 /\ \A c \in Chans : mgr.state[c] # "idle"
    BY <1>1, <1>3, <2>2 DEF BoundTo, IdleChannels
  <2>4. BoundTo(k, session)
    BY <2>1, <2>2, <2>3 DEF BoundTo, FlowSet
  <2>5. NoneWaits(k)
    BY <2>1, <2>3 DEF NoneWaits, FlowSet
  <2>6. ASSUME NEW q \in Flows PROVE FlowAt(k, q) /\ k.marks[q] = mgr.marks[q]
    <3>1. FlowAt(mgr, q) /\ FlowAt(mgr, r)
      BY HubNow
    <3>2. k.marks[q] = mgr.marks[q]
      BY <2>1 DEF FlowSet
    <3>3. CASE q = r
      BY <1>1, <2>1, <3>1, <3>2, <3>3 DEF FlowAt, FlowSet
    <3>4. CASE q # r
      BY <2>1, <3>1, <3>2, <3>4 DEF FlowAt, FlowSet
    <3> QED BY <3>2, <3>3, <3>4
  <2>7. ASSUME NEW c \in Chans PROVE ChannelAt(k, node.out, c) /\ HolderAt(k, c)
    <3>1. ChannelAt(mgr, node.out, c) /\ HolderAt(mgr, c)
      BY HubNow DEF HubOK, HubSound
    <3>2. MarksOf(k, k.holder[c]) = MarksOf(mgr, mgr.holder[c]) /\ ToHub(k, node.out, c) = ToHub(mgr, node.out, c)
      BY <2>1, <2>6 DEF MarksOf, ToHub, FlowSet
    <3>3. ChannelAt(k, node.out, c)
      BY <2>1, <3>1, <3>2 DEF ChannelAt, FlowSet
    <3>4. HolderAt(k, c)
      BY <2>1, <3>1 DEF HolderAt, FlowSet
    <3> QED BY <3>3, <3>4
  <2>8. HubOK(k, node.out, session)
    BY <2>1, <2>4, <2>5, <2>6, <2>7, HubNow DEF HubOK, HubSound, FlowSet
  <2> QED BY <1>3, <2>8, FlowStepOK
<1> QED BY <1>2, <1>3 DEF AcquireChannel

LEMMA FlowSetNow ==
    ASSUME RcInv, NEW r \in Flows, NEW k, NEW x, NEW S, FlowSet(mgr, k, r, x, S),
           x \notin {"new", "waiting"}, "idle" \in S => "idle" \in mgr.marks[r]
    PROVE  HubOK(k, node.out, session)
<1>1. HubOK(mgr, node.out, session) /\ node \in Pools
  BY HubNow
<1> QED BY <1>1, FlowSetOK

LEMMA CapacityTimeoutOK == ASSUME RcInv, NEW r \in Flows, CapacityTimeout(r) PROVE RcInv'
<1> PICK k : k = [mgr EXCEPT !.stage[r] = "over", !.marks[r] = {}]
  OBVIOUS
<1>1. FlowSet(mgr, k, r, "over", {})
  BY HubNow, StageMarksSet DEF Stages
<1>2. HubOK(k, node.out, session)
  BY <1>1, FlowSetNow
<1> QED BY <1>2, FlowStepOK DEF CapacityTimeout

LEMMA ChannelOfFlow ==
    ASSUME RcInv, NEW r \in Flows, mgr.chan[r] # 0
    PROVE  mgr.chan[r] \in Chans /\ mgr.state[mgr.chan[r]] # "none"
  BY HubNow DEF FlowAt

LEMMA WriteBodyOK == ASSUME RcInv, NEW r \in Flows, WriteBody(r) PROVE RcInv'
<1> PICK m : m = Mark(mgr, r, {"sent"})
  OBVIOUS
<1> PICK c : c = mgr.chan[r]
  OBVIOUS
<1>1. c \in Chans /\ mgr.state[c] # "none"
  BY ChannelOfFlow DEF WriteBody
<1>2. HubOK(m, node.out, session)
  BY HubNow, MarkedOK DEF Marks
<1>3. m.state[c] = mgr.state[c]
  BY DEF Mark
<1>4. F("body", r) \in Frames /\ F("body", r).kind \in ToldKinds
  BY DEF F, Frames, FrameKinds, ToldKinds
<1>5. HubOK(Send(m, c, <<F("body", r)>>), node.out, session)
  BY <1>1, <1>2, <1>3, <1>4, HubNow, SendOK
<1> QED BY <1>5, FlowStepOK DEF WriteBody

LEMMA FinishSendingOK == ASSUME RcInv, NEW r \in Flows, FinishSending(r) PROVE RcInv'
<1> PICK m : m = [mgr EXCEPT !.stage[r] = "awaiting"]
  OBVIOUS
<1> PICK c : c = mgr.chan[r]
  OBVIOUS
<1>1. c \in Chans /\ mgr.state[c] # "none"
  BY ChannelOfFlow DEF FinishSending
<1>2. FlowSet(mgr, m, r, "awaiting", mgr.marks[r])
  BY HubNow, StageSet DEF Stages
<1>3. HubOK(m, node.out, session) /\ m.state[c] = mgr.state[c]
  <2>1. HubOK(m, node.out, session)
    BY <1>2, FlowSetNow
  <2> QED BY <1>2, <2>1 DEF FlowSet
<1>4. F("request-end", r) \in Frames /\ F("request-end", r).kind \in ToldKinds
  BY DEF F, Frames, FrameKinds, ToldKinds
<1>5. HubOK(Send(m, c, <<F("request-end", r)>>), node.out, session)
  BY <1>1, <1>3, <1>4, HubNow, SendOK
<1> QED BY <1>5, FlowStepOK DEF FinishSending

LEMMA FailStepOK == ASSUME RcInv, NEW r \in Flows, FlowStep(Fail(mgr, r)) PROVE RcInv'
<1>1. HubOK(Fail(mgr, r), node.out, session)
  BY HubNow, FailOK
<1> QED BY <1>1, FlowStepOK

LEMMA AbortStepOK == ASSUME RcInv, NEW r \in Flows, FlowStep(Abort(mgr, r)) PROVE RcInv'
<1>1. HubOK(Abort(mgr, r), node.out, session)
  BY HubNow, AbortOK
<1> QED BY <1>1, FlowStepOK

LEMMA FlowGivesUpOK ==
    ASSUME RcInv, NEW r \in Flows, WriteFails(r) \/ IdleTimeout(r) \/ BrowserLeaves(r)
    PROVE  RcInv'
<1>1. FlowStep(Fail(mgr, r)) \/ FlowStep(Abort(mgr, r))
  BY DEF WriteFails, IdleTimeout, BrowserLeaves
<1> QED BY <1>1, FailStepOK, AbortStepOK

LEMMA ResponseTimeoutOK == ASSUME RcInv, NEW r \in Flows, ResponseTimeout(r) PROVE RcInv'
<1>1. CASE "tearingDown" \in mgr.marks[r]
  <2> PICK k : k = [mgr EXCEPT !.stage[r] = "over"]
    OBVIOUS
  <2>1. FlowSet(mgr, k, r, "over", mgr.marks[r])
    BY HubNow, StageSet DEF Stages
  <2>2. HubOK(k, node.out, session)
    BY <2>1, FlowSetNow
  <2> QED BY <1>1, <2>2, FlowStepOK DEF ResponseTimeout
<1>2. CASE "tearingDown" \notin mgr.marks[r]
  BY <1>2, FailStepOK, AbortStepOK DEF ResponseTimeout
<1> QED BY <1>1, <1>2

LEMMA BodyReadOK == ASSUME RcInv, NEW r \in Flows, BodyRead(r) PROVE RcInv'
<1>0. mode[r] = "http"
  BY DEF BodyRead
<1>1. CASE "idle" \in mgr.marks[r] \/ mgr.chan[r] = 0
  <2>1. ASSUME NEW c \in Chans PROVE mgr.holder[c] # r
    <3>1. FlowAt(mgr, r) /\ HolderAt(mgr, c) /\ c # 0
      BY HubNow, ChannelAssumption, SMT DEF HubOK, HubSound, Chans
    <3> QED BY <1>0, <1>1, <3>1 DEF FlowAt, HolderAt
  <2>2. HubOK(Over(mgr, r), node.out, session)
    BY <2>1, HubNow, OverOK
  <2> QED BY <1>1, <2>2, FlowStepOK DEF BodyRead
<1>2. CASE ~("idle" \in mgr.marks[r] \/ mgr.chan[r] = 0)
  <2> PICK k : k = [mgr EXCEPT !.stage[r] = "draining"]
    OBVIOUS
  <2>1. FlowSet(mgr, k, r, "draining", mgr.marks[r])
    BY HubNow, StageSet DEF Stages
  <2>2. HubOK(k, node.out, session)
    BY <2>1, FlowSetNow
  <2> QED BY <1>2, <2>2, FlowStepOK DEF BodyRead
<1> QED BY <1>1, <1>2

LEMMA BrowserClosesOK == ASSUME RcInv, NEW r \in Flows, BrowserCloses(r) PROVE RcInv'
<1> PICK told : told = IF "tearingDown" \in mgr.marks[r] THEN mgr ELSE Send(mgr, mgr.chan[r], <<F("abort", r)>>)
  OBVIOUS
<1> PICK m : m = Mark(told, r, {"closed", "tearingDown"})
  OBVIOUS
<1>1. mode[r] = "websocket" /\ mgr.chan[r] # 0 /\ \E k \in MaybeIdle(m, r) : FlowStep(k)
  BY DEF BrowserCloses
<1>2. F("abort", r) \in Frames /\ F("abort", r).kind \in ToldKinds
  BY DEF F, Frames, FrameKinds, ToldKinds
<1>3. HubOK(told, node.out, session)
  <2>1. HubOK(Send(mgr, mgr.chan[r], <<F("abort", r)>>), node.out, session)
    BY <1>1, <1>2, ChannelOfFlow, HubNow, SendOK
  <2> QED BY <2>1, HubNow
<1>4. HubOK(m, node.out, session)
  BY <1>3, HubNow, MarkedOK DEF Marks
<1>5. PICK k \in MaybeIdle(m, r) : FlowStep(k)
  BY <1>1
<1>6. HubOK(k, node.out, session)
  BY <1>1, <1>4, <1>5, HubNow, MaybeIdleOK
<1> QED BY <1>5, <1>6, FlowStepOK

LEMMA BrowserClosesUnheardOK == ASSUME RcInv, NEW r \in Flows, BrowserClosesUnheard(r) PROVE RcInv'
<1>1. HubOK(Mark(mgr, r, {"deaf"}), node.out, session)
  BY HubNow, MarkedOK DEF Marks
<1> QED BY <1>1, FlowStepOK DEF BrowserClosesUnheard

LEMMA SendSet ==
    ASSUME NEW m \in Managers, NEW c \in Chans, NEW f \in Frames, NEW k, k = Send(m, c, <<f>>)
    PROVE  OutSet(m, k, c, IF node.state[c] = "none" THEN m.out[c] ELSE Append(m.out[c], f))
  BY SendIs, Zenon DEF OutSet

LEMMA RegisterChannelOK == ASSUME RcInv, NEW c \in Chans, RegisterChannel(c) PROVE RcInv'
<1> PICK sent : sent = Popped(node.out, c)
  OBVIOUS
<1> PICK gen : gen = Head(node.out[c]).flow
  OBVIOUS
<1> PICK refused : refused = (\/ session = 0 \/ gen # session
                              \/ Cardinality({d \in Chans : mgr.state[d] # "none"}) >= MaxChannels)
  OBVIOUS
<1>a. PICK accepted : accepted = Send([mgr EXCEPT !.gen[c] = gen], c, <<F("accept", None)>>)
  OBVIOUS
<1>0. Upgrades(node.out[c])
  BY DEF RegisterChannel, Upgrades
<1>1. /\ mgr.state[c] \in HubStates /\ mgr.out[c] \in Seq(Frames) /\ node.out[c] \in Seq(Frames)
      /\ node.state[c] \in NodeStates /\ sent \in [Chans -> Seq(Frames)] /\ sent[c] = Tail(node.out[c])
      /\ \A d \in Chans \ {c} : sent[d] = node.out[d]
  <2>1. mgr.state[c] \in HubStates /\ mgr.out[c] \in Seq(Frames) /\ node.out[c] \in Seq(Frames) /\ node.state[c] \in NodeStates
    BY HubNow DEF Managers, Pools
  <2>2. Tail(node.out[c]) \in Seq(Frames)
    BY <1>0, <2>1, TailFrames DEF Upgrades
  <2> QED BY <2>1, <2>2, HubNow DEF Popped
<1>2. ChannelOK(mgr.state[c], mgr.holder[c], MarksOf(mgr, mgr.holder[c]), mgr.out[c],
                node.state[c], node.flow[c], node.out[c])
  BY HubNow DEF HubOK, HubSound, ChannelAt
<1>3. mgr.state[c] = "none" /\ mgr.holder[c] = None
  BY <1>0, <1>1, <1>2, UpgradeReaches
<1> PICK no : no = F("refuse", None)
  OBVIOUS
<1> PICK yes : yes = F("accept", None)
  OBVIOUS
<1>4. no \in Frames /\ yes \in Frames
  BY DEF F, Frames, FrameKinds
<1>8. ChannelOK("none", mgr.holder[c], MarksOf(mgr, mgr.holder[c]), mgr.out[c],
                node.state[c], node.flow[c], node.out[c])
  BY <1>2, <1>3
<1>5. Calm /\ \E m \in IF refused THEN {Send(mgr, c, <<F("refuse", None)>>)} ELSE Freed(accepted, c) : HubStep(m, sent)
  BY <1>a, Zenon DEF RegisterChannel
<1>6. CASE refused
  <2> PICK m : m = Send(mgr, c, <<F("refuse", None)>>)
    OBVIOUS
  <2>1. /\ m \in Managers /\ m.state = mgr.state /\ m.gen = mgr.gen /\ m.holder = mgr.holder
        /\ m.stage = mgr.stage /\ m.chan = mgr.chan /\ m.marks = mgr.marks
        /\ m.out[c] = IF node.state[c] = "none" THEN mgr.out[c] ELSE Append(mgr.out[c], no)
        /\ \A d \in Chans \ {c} : m.out[d] = mgr.out[d]
    <3>1. OutSet(mgr, m, c, IF node.state[c] = "none" THEN mgr.out[c] ELSE Append(mgr.out[c], no))
      BY <1>4, HubNow, SendSet
    <3> QED BY <3>1 DEF OutSet
  <2>2. ASSUME NEW d \in Chans PROVE ChannelAt(m, sent, d) /\ HolderAt(m, d)
    <3>1. ChannelAt(mgr, node.out, d) /\ HolderAt(mgr, d)
      BY HubNow DEF HubOK, HubSound
    <3>2. MarksOf(m, m.holder[d]) = MarksOf(mgr, mgr.holder[d])
      BY <2>1 DEF MarksOf
    <3>3. CASE d = c
      <4>0. ChannelOK("none", mgr.holder[c], MarksOf(mgr, mgr.holder[c]),
                      IF node.state[c] = "none" THEN mgr.out[c] ELSE Append(mgr.out[c], no),
                      node.state[c], node.flow[c], Tail(node.out[c]))
        BY <1>0, <1>1, <1>8, ChannelRefused
      <4>1. ChannelOK("none", mgr.holder[c], MarksOf(mgr, mgr.holder[c]), m.out[c],
                      node.state[c], node.flow[c], Tail(node.out[c]))
        BY <2>1, <4>0
      <4>2. ToHub(m, sent, c) = Tail(node.out[c])
        BY <1>1, <1>3 DEF ToHub
      <4>3. ChannelAt(m, sent, c)
        BY <1>3, <2>1, <3>2, <3>3, <4>1, <4>2 DEF ChannelAt
      <4> QED BY <2>1, <3>1, <3>3, <4>3 DEF HolderAt
    <3>4. CASE d # c
      <4>1. ToHub(m, sent, d) = ToHub(mgr, node.out, d) /\ m.out[d] = mgr.out[d]
        BY <1>1, <2>1, <3>4 DEF ToHub
      <4>2. ChannelAt(m, sent, d)
        BY <2>1, <3>1, <3>2, <4>1 DEF ChannelAt
      <4> QED BY <2>1, <3>1, <4>2 DEF HolderAt
    <3> QED BY <3>3, <3>4
  <2>3. ASSUME NEW r \in Flows PROVE FlowAt(m, r)
    <3>1. FlowAt(mgr, r)
      BY HubNow
    <3> QED BY <2>1, <3>1 DEF FlowAt
  <2>4. BoundTo(m, session) /\ NoneWaits(m)
    <3>1. BoundTo(mgr, session) /\ NoneWaits(mgr)
      BY HubNow DEF HubOK, HubSound
    <3> QED BY <2>1, <3>1 DEF BoundTo, NoneWaits
  <2>5. HubOK(m, sent, session)
    BY <1>1, <2>1, <2>2, <2>3, <2>4 DEF HubOK, HubSound
  <2>6. HubStep(m, sent) /\ Calm
    BY <1>5, <1>6
  <2> QED BY <2>5, <2>6, CalmOK
<1>7. CASE ~refused
  <2>0. gen = session /\ session # 0 /\ session \in 0 .. MaxSessions
    BY <1>7 DEF RcInv
  <2>b. PICK bound : bound = [mgr EXCEPT !.gen[c] = gen]
    OBVIOUS
  <2>1. /\ bound \in Managers /\ bound.state = mgr.state /\ bound.holder = mgr.holder /\ bound.out = mgr.out
        /\ bound.stage = mgr.stage /\ bound.chan = mgr.chan /\ bound.marks = mgr.marks
        /\ bound.gen[c] = session /\ \A d \in Chans \ {c} : bound.gen[d] = mgr.gen[d]
    BY <2>0, <2>b, HubNow DEF Managers
  <2>2. accepted = Send(bound, c, <<yes>>)
    BY <1>a, <2>b
  <2>3. /\ accepted \in Managers /\ accepted.state = bound.state /\ accepted.gen = bound.gen
        /\ accepted.holder = bound.holder
        /\ accepted.stage = bound.stage /\ accepted.chan = bound.chan /\ accepted.marks = bound.marks
        /\ accepted.out[c] = IF node.state[c] = "none" THEN bound.out[c] ELSE Append(bound.out[c], yes)
        /\ \A d \in Chans \ {c} : accepted.out[d] = bound.out[d]
    <3>1. OutSet(bound, accepted, c, IF node.state[c] = "none" THEN bound.out[c] ELSE Append(bound.out[c], yes))
      BY <1>4, <2>1, <2>2, SendSet
    <3> QED BY <3>1 DEF OutSet
  <2>f. PICK free : free = FreeOf(accepted, c)
    OBVIOUS
  <2>4. FreeSet(accepted, free, c)
    BY <2>3, <2>f, FreeIs
  <2>5. /\ free \in Managers /\ free.stage = mgr.stage /\ free.chan = mgr.chan /\ free.marks = mgr.marks
        /\ free.gen[c] = session /\ free.state[c] = "idle" /\ free.holder[c] = None
        /\ free.out[c] = IF node.state[c] = "none" THEN mgr.out[c] ELSE Append(mgr.out[c], yes)
        /\ \A d \in Chans \ {c} : /\ free.state[d] = mgr.state[d] /\ free.holder[d] = mgr.holder[d]
                                  /\ free.gen[d] = mgr.gen[d] /\ free.out[d] = mgr.out[d]
    <3>1. /\ free \in Managers /\ free.stage = accepted.stage /\ free.chan = accepted.chan
          /\ free.marks = accepted.marks /\ free.out = accepted.out /\ free.gen = accepted.gen
          /\ free.state[c] = "idle" /\ free.holder[c] = None
          /\ \A d \in Chans \ {c} : free.state[d] = accepted.state[d] /\ free.holder[d] = accepted.holder[d]
      BY <2>4 DEF FreeSet
    <3>2. free.stage = mgr.stage /\ free.chan = mgr.chan /\ free.marks = mgr.marks /\ free.gen[c] = session
      BY <2>1, <2>3, <3>1
    <3>3. free.out[c] = IF node.state[c] = "none" THEN mgr.out[c] ELSE Append(mgr.out[c], yes)
      BY <2>1, <2>3, <3>1
    <3>4. ASSUME NEW d \in Chans \ {c}
          PROVE  /\ free.state[d] = mgr.state[d] /\ free.holder[d] = mgr.holder[d]
                 /\ free.gen[d] = mgr.gen[d] /\ free.out[d] = mgr.out[d]
      <4>1. free.state[d] = mgr.state[d] /\ free.holder[d] = mgr.holder[d]
        BY <2>1, <2>3, <3>1
      <4>2. free.gen[d] = mgr.gen[d] /\ free.out[d] = mgr.out[d]
        BY <2>1, <2>3, <3>1
      <4> QED BY <4>1, <4>2
    <3> QED BY <3>1, <3>2, <3>3, <3>4
  <2>6. ASSUME NEW d \in Chans PROVE ChannelAt(free, sent, d) /\ HolderAt(free, d)
    <3>1. ChannelAt(mgr, node.out, d) /\ HolderAt(mgr, d)
      BY HubNow DEF HubOK, HubSound
    <3>2. CASE d = c
      <4> PICK others : others = MarksOf(free, None)
        OBVIOUS
      <4>0. ChannelOK("idle", None, others,
                      IF node.state[c] = "none" THEN mgr.out[c] ELSE Append(mgr.out[c], yes),
                      node.state[c], node.flow[c], Tail(node.out[c]))
        BY <1>0, <1>1, <1>8, ChannelAccepted
      <4>1. ChannelOK("idle", None, others, free.out[c],
                      node.state[c], node.flow[c], Tail(node.out[c]))
        BY <2>5, <4>0
      <4>2. ToHub(free, sent, c) = Tail(node.out[c])
        BY <1>1, <1>3 DEF ToHub
      <4>3. ChannelAt(free, sent, c)
        BY <2>5, <4>1, <4>2 DEF ChannelAt
      <4> QED BY <2>5, <3>2, <4>3, ChannelAssumption DEF HolderAt
    <3>3. CASE d # c
      <4>1. ToHub(free, sent, d) = ToHub(mgr, node.out, d) /\ MarksOf(free, free.holder[d]) = MarksOf(mgr, mgr.holder[d])
        BY <1>1, <2>5, <3>3 DEF ToHub, MarksOf
      <4>2. ChannelAt(free, sent, d)
        BY <2>5, <3>1, <3>3, <4>1 DEF ChannelAt
      <4> QED BY <2>5, <3>1, <3>3, <4>2 DEF HolderAt
    <3> QED BY <3>2, <3>3
  <2>7. ASSUME NEW r \in Flows PROVE FlowAt(free, r)
    <3>1. FlowAt(mgr, r) /\ mgr.chan[r] \in Chans \cup {0}
      BY HubNow
    <3>2. mgr.chan[r] # c
      BY <1>3, <3>1, ChannelAssumption, SMT DEF FlowAt, Chans
    <3>3. None # r
      BY ChannelAssumption
    <3>4. \A d \in Chans : free.holder[d] = r => mgr.holder[d] = r
      BY <2>5, <3>3
    <3>5. /\ free.chan[r] = mgr.chan[r] /\ free.stage[r] = mgr.stage[r] /\ free.marks[r] = mgr.marks[r]
          /\ mgr.chan[r] # 0 => /\ free.state[mgr.chan[r]] = mgr.state[mgr.chan[r]]
                                /\ free.holder[mgr.chan[r]] = mgr.holder[mgr.chan[r]]
      BY <2>5, <3>1, <3>2
    <3>6. mgr.chan[r] # 0 => free.state[mgr.chan[r]] # "none" /\ mgr.stage[r] \notin {"new", "waiting"}
      BY <3>1, <3>5 DEF FlowAt
    <3>7. mode[r] = "websocket" /\ mgr.chan[r] # 0 => free.holder[mgr.chan[r]] = r
      BY <3>1, <3>5 DEF FlowAt
    <3>8. mode[r] = "http" /\ "idle" \in mgr.marks[r] => \A d \in Chans : free.holder[d] # r
      BY <3>1, <3>4 DEF FlowAt
    <3>9. mgr.stage[r] \in {"new", "waiting"} => "idle" \notin mgr.marks[r]
      BY <3>1 DEF FlowAt
    <3> QED BY <3>5, <3>6, <3>7, <3>8, <3>9 DEF FlowAt
  <2>8. BoundTo(free, session)
    <3>1. BoundTo(mgr, session)
      BY HubNow DEF HubOK, HubSound
    <3> QED BY <2>0, <2>5, <3>1 DEF BoundTo
  <2>9. HubSound(free, sent, session)
    BY <1>1, <2>5, <2>6, <2>7, <2>8 DEF HubSound
  <2>10. \A q \in Flows, d \in Chans : accepted.stage[q] = "waiting" /\ d # c => accepted.state[d] # "idle"
    BY <2>1, <2>3, HubNow DEF HubOK, NoneWaits
  <2>11. PICK m \in Freed(accepted, c) : HubStep(m, sent)
    BY <1>5, <1>7
  <2>12. HubOK(m, sent, session)
    BY <2>3, <2>9, <2>10, <2>11, <2>f, HubNow, FreedOK
  <2> QED BY <1>5, <2>11, <2>12, CalmOK
<1> QED BY <1>6, <1>7

-----------------------------------------------------------------------------
(* The steps of the node *)

(* What is left for the node to read when it goes to n.                    *)
ToNode(n, sent, c) == IF n.state[c] = "none" THEN <<>> ELSE sent[c]

PoolAt(n, sent, c) ==
    ChannelOK(mgr.state[c], mgr.holder[c], MarksOf(mgr, mgr.holder[c]), ToNode(n, sent, c),
              n.state[c], n.flow[c], n.out[c])

NodeOK(n, sent) ==
    /\ n \in Pools /\ StepsOK(n) /\ sent \in [Chans -> Seq(Frames)]
    /\ \A c \in Chans : PoolAt(n, sent, c)
    /\ \A c \in Chans : mgr.out[c] = <<>> => sent[c] = <<>>

LEMMA NodeStepOK ==
    ASSUME RcInv, NEW n, NEW sent, NodeOK(n, sent), NodeStep(n, sent), Calm \/ Trouble
    PROVE  RcInv'
<1>1. /\ mode' = mode /\ session' = session /\ sessions' = sessions
      /\ trouble' = trouble \/ (trouble < MaxTrouble /\ trouble' = trouble + 1)
  BY DEF Calm, Trouble, Failing
<1>2. session \in 0 .. MaxSessions /\ sessions \in 0 .. MaxSessions /\ trouble \in 0 .. MaxTrouble
  BY DEF RcInv
<1>3. trouble' \in 0 .. MaxTrouble
  BY <1>1, <1>2, ChannelAssumption, SMT
<1>q. PICK q : q = [c \in Chans |-> ToNode(n, sent, c)]
  OBVIOUS
<1>4. q \in [Chans -> Seq(Frames)] /\ \A c \in Chans : q[c] = ToNode(n, sent, c)
  <2>1. ASSUME NEW c \in Chans PROVE ToNode(n, sent, c) \in Seq(Frames)
    BY EmptyQueue DEF ToNode, NodeOK
  <2> QED BY <1>q, <2>1
<1>5. node' = n /\ mgr' = [mgr EXCEPT !.out = q]
  BY <1>q DEF NodeStep, ToNode
<1>6. /\ mgr' \in Managers /\ mgr'.out = q /\ mgr'.state = mgr.state /\ mgr'.gen = mgr.gen
      /\ mgr'.holder = mgr.holder /\ mgr'.stage = mgr.stage /\ mgr'.chan = mgr.chan /\ mgr'.marks = mgr.marks
  BY <1>4, <1>5, HubNow DEF Managers
<1>7. n \in Pools /\ StepsOK(n) /\ n.out \in [Chans -> Seq(Frames)]
  BY DEF NodeOK, Pools
<1>8. ASSUME NEW c \in Chans PROVE ChannelAt(mgr, node.out, c)' /\ HolderAt(mgr, c)'
  <2>1. PoolAt(n, sent, c)
    BY DEF NodeOK
  <2>2. HolderAt(mgr, c)
    BY HubNow DEF HubOK, HubSound
  <2>3. MarksOf(mgr, mgr.holder[c])' = MarksOf(mgr, mgr.holder[c]) /\ ToHub(mgr, node.out, c)' = n.out[c]
    BY <1>5, <1>6 DEF MarksOf, ToHub
  <2>4. ChannelAt(mgr, node.out, c)'
    BY <1>4, <1>5, <1>6, <2>1, <2>3 DEF ChannelAt, PoolAt
  <2>5. HolderAt(mgr, c)'
    BY <1>6, <2>2 DEF HolderAt
  <2> QED BY <2>4, <2>5
<1>9. ASSUME NEW r \in Flows PROVE FlowAt(mgr, r)'
  <2>1. FlowAt(mgr, r)
    BY HubNow
  <2> QED BY <1>1, <1>6, <2>1 DEF FlowAt
<1>10. BoundTo(mgr, session)' /\ NoneWaits(mgr)'
  <2>1. BoundTo(mgr, session) /\ NoneWaits(mgr)
    BY HubNow DEF HubOK, HubSound
  <2> QED BY <1>1, <1>6, <2>1 DEF BoundTo, NoneWaits
<1>11. HubOK(mgr, node.out, session)'
  BY <1>5, <1>6, <1>7, <1>8, <1>9, <1>10 DEF HubOK, HubSound
<1>12. mode \in [Flows -> {"http", "websocket"}]
  BY HubNow
<1>13. /\ mode' \in [Flows -> {"http", "websocket"}]
       /\ session' \in 0 .. MaxSessions /\ sessions' \in 0 .. MaxSessions
  BY <1>1, <1>2, <1>12
<1>14. node' \in Pools /\ StepsOK(node')
  BY <1>5, <1>7
<1> QED BY <1>3, <1>11, <1>13, <1>14 DEF RcInv

LEMMA NodeNow ==
    ASSUME RcInv
    PROVE  /\ NodeOK(node, mgr.out) /\ node \in Pools /\ mgr.out \in [Chans -> Seq(Frames)]
           /\ \A c \in Chans : /\ mgr.state[c] \in HubStates /\ mgr.out[c] \in Seq(Frames) /\ node.state[c] \in NodeStates
                               /\ node.out[c] \in Seq(Frames) /\ node.flow[c] \in Flows \cup {None}
           /\ \A c \in Chans : ChannelOK(mgr.state[c], mgr.holder[c], MarksOf(mgr, mgr.holder[c]), mgr.out[c],
                                         node.state[c], node.flow[c], node.out[c])
<1>1. node \in Pools /\ StepsOK(node) /\ mgr.out \in [Chans -> Seq(Frames)]
  BY HubNow DEF RcInv, Managers
<1>2. \A c \in Chans : /\ mgr.state[c] \in HubStates /\ mgr.out[c] \in Seq(Frames) /\ node.state[c] \in NodeStates
                       /\ node.out[c] \in Seq(Frames) /\ node.flow[c] \in Flows \cup {None}
  BY HubNow DEF Managers, Pools
<1>3. ASSUME NEW c \in Chans
      PROVE  ChannelOK(mgr.state[c], mgr.holder[c], MarksOf(mgr, mgr.holder[c]), mgr.out[c],
                       node.state[c], node.flow[c], node.out[c])
  BY HubNow DEF HubOK, HubSound, ChannelAt
<1>4. ASSUME NEW c \in Chans PROVE PoolAt(node, mgr.out, c)
  <2>1. node.state[c] = "none" => mgr.out[c] = <<>>
    BY <1>3 DEF ChannelOK
  <2>2. ToNode(node, mgr.out, c) = mgr.out[c]
    BY <2>1 DEF ToNode
  <2> QED BY <1>3, <2>2 DEF PoolAt
<1> QED BY <1>1, <1>2, <1>3, <1>4 DEF NodeOK

(* k is n with another channel c.                                          *)
PoolSet(n, k, c, st, fl, sp, q) ==
    /\ k \in Pools /\ k.state[c] = st /\ k.flow[c] = fl /\ k.step[c] = sp /\ k.out[c] = q
    /\ \A d \in Chans \ {c} : /\ k.state[d] = n.state[d] /\ k.flow[d] = n.flow[d]
                              /\ k.step[d] = n.step[d] /\ k.out[d] = n.out[d]

(* sent is what is left to read when the node has read on c alone.         *)
ReadOn(sent, c) ==
    /\ sent \in [Chans -> Seq(Frames)] /\ \A d \in Chans \ {c} : sent[d] = mgr.out[d]
    /\ mgr.out[c] = <<>> => sent[c] = <<>>

LEMMA PoolSetOK ==
    ASSUME RcInv, NEW c \in Chans, NEW k, NEW st, NEW fl, NEW sp, NEW q, NEW sent, ReadOn(sent, c),
           PoolSet(node, k, c, st, fl, sp, q), sp # "none" <=> st = "busy",
           ChannelOK(mgr.state[c], mgr.holder[c], MarksOf(mgr, mgr.holder[c]),
                     IF st = "none" THEN <<>> ELSE sent[c], st, fl, q)
    PROVE  NodeOK(k, sent)
<1>1. k \in Pools /\ sent \in [Chans -> Seq(Frames)] /\ \A d \in Chans : mgr.out[d] = <<>> => sent[d] = <<>>
  BY DEF PoolSet, ReadOn
<1>2. StepsOK(node) /\ \A d \in Chans : PoolAt(node, mgr.out, d)
  BY NodeNow DEF NodeOK
<1>3. StepsOK(k)
  BY <1>2 DEF StepsOK, PoolSet
<1>4. ASSUME NEW d \in Chans PROVE PoolAt(k, sent, d)
  <2>1. CASE d = c
    <3>1. ToNode(k, sent, c) = IF st = "none" THEN <<>> ELSE sent[c]
      BY DEF ToNode, PoolSet
    <3> QED BY <2>1, <3>1 DEF PoolAt, PoolSet
  <2>2. CASE d # c
    <3>1. /\ k.state[d] = node.state[d] /\ k.flow[d] = node.flow[d] /\ k.out[d] = node.out[d]
          /\ ToNode(k, sent, d) = ToNode(node, mgr.out, d)
      BY <2>2 DEF ToNode, PoolSet, ReadOn
    <3>2. PoolAt(node, mgr.out, d)
      BY <1>2
    <3> QED BY <3>1, <3>2 DEF PoolAt
  <2> QED BY <2>1, <2>2
<1> QED BY <1>1, <1>3, <1>4 DEF NodeOK

DroppedTo(n, c) ==
    IF mgr.state[c] = "none" /\ n.out[c] = <<>> THEN n.out[c] ELSE Append(n.out[c], Fin)

LEMMA DroppedIs ==
    ASSUME NEW n \in Pools, NEW S \in SUBSET Chans
    PROVE  LET k == Dropped(n, S) IN
           /\ k \in Pools /\ k.session = n.session /\ k.stopped = n.stopped
           /\ \A c \in S : k.state[c] = "none" /\ k.flow[c] = None /\ k.step[c] = "none" /\ k.out[c] = DroppedTo(n, c)
           /\ \A c \in Chans \ S : /\ k.state[c] = n.state[c] /\ k.flow[c] = n.flow[c]
                                   /\ k.step[c] = n.step[c] /\ k.out[c] = n.out[c]
<1>s. PICK st : st = [c \in Chans |-> IF c \in S THEN "none" ELSE n.state[c]]
  OBVIOUS
<1>f. PICK fl : fl = [c \in Chans |-> IF c \in S THEN None ELSE n.flow[c]]
  OBVIOUS
<1>p. PICK sp : sp = [c \in Chans |-> IF c \in S THEN "none" ELSE n.step[c]]
  OBVIOUS
<1>o. PICK ou : ou = [c \in Chans |-> IF c \notin S \/ (mgr.state[c] = "none" /\ n.out[c] = <<>>) THEN n.out[c]
                                      ELSE Append(n.out[c], Fin)]
  OBVIOUS
<1>k. PICK k : k = Dropped(n, S)
  OBVIOUS
<1>1. /\ n.state \in [Chans -> NodeStates] /\ n.flow \in [Chans -> Flows \cup {None}]
      /\ n.step \in [Chans -> Steps] /\ n.out \in [Chans -> Seq(Frames)]
  BY DEF Pools
<1>2. st \in [Chans -> NodeStates] /\ fl \in [Chans -> Flows \cup {None}] /\ sp \in [Chans -> Steps]
  BY <1>s, <1>f, <1>p, <1>1 DEF NodeStates, Steps
<1>3. ou \in [Chans -> Seq(Frames)]
  <2>1. ASSUME NEW c \in Chans
        PROVE  (IF c \notin S \/ (mgr.state[c] = "none" /\ n.out[c] = <<>>) THEN n.out[c]
                ELSE Append(n.out[c], Fin)) \in Seq(Frames)
    BY <1>1, AppendFrame, FinAtEnd
  <2> QED BY <1>o, <2>1
<1>4. k = [n EXCEPT !.state = st, !.flow = fl, !.step = sp, !.out = ou]
  BY <1>s, <1>f, <1>p, <1>o, <1>k, Zenon DEF Dropped
<1>5. /\ k \in Pools /\ k.session = n.session /\ k.stopped = n.stopped
      /\ k.state = st /\ k.flow = fl /\ k.step = sp /\ k.out = ou
  BY <1>2, <1>3, <1>4 DEF Pools
<1>6. ASSUME NEW c \in S
      PROVE  k.state[c] = "none" /\ k.flow[c] = None /\ k.step[c] = "none" /\ k.out[c] = DroppedTo(n, c)
  BY <1>5, <1>s, <1>f, <1>p, <1>o DEF DroppedTo
<1>7. ASSUME NEW c \in Chans \ S
      PROVE  /\ k.state[c] = n.state[c] /\ k.flow[c] = n.flow[c]
             /\ k.step[c] = n.step[c] /\ k.out[c] = n.out[c]
  BY <1>5, <1>s, <1>f, <1>p, <1>o
<1> QED BY <1>5, <1>6, <1>7, <1>k

LEMMA DroppedOK ==
    ASSUME NEW n, NEW sent, NodeOK(n, sent), mgr \in Managers, NEW S \in SUBSET Chans, \A c \in S : n.state[c] # "none",
           NEW left \in [Chans -> Seq(Frames)], \A c \in Chans \ S : left[c] = sent[c],
           \A c \in Chans : mgr.out[c] = <<>> => left[c] = <<>>
    PROVE  NodeOK(Dropped(n, S), left)
<1>k. PICK k : k = Dropped(n, S)
  OBVIOUS
<1>1. n \in Pools /\ StepsOK(n) /\ sent \in [Chans -> Seq(Frames)] /\ \A c \in Chans : PoolAt(n, sent, c)
  BY DEF NodeOK
<1>2. /\ k \in Pools /\ k.session = n.session /\ k.stopped = n.stopped
      /\ \A c \in S : k.state[c] = "none" /\ k.flow[c] = None /\ k.step[c] = "none" /\ k.out[c] = DroppedTo(n, c)
      /\ \A c \in Chans \ S : /\ k.state[c] = n.state[c] /\ k.flow[c] = n.flow[c]
                              /\ k.step[c] = n.step[c] /\ k.out[c] = n.out[c]
  BY <1>1, <1>k, DroppedIs
<1>3. ASSUME NEW c \in Chans PROVE PoolAt(k, left, c) /\ (k.step[c] # "none" <=> k.state[c] = "busy")
  <2>1. PoolAt(n, sent, c) /\ (n.step[c] # "none" <=> n.state[c] = "busy")
    BY <1>1 DEF StepsOK
  <2>2. CASE c \in S
    <3>1. /\ mgr.state[c] \in HubStates /\ sent[c] \in Seq(Frames) /\ n.state[c] \in NodeStates
          /\ n.out[c] \in Seq(Frames) /\ n.state[c] # "none"
      BY <1>1, <2>2 DEF Managers, Pools
    <3>2. ChannelOK(mgr.state[c], mgr.holder[c], MarksOf(mgr, mgr.holder[c]), sent[c],
                    n.state[c], n.flow[c], n.out[c])
      BY <2>1, <3>1 DEF PoolAt, ToNode
    <3>3. ChannelOK(mgr.state[c], mgr.holder[c], MarksOf(mgr, mgr.holder[c]), <<>>, "none", None,
                    IF mgr.state[c] = "none" /\ n.out[c] = <<>> THEN n.out[c] ELSE Append(n.out[c], Fin))
      BY <3>1, <3>2, ChannelDrops
    <3>4. ToNode(k, left, c) = <<>>
      BY <1>2, <2>2 DEF ToNode
    <3>5. PoolAt(k, left, c)
      BY <1>2, <2>2, <3>3, <3>4 DEF PoolAt, DroppedTo
    <3> QED BY <1>2, <2>2, <3>5
  <2>3. CASE c \notin S
    <3>1. /\ k.state[c] = n.state[c] /\ k.flow[c] = n.flow[c] /\ k.step[c] = n.step[c] /\ k.out[c] = n.out[c]
          /\ left[c] = sent[c]
      BY <1>2, <2>3
    <3>2. ToNode(k, left, c) = ToNode(n, sent, c)
      BY <3>1 DEF ToNode
    <3> QED BY <2>1, <3>1, <3>2 DEF PoolAt
  <2> QED BY <2>2, <2>3
<1>4. StepsOK(k)
  BY <1>3 DEF StepsOK
<1> QED BY <1>2, <1>3, <1>4, <1>k DEF NodeOK

(* k is n after the channels of D have been dialled.                       *)
DialsSet(n, k, D) ==
    /\ k \in Pools /\ k.flow = n.flow /\ k.step = n.step
    /\ \A c \in D : k.state[c] = "connecting" /\ k.out[c] = <<F("upgrade", n.session)>>
    /\ \A c \in Chans \ D : k.state[c] = n.state[c] /\ k.out[c] = n.out[c]

LEMMA ReplenishIs ==
    ASSUME NEW n \in Pools
    PROVE  \E D \in SUBSET Unused(n) : DialsSet(n, Replenish(n), D)
<1> PICK ready : ready = Count(n, {"idle", "connecting"})
  OBVIOUS
<1> PICK total : total = ready + Count(n, {"busy"})
  OBVIOUS
<1> PICK missing : missing = IF IdleTarget - ready < MaxChannels - total
                             THEN IdleTarget - ready ELSE MaxChannels - total
  OBVIOUS
<1>d. PICK D : D = IF n.stopped \/ missing =< 0 THEN {} ELSE Least(Unused(n), missing)
  OBVIOUS
<1>s. PICK st : st = [c \in Chans |-> IF c \in D THEN "connecting" ELSE n.state[c]]
  OBVIOUS
<1>o. PICK ou : ou = [c \in Chans |-> IF c \in D THEN <<F("upgrade", n.session)>> ELSE n.out[c]]
  OBVIOUS
<1>k. PICK k : k = Replenish(n)
  OBVIOUS
<1>1. D \in SUBSET Unused(n) /\ D \subseteq Chans
  BY <1>d DEF Least, Unused
<1>2. k = [n EXCEPT !.state = st, !.out = ou]
  BY <1>d, <1>s, <1>o, <1>k, Zenon DEF Replenish
<1>3. n.state \in [Chans -> NodeStates] /\ n.out \in [Chans -> Seq(Frames)] /\ n.session \in 0 .. MaxSessions
  BY DEF Pools
<1>4. F("upgrade", n.session) \in Frames
  BY <1>3 DEF F, Frames, FrameKinds
<1>5. <<F("upgrade", n.session)>> \in Seq(Frames)
  BY <1>4
<1>6. st \in [Chans -> NodeStates] /\ ou \in [Chans -> Seq(Frames)]
  BY <1>s, <1>o, <1>3, <1>5 DEF NodeStates
<1>7. k \in Pools /\ k.flow = n.flow /\ k.step = n.step /\ k.state = st /\ k.out = ou
  BY <1>2, <1>6 DEF Pools
<1>8. DialsSet(n, k, D)
  <2>1. \A c \in D : k.state[c] = "connecting" /\ k.out[c] = <<F("upgrade", n.session)>>
    BY <1>1, <1>7, <1>s, <1>o
  <2>2. \A c \in Chans \ D : k.state[c] = n.state[c] /\ k.out[c] = n.out[c]
    BY <1>7, <1>s, <1>o
  <2> QED BY <1>7, <2>1, <2>2 DEF DialsSet
<1> QED BY <1>1, <1>8, <1>k

LEMMA ReplenishOK ==
    ASSUME NEW n, NEW sent, NodeOK(n, sent)
    PROVE  NodeOK(Replenish(n), sent)
<1>k. PICK k : k = Replenish(n)
  OBVIOUS
<1>1. /\ n \in Pools /\ StepsOK(n) /\ sent \in [Chans -> Seq(Frames)] /\ \A c \in Chans : PoolAt(n, sent, c)
      /\ \A c \in Chans : mgr.out[c] = <<>> => sent[c] = <<>>
  BY DEF NodeOK
<1>2. PICK D \in SUBSET Unused(n) : DialsSet(n, k, D)
  BY <1>1, <1>k, ReplenishIs
<1>3. ASSUME NEW c \in Chans PROVE PoolAt(k, sent, c) /\ (k.step[c] # "none" <=> k.state[c] = "busy")
  <2>1. PoolAt(n, sent, c) /\ (n.step[c] # "none" <=> n.state[c] = "busy")
    BY <1>1 DEF StepsOK
  <2>2. CASE c \in D
    <3>1. n.state[c] = "none" /\ n.out[c] = <<>> /\ mgr.state[c] = "none" /\ mgr.out[c] = <<>>
      BY <2>2 DEF Unused
    <3>2. k.state[c] = "connecting" /\ k.out[c] = <<F("upgrade", n.session)>> /\ k.flow[c] = n.flow[c] /\ k.step[c] = n.step[c]
      BY <1>2, <2>2 DEF DialsSet
    <3>3. ToNode(n, sent, c) = <<>> /\ ToNode(k, sent, c) = <<>>
      BY <1>1, <3>1, <3>2 DEF ToNode
    <3>4. ChannelOK("none", mgr.holder[c], MarksOf(mgr, mgr.holder[c]), <<>>, "none", n.flow[c], <<>>)
      BY <2>1, <3>1, <3>3 DEF PoolAt
    <3>5. n.session \in 0 .. MaxSessions
      BY <1>1 DEF Pools
    <3>6. ChannelOK("none", mgr.holder[c], MarksOf(mgr, mgr.holder[c]), <<>>, "connecting", n.flow[c],
                    <<F("upgrade", n.session)>>)
      BY <3>4, <3>5, ChannelDials
    <3>7. PoolAt(k, sent, c)
      BY <3>1, <3>2, <3>3, <3>6 DEF PoolAt
    <3> QED BY <2>1, <3>1, <3>2, <3>7
  <2>3. CASE c \notin D
    <3>1. k.state[c] = n.state[c] /\ k.flow[c] = n.flow[c] /\ k.step[c] = n.step[c] /\ k.out[c] = n.out[c]
      BY <1>2, <2>3 DEF DialsSet
    <3>2. ToNode(k, sent, c) = ToNode(n, sent, c)
      BY <3>1 DEF ToNode
    <3> QED BY <2>1, <3>1, <3>2 DEF PoolAt
  <2> QED BY <2>2, <2>3
<1>4. StepsOK(k) /\ k \in Pools
  BY <1>2, <1>3 DEF StepsOK, DialsSet
<1> QED BY <1>1, <1>3, <1>4, <1>k DEF NodeOK

LEMMA ClosePoolOK ==
    ASSUME NEW n, NEW sent, NodeOK(n, sent), mgr \in Managers, NEW c \in Chans, n.state[c] # "none",
           NEW left \in [Chans -> Seq(Frames)], \A d \in Chans \ {c} : left[d] = sent[d],
           \A d \in Chans : mgr.out[d] = <<>> => left[d] = <<>>
    PROVE  NodeOK(ClosePoolChannel(n, c), left)
<1>1. NodeOK(Dropped(n, {c}), left)
  BY DroppedOK
<1> QED BY <1>1, ReplenishOK DEF ClosePoolChannel

(* k is n with other fields than those of its channels.                    *)
LEMMA PoolSameOK ==
    ASSUME NEW n, NEW sent, NodeOK(n, sent), NEW k \in Pools,
           k.state = n.state, k.flow = n.flow, k.step = n.step, k.out = n.out
    PROVE  NodeOK(k, sent)
<1>1. ASSUME NEW c \in Chans PROVE PoolAt(k, sent, c)
  <2>1. PoolAt(n, sent, c)
    BY DEF NodeOK
  <2> QED BY <2>1 DEF PoolAt, ToNode
<1> QED BY <1>1 DEF NodeOK, StepsOK

LEMMA SetSessionOK == ASSUME RcInv, SetSession PROVE RcInv'
<1>n. PICK n : n = [node EXCEPT !.session = session, !.stopped = FALSE]
  OBVIOUS
<1>1. session \in 0 .. MaxSessions
  BY DEF RcInv
<1>2. n \in Pools /\ n.state = node.state /\ n.flow = node.flow /\ n.step = node.step /\ n.out = node.out
  BY <1>1, <1>n, NodeNow DEF Pools
<1>3. NodeOK(Replenish(n), mgr.out)
  BY <1>2, NodeNow, PoolSameOK, ReplenishOK
<1> QED BY <1>3, <1>n, NodeStepOK DEF SetSession

LEMMA ClearSessionOK == ASSUME RcInv, ClearSession PROVE RcInv'
<1>h. PICK held : held = {c \in Chans : node.state[c] # "none"}
  OBVIOUS
<1>k. PICK k : k = Dropped(node, held)
  OBVIOUS
<1>n. PICK n : n = [k EXCEPT !.stopped = TRUE]
  OBVIOUS
<1>1. held \in SUBSET Chans /\ \A c \in held : node.state[c] # "none"
  BY <1>h
<1>2. NodeOK(k, mgr.out) /\ k \in Pools
  <2>1. mgr \in Managers /\ NodeOK(node, mgr.out) /\ mgr.out \in [Chans -> Seq(Frames)]
    BY HubNow, NodeNow
  <2>2. NodeOK(k, mgr.out)
    BY <1>1, <1>k, <2>1, DroppedOK
  <2> QED BY <2>2 DEF NodeOK
<1>3. n \in Pools /\ n.state = k.state /\ n.flow = k.flow /\ n.step = k.step /\ n.out = k.out
  BY <1>2, <1>n DEF Pools
<1>4. NodeOK(n, mgr.out)
  BY <1>2, <1>3, PoolSameOK
<1>5. NodeStep(n, mgr.out) /\ (Calm \/ Trouble)
  BY <1>h, <1>k, <1>n DEF ClearSession
<1> QED BY <1>4, <1>5, NodeStepOK

LEMMA ReplenishAgainOK == ASSUME RcInv, ReplenishAgain PROVE RcInv'
<1>1. NodeOK(Replenish(node), mgr.out)
  BY NodeNow, ReplenishOK
<1> QED BY <1>1, NodeStepOK DEF ReplenishAgain

LEMMA PoppedIs ==
    ASSUME RcInv, NEW c \in Chans, mgr.out[c] # <<>>
    PROVE  ReadOn(Popped(mgr.out, c), c) /\ Popped(mgr.out, c)[c] = Tail(mgr.out[c])
<1>1. mgr.out \in [Chans -> Seq(Frames)] /\ mgr.out[c] \in Seq(Frames)
  BY NodeNow
<1>2. Tail(mgr.out[c]) \in Seq(Frames)
  BY <1>1, TailFrames
<1> QED BY <1>1, <1>2 DEF ReadOn, Popped

(* The node closes a channel on which it has read or not.                  *)
LEMMA ClosesOK ==
    ASSUME RcInv, NEW c \in Chans, node.state[c] # "none", NEW sent, ReadOn(sent, c)
    PROVE  NodeOK(ClosePoolChannel(node, c), sent)
<1>1. NodeOK(node, mgr.out) /\ mgr \in Managers
  BY HubNow, NodeNow
<1>2. \A d \in Chans : mgr.out[d] = <<>> => sent[d] = <<>>
  BY DEF ReadOn
<1> QED BY <1>1, <1>2, ClosePoolOK DEF ReadOn

LEMMA HandshakeAnsweredOK == ASSUME RcInv, NEW c \in Chans, HandshakeAnswered(c) PROVE RcInv'
<1>s. PICK sent : sent = Popped(mgr.out, c)
  OBVIOUS
<1>n. PICK n : n = [node EXCEPT !.state[c] = "idle"]
  OBVIOUS
<1>1. node.state[c] = "connecting" /\ mgr.out[c] # <<>> /\ Calm
  BY DEF HandshakeAnswered
<1>2. ReadOn(sent, c) /\ sent[c] = Tail(mgr.out[c])
  BY <1>1, <1>s, PoppedIs
<1>3. CASE Head(mgr.out[c]).kind = "accept"
  <2>1. PoolSet(node, n, c, "idle", node.flow[c], node.step[c], node.out[c])
    BY <1>n, NodeNow DEF PoolSet, Pools, NodeStates
  <2>2. node.step[c] = "none"
    BY <1>1, NodeNow DEF NodeOK, StepsOK
  <2>3. ChannelOK(mgr.state[c], mgr.holder[c], MarksOf(mgr, mgr.holder[c]), mgr.out[c],
                  "connecting", node.flow[c], node.out[c])
    BY <1>1, NodeNow
  <2>4. ChannelOK(mgr.state[c], mgr.holder[c], MarksOf(mgr, mgr.holder[c]), Tail(mgr.out[c]),
                  "idle", node.flow[c], node.out[c])
    BY <1>1, <1>3, <2>3, NodeNow, ChannelOpens
  <2>5. ChannelOK(mgr.state[c], mgr.holder[c], MarksOf(mgr, mgr.holder[c]),
                  IF "idle" = "none" THEN <<>> ELSE sent[c], "idle", node.flow[c], node.out[c])
    BY <1>2, <2>4
  <2>6. NodeOK(n, sent)
    BY <1>2, <2>1, <2>2, <2>5, PoolSetOK
  <2>7. NodeOK(Replenish(n), sent)
    BY <2>6, ReplenishOK
  <2>8. NodeStep(Replenish(n), sent)
    BY <1>3, <1>s, <1>n DEF HandshakeAnswered
  <2> QED BY <1>1, <2>7, <2>8, NodeStepOK
<1>4. CASE Head(mgr.out[c]).kind # "accept"
  <2>1. NodeStep(ClosePoolChannel(node, c), sent)
    BY <1>4, <1>s DEF HandshakeAnswered
  <2>2. NodeOK(ClosePoolChannel(node, c), sent)
    BY <1>1, <1>2, ClosesOK
  <2> QED BY <1>1, <2>1, <2>2, NodeStepOK
<1> QED BY <1>3, <1>4

LEMMA NodeReceivesOK == ASSUME RcInv, NEW c \in Chans, NodeReceives(c) PROVE RcInv'
<1>s. PICK sent : sent = Popped(mgr.out, c)
  OBVIOUS
<1>f. PICK f : f = Head(mgr.out[c])
  OBVIOUS
<1>1. node.state[c] \in {"idle", "busy"} /\ mgr.out[c] # <<>> /\ Calm
  BY DEF NodeReceives
<1>2. ReadOn(sent, c) /\ sent[c] = Tail(mgr.out[c])
  BY <1>1, <1>s, PoppedIs
<1>3. NodeStep(OnHubMessage(c, f), sent)
  BY <1>s, <1>f DEF NodeReceives
<1>4. ChannelOK(mgr.state[c], mgr.holder[c], MarksOf(mgr, mgr.holder[c]), mgr.out[c],
                node.state[c], node.flow[c], node.out[c])
  BY NodeNow
<1>5. CASE f.kind = "open" /\ node.state[c] = "idle"
  <2>n. PICK n : n = Executing(node, c, f.flow)
    OBVIOUS
  <2>1. ChannelOK(mgr.state[c], mgr.holder[c], MarksOf(mgr, mgr.holder[c]), mgr.out[c],
                  "idle", node.flow[c], node.out[c])
    BY <1>4, <1>5
  <2>2. /\ ChannelOK(mgr.state[c], mgr.holder[c], MarksOf(mgr, mgr.holder[c]), Tail(mgr.out[c]),
                     "busy", Head(mgr.out[c]).flow, node.out[c])
        /\ Head(mgr.out[c]).flow \in Flows
    BY <1>1, <1>5, <1>f, <2>1, NodeNow, ChannelExecutes
  <2>3. f.flow \in Flows
    BY <1>f, <2>2
  <2>4. PoolSet(node, n, c, "busy", f.flow, "requested", node.out[c])
    BY <2>3, <2>n, NodeNow DEF PoolSet, Pools, NodeStates, Steps, Executing
  <2>5. ChannelOK(mgr.state[c], mgr.holder[c], MarksOf(mgr, mgr.holder[c]),
                  IF "busy" = "none" THEN <<>> ELSE sent[c], "busy", f.flow, node.out[c])
    BY <1>2, <1>f, <2>2
  <2>6. NodeOK(n, sent)
    BY <1>2, <2>4, <2>5, PoolSetOK
  <2>7. NodeStep(n, sent)
    BY <1>3, <1>5, <2>n DEF OnHubMessage
  <2> QED BY <1>1, <2>6, <2>7, NodeStepOK
<1>6. CASE f.kind \in {"request-end", "abort"} \/ (f.kind = "body" /\ node.flow[c] # None)
  <2>1. Head(mgr.out[c]) # Fin
    BY <1>6, <1>f DEF Fin, F
  <2>2. ChannelOK(mgr.state[c], mgr.holder[c], MarksOf(mgr, mgr.holder[c]), Tail(mgr.out[c]),
                  node.state[c], node.flow[c], node.out[c])
    BY <1>1, <1>4, <2>1, NodeNow, ChannelSkips
  <2>3. PoolSet(node, node, c, node.state[c], node.flow[c], node.step[c], node.out[c])
    BY NodeNow DEF PoolSet
  <2>4. node.step[c] # "none" <=> node.state[c] = "busy"
    BY NodeNow DEF NodeOK, StepsOK
  <2>5. ChannelOK(mgr.state[c], mgr.holder[c], MarksOf(mgr, mgr.holder[c]),
                  IF node.state[c] = "none" THEN <<>> ELSE sent[c], node.state[c], node.flow[c], node.out[c])
    BY <1>1, <1>2, <2>2
  <2>6. NodeOK(node, sent)
    BY <1>2, <2>3, <2>4, <2>5, PoolSetOK
  <2>7. OnHubMessage(c, f) = node
    BY <1>6 DEF OnHubMessage
  <2> QED BY <1>1, <1>3, <2>6, <2>7, NodeStepOK
<1>7. CASE /\ ~(f.kind = "open" /\ node.state[c] = "idle")
           /\ ~(f.kind \in {"request-end", "abort"} \/ (f.kind = "body" /\ node.flow[c] # None))
  <2>1. OnHubMessage(c, f) = ClosePoolChannel(node, c)
    BY <1>7 DEF OnHubMessage
  <2>2. NodeOK(ClosePoolChannel(node, c), sent)
    BY <1>1, <1>2, ClosesOK
  <2> QED BY <1>1, <1>3, <2>1, <2>2, NodeStepOK
<1> QED BY <1>5, <1>6, <1>7

LEMMA NothingRead == ASSUME RcInv, NEW c \in Chans PROVE ReadOn(mgr.out, c)
  BY NodeNow DEF ReadOn

LEMMA NodeCloseOK ==
    ASSUME RcInv, NEW c \in Chans, NodeSeesClose(c) \/ NodeSocketFails(c)
    PROVE  RcInv'
<1>1. node.state[c] # "none" /\ NodeStep(ClosePoolChannel(node, c), mgr.out) /\ (Calm \/ Trouble)
  BY DEF NodeSeesClose, NodeSocketFails
<1>2. NodeOK(ClosePoolChannel(node, c), mgr.out)
  BY <1>1, NothingRead, ClosesOK
<1> QED BY <1>1, <1>2, NodeStepOK

SentTo(n, c, f) == IF mgr.state[c] = "none" THEN n.out[c] ELSE Append(n.out[c], f)

LEMMA NodeSendsIs ==
    ASSUME NEW n \in Pools, NEW c \in Chans, NEW f \in Frames, NEW k, k = NodeSends(n, c, <<f>>)
    PROVE  PoolSet(n, k, c, n.state[c], n.flow[c], n.step[c], SentTo(n, c, f))
<1>1. n.out \in [Chans -> Seq(Frames)] /\ n.out[c] \in Seq(Frames)
  BY DEF Pools
<1>2. n.out[c] \o <<f>> = Append(n.out[c], f) /\ Append(n.out[c], f) \in Seq(Frames)
  BY <1>1, AppendFrame, ConcatFrames
<1>3. CASE mgr.state[c] = "none"
  BY <1>3 DEF NodeSends, SentTo, PoolSet
<1>4. CASE mgr.state[c] # "none"
  <2>q. PICK q : q = Append(n.out[c], f)
    OBVIOUS
  <2>1. k = [n EXCEPT !.out[c] = q]
    BY <1>2, <1>4, <2>q DEF NodeSends
  <2>2. q \in Seq(Frames) /\ SentTo(n, c, f) = q
    BY <1>2, <1>4, <2>q DEF SentTo
  <2>l. PICK l : l = [n EXCEPT !.out[c] = q]
    OBVIOUS
  <2>3. /\ l \in Pools /\ l.state = n.state /\ l.flow = n.flow /\ l.step = n.step /\ l.out[c] = q
        /\ \A d \in Chans \ {c} : l.out[d] = n.out[d]
    BY <1>1, <2>2, <2>l DEF Pools
  <2>4. l = k
    BY <2>1, <2>l
  <2> QED BY <2>2, <2>3, <2>4 DEF PoolSet
<1> QED BY <1>3, <1>4

(* The node tells the Hub that it gives up and closes the channel.         *)
LEMMA AbortsOK ==
    ASSUME RcInv, NEW c \in Chans, node.state[c] # "none", NEW r \in Flows
    PROVE  NodeOK(ClosePoolChannel(NodeSends(node, c, <<F("abort", r)>>), c), mgr.out)
<1>f. PICK f : f = F("abort", r)
  OBVIOUS
<1>n. PICK n : n = NodeSends(node, c, <<f>>)
  OBVIOUS
<1>1. f \in Frames /\ f.kind = "abort"
  BY <1>f DEF F, Frames, FrameKinds
<1>2. PoolSet(node, n, c, node.state[c], node.flow[c], node.step[c], SentTo(node, c, f))
  BY <1>1, <1>n, NodeNow, NodeSendsIs
<1>3. ChannelOK(mgr.state[c], mgr.holder[c], MarksOf(mgr, mgr.holder[c]), mgr.out[c],
                node.state[c], node.flow[c], SentTo(node, c, f))
  <2>1. ChannelOK(mgr.state[c], mgr.holder[c], MarksOf(mgr, mgr.holder[c]), mgr.out[c],
                  node.state[c], node.flow[c], node.out[c])
    BY NodeNow
  <2>2. CASE mgr.state[c] = "none"
    BY <2>1, <2>2 DEF SentTo
  <2>3. CASE mgr.state[c] # "none"
    <3>1. ChannelOK(mgr.state[c], mgr.holder[c], MarksOf(mgr, mgr.holder[c]), mgr.out[c],
                    node.state[c], node.flow[c], Append(node.out[c], f))
      BY <1>1, <2>1, <2>3, NodeNow, ChannelAborts
    <3> QED BY <2>3, <3>1 DEF SentTo
  <2> QED BY <2>2, <2>3
<1>4. ChannelOK(mgr.state[c], mgr.holder[c], MarksOf(mgr, mgr.holder[c]),
                IF node.state[c] = "none" THEN <<>> ELSE mgr.out[c], node.state[c], node.flow[c], SentTo(node, c, f))
  BY <1>3
<1>5. node.step[c] # "none" <=> node.state[c] = "busy"
  BY NodeNow DEF NodeOK, StepsOK
<1>6. NodeOK(n, mgr.out)
  BY <1>2, <1>4, <1>5, NothingRead, PoolSetOK
<1>7. n.state[c] # "none" /\ mgr \in Managers /\ mgr.out \in [Chans -> Seq(Frames)]
  BY <1>2, HubNow, NodeNow DEF PoolSet
<1>8. NodeOK(ClosePoolChannel(n, c), mgr.out)
  BY <1>6, <1>7, ClosePoolOK
<1> QED BY <1>8, <1>f, <1>n

LEMMA OpenDeniedOK == ASSUME RcInv, NEW c \in Chans, OpenDenied(c) PROVE RcInv'
<1>r. PICK r : r = Head(mgr.out[c]).flow
  OBVIOUS
<1>1. /\ node.state[c] = "idle" /\ mgr.out[c] # <<>> /\ Head(mgr.out[c]).kind = "open" /\ Trouble
      /\ NodeStep(ClosePoolChannel(NodeSends(node, c, <<F("abort", r)>>), c), mgr.out)
  BY <1>r DEF OpenDenied
<1>2. r \in Flows
  <2>1. OpensFlows(mgr.out[c]) /\ mgr.out[c] \in Seq(Frames)
    BY NodeNow DEF ChannelOK
  <2> QED BY <1>1, <1>r, <2>1, OpensTail
<1>3. NodeOK(ClosePoolChannel(NodeSends(node, c, <<F("abort", r)>>), c), mgr.out)
  BY <1>1, <1>2, AbortsOK
<1> QED BY <1>1, <1>3, NodeStepOK

LEMMA BusyServes ==
    ASSUME RcInv, NEW c \in Chans, node.state[c] = "busy"
    PROVE  /\ node.flow[c] \in Flows
           /\ ChannelOK(mgr.state[c], mgr.holder[c], MarksOf(mgr, mgr.holder[c]), mgr.out[c],
                        "busy", node.flow[c], node.out[c])
<1>1. ChannelOK(mgr.state[c], mgr.holder[c], MarksOf(mgr, mgr.holder[c]), mgr.out[c],
                node.state[c], node.flow[c], node.out[c])
  BY NodeNow
<1> QED BY <1>1 DEF ChannelOK

LEMMA DshFailsOK == ASSUME RcInv, NEW c \in Chans, DshFails(c) PROVE RcInv'
<1>r. PICK r : r = node.flow[c]
  OBVIOUS
<1>1. /\ node.state[c] = "busy" /\ Trouble
      /\ NodeStep(ClosePoolChannel(NodeSends(node, c, <<F("abort", r)>>), c), mgr.out)
  BY <1>r DEF DshFails
<1>2. r \in Flows
  BY <1>1, <1>r, BusyServes
<1>3. NodeOK(ClosePoolChannel(NodeSends(node, c, <<F("abort", r)>>), c), mgr.out)
  BY <1>1, <1>2, AbortsOK
<1> QED BY <1>1, <1>3, NodeStepOK

LEMMA DshRespondsOK == ASSUME RcInv, NEW c \in Chans, DshResponds(c) PROVE RcInv'
<1>r. PICK r : r = node.flow[c]
  OBVIOUS
<1>1. PICK answer \in {"response", "switch"} :
        NodeStep([NodeSends(node, c, <<F(answer, r)>>) EXCEPT
                    !.step[c] = IF answer = "switch" THEN "upgraded" ELSE "responding"], mgr.out)
  BY <1>r DEF DshResponds
<1>x. PICK x : x = IF answer = "switch" THEN "upgraded" ELSE "responding"
  OBVIOUS
<1>f. PICK f : f = F(answer, r)
  OBVIOUS
<1>n. PICK n : n = NodeSends(node, c, <<f>>)
  OBVIOUS
<1>k. PICK k : k = [n EXCEPT !.step[c] = x]
  OBVIOUS
<1>2. node.state[c] = "busy" /\ Calm
  BY NodeNow DEF DshResponds, NodeOK, StepsOK
<1>3. r \in Flows /\ f \in Frames /\ f.kind \in {"response", "switch", "response-end"} /\ f.flow = node.flow[c]
  <2>1. r \in Flows
    BY <1>2, <1>r, BusyServes
  <2> QED BY <1>r, <1>f, <2>1 DEF F, Frames, FrameKinds
<1>4. PoolSet(node, n, c, node.state[c], node.flow[c], node.step[c], SentTo(node, c, f))
  BY <1>3, <1>n, NodeNow, NodeSendsIs
<1>5. PoolSet(node, k, c, node.state[c], node.flow[c], x, SentTo(node, c, f))
  <2>1. x \in Steps
    BY <1>x DEF Steps
  <2>2. /\ k \in Pools /\ k.state = n.state /\ k.flow = n.flow /\ k.out = n.out /\ k.step[c] = x
        /\ \A d \in Chans \ {c} : k.step[d] = n.step[d]
    BY <1>4, <1>k, <2>1 DEF PoolSet, Pools
  <2> QED BY <1>4, <2>2 DEF PoolSet
<1>6. ChannelOK(mgr.state[c], mgr.holder[c], MarksOf(mgr, mgr.holder[c]), mgr.out[c],
                "busy", node.flow[c], SentTo(node, c, f))
  <2>1. ChannelOK(mgr.state[c], mgr.holder[c], MarksOf(mgr, mgr.holder[c]), mgr.out[c],
                  "busy", node.flow[c], node.out[c])
    BY <1>2, BusyServes
  <2>2. CASE mgr.state[c] = "none"
    BY <2>1, <2>2 DEF SentTo
  <2>3. CASE mgr.state[c] # "none"
    <3>1. ChannelOK(mgr.state[c], mgr.holder[c], MarksOf(mgr, mgr.holder[c]), mgr.out[c],
                    "busy", node.flow[c], Append(node.out[c], f))
      BY <1>3, <2>1, <2>3, NodeNow, ChannelAnswers
    <3> QED BY <2>3, <3>1 DEF SentTo
  <2> QED BY <2>2, <2>3
<1>7. ChannelOK(mgr.state[c], mgr.holder[c], MarksOf(mgr, mgr.holder[c]),
                IF node.state[c] = "none" THEN <<>> ELSE mgr.out[c], node.state[c], node.flow[c], SentTo(node, c, f))
  BY <1>2, <1>6
<1>8. x # "none" <=> node.state[c] = "busy"
  BY <1>2, <1>x
<1>9. NodeOK(k, mgr.out)
  BY <1>5, <1>7, <1>8, NothingRead, PoolSetOK
<1>10. NodeStep(k, mgr.out)
  BY <1>1, <1>x, <1>f, <1>n, <1>k
<1> QED BY <1>2, <1>9, <1>10, NodeStepOK

LEMMA DshEndsOK == ASSUME RcInv, NEW c \in Chans, DshEnds(c) PROVE RcInv'
<1>r. PICK r : r = node.flow[c]
  OBVIOUS
<1>f. PICK f : f = F("response-end", r)
  OBVIOUS
<1>g. PICK g : g = F("idle", r)
  OBVIOUS
<1>q. PICK q : q = IF mgr.state[c] = "none" THEN node.out[c] ELSE Append(Append(node.out[c], f), g)
  OBVIOUS
<1>n. PICK n : n = NodeSends(node, c, <<f, g>>)
  OBVIOUS
<1>k. PICK k : k = [n EXCEPT !.state[c] = "idle", !.flow[c] = None, !.step[c] = "none"]
  OBVIOUS
<1>1. node.state[c] = "busy" /\ Calm /\ NodeStep(Replenish(k), mgr.out)
  <2>1. node.state[c] = "busy" /\ Calm
    BY NodeNow DEF DshEnds, NodeOK, StepsOK
  <2>2. FlowOver(node, c) = Replenish(k)
    BY <1>r, <1>f, <1>g, <1>n, <1>k, Zenon DEF FlowOver
  <2> QED BY <2>1, <2>2 DEF DshEnds
<1>2. r \in Flows /\ f \in Frames /\ g \in Frames
  <2>1. r \in Flows
    BY <1>1, <1>r, BusyServes
  <2> QED BY <1>f, <1>g, <2>1 DEF F, Frames, FrameKinds
<1>3. /\ node \in Pools /\ node.out \in [Chans -> Seq(Frames)] /\ node.out[c] \in Seq(Frames)
      /\ q \in Seq(Frames) /\ node.out[c] \o <<f, g>> = Append(Append(node.out[c], f), g)
  <2>1. node \in Pools /\ node.out \in [Chans -> Seq(Frames)] /\ node.out[c] \in Seq(Frames)
    BY NodeNow DEF Pools
  <2>2. Append(node.out[c], f) \in Seq(Frames)
    BY <1>2, <2>1, AppendFrame
  <2>3. Append(Append(node.out[c], f), g) \in Seq(Frames)
    BY <1>2, <2>2, AppendFrame
  <2>4. node.out[c] \o <<f, g>> = Append(Append(node.out[c], f), g)
    BY <1>2, <2>1, ConcatFrames
  <2> QED BY <1>q, <2>1, <2>3, <2>4
<1>4. PoolSet(node, n, c, node.state[c], node.flow[c], node.step[c], q)
  <2>1. CASE mgr.state[c] = "none"
    BY <1>3, <1>n, <1>q, <2>1 DEF NodeSends, PoolSet
  <2>2. CASE mgr.state[c] # "none"
    <3>1. n = [node EXCEPT !.out[c] = q]
      BY <1>3, <1>n, <1>q, <2>2 DEF NodeSends
    <3> QED BY <1>3, <3>1 DEF PoolSet, Pools
  <2> QED BY <2>1, <2>2
<1>5. PoolSet(node, k, c, "idle", None, "none", q)
  <2>1. /\ k \in Pools /\ k.state[c] = "idle" /\ k.flow[c] = None /\ k.step[c] = "none" /\ k.out = n.out
        /\ \A d \in Chans \ {c} : k.state[d] = n.state[d] /\ k.flow[d] = n.flow[d] /\ k.step[d] = n.step[d]
    BY <1>4, <1>k DEF PoolSet, Pools, NodeStates, Steps
  <2> QED BY <1>4, <2>1 DEF PoolSet
<1>6. ChannelOK(mgr.state[c], mgr.holder[c], MarksOf(mgr, mgr.holder[c]), mgr.out[c], "idle", None, q)
  <2>1. ChannelOK(mgr.state[c], mgr.holder[c], MarksOf(mgr, mgr.holder[c]), mgr.out[c],
                  "busy", node.flow[c], node.out[c])
    BY <1>1, BusyServes
  <2>2. q = IF mgr.state[c] = "none" THEN node.out[c]
            ELSE Append(Append(node.out[c], F("response-end", node.flow[c])), F("idle", node.flow[c]))
    BY <1>q, <1>f, <1>g, <1>r
  <2> QED BY <1>3, <2>1, <2>2, NodeNow, ChannelReportsIdle
<1>7. ChannelOK(mgr.state[c], mgr.holder[c], MarksOf(mgr, mgr.holder[c]),
                IF "idle" = "none" THEN <<>> ELSE mgr.out[c], "idle", None, q)
  BY <1>6
<1>8. NodeOK(k, mgr.out)
  BY <1>5, <1>7, NothingRead, PoolSetOK
<1>9. NodeOK(Replenish(k), mgr.out)
  BY <1>8, ReplenishOK
<1> QED BY <1>1, <1>9, NodeStepOK

-----------------------------------------------------------------------------
(* The theorems *)

LEMMA InitRc == ASSUME Init PROVE RcInv
<1>1. mode \in [Flows -> {"http", "websocket"}]
  BY DEF Init
<1>2. /\ session = 0 /\ session \in 0 .. MaxSessions /\ sessions \in 0 .. MaxSessions /\ trouble \in 0 .. MaxTrouble
      /\ 0 \in 0 .. MaxSessions
  BY ChannelAssumption, SMT DEF Init
<1>m. /\ mgr.state = [c \in Chans |-> "none"] /\ mgr.gen = [c \in Chans |-> 0]
      /\ mgr.holder = [c \in Chans |-> None] /\ mgr.out = [c \in Chans |-> <<>>]
      /\ mgr.stage = [r \in Flows |-> "new"] /\ mgr.chan = [r \in Flows |-> 0]
      /\ mgr.marks = [r \in Flows |-> {}]
      /\ mgr = [state |-> mgr.state, gen |-> mgr.gen, holder |-> mgr.holder, out |-> mgr.out,
                stage |-> mgr.stage, chan |-> mgr.chan, marks |-> mgr.marks]
  BY DEF Init
<1>n. /\ node.state = [c \in Chans |-> "none"] /\ node.flow = [c \in Chans |-> None]
      /\ node.step = [c \in Chans |-> "none"] /\ node.out = [c \in Chans |-> <<>>]
      /\ node.session = 0 /\ node.stopped = TRUE
      /\ node = [session |-> node.session, stopped |-> node.stopped, state |-> node.state, flow |-> node.flow,
                 step |-> node.step, out |-> node.out]
  BY DEF Init
<1>3. mgr \in Managers
  <2>1. /\ mgr.state \in [Chans -> HubStates] /\ mgr.gen \in [Chans -> 0 .. MaxSessions]
        /\ mgr.holder \in [Chans -> Flows \cup {None}] /\ mgr.out \in [Chans -> Seq(Frames)]
    BY <1>2, <1>m, EmptyQueue DEF HubStates
  <2>2. /\ mgr.stage \in [Flows -> Stages] /\ mgr.chan \in [Flows -> Chans \cup {0}]
        /\ mgr.marks \in [Flows -> SUBSET Marks]
    BY <1>m DEF Stages
  <2> QED BY <1>m, <2>1, <2>2 DEF Managers
<1>4. node \in Pools
  <2>1. /\ node.state \in [Chans -> NodeStates] /\ node.flow \in [Chans -> Flows \cup {None}]
        /\ node.step \in [Chans -> Steps] /\ node.out \in [Chans -> Seq(Frames)]
    BY <1>n, EmptyQueue DEF NodeStates, Steps
  <2>2. node.session \in 0 .. MaxSessions /\ node.stopped \in BOOLEAN
    BY <1>2, <1>n
  <2> QED BY <1>n, <2>1, <2>2 DEF Pools
<1>5. StepsOK(node)
  BY <1>n DEF StepsOK
<1>6. ASSUME NEW c \in Chans PROVE ChannelAt(mgr, node.out, c) /\ HolderAt(mgr, c)
  <2>1. ToHub(mgr, node.out, c) = <<>> /\ MarksOf(mgr, mgr.holder[c]) = {} /\ mgr.holder[c] = None
    BY <1>m, <1>n, ChannelAssumption DEF ToHub, MarksOf
  <2>2. ChannelOK("none", None, {}, <<>>, "none", None, <<>>)
    BY ChannelAssumption, EmptyQueue DEF ChannelOK, AbsentAtHub
  <2>3. /\ mgr.state[c] = "none" /\ mgr.out[c] = <<>>
        /\ node.state[c] = "none" /\ node.flow[c] = None
    BY <1>m, <1>n
  <2>4. ChannelAt(mgr, node.out, c)
    BY <2>1, <2>2, <2>3 DEF ChannelAt
  <2> QED BY <2>1, <2>4, ChannelAssumption DEF HolderAt
<1>7. ASSUME NEW r \in Flows PROVE FlowAt(mgr, r)
  BY <1>m DEF FlowAt
<1>8. BoundTo(mgr, session) /\ NoneWaits(mgr)
  BY <1>m DEF BoundTo, NoneWaits
<1>9. node.out \in [Chans -> Seq(Frames)]
  BY <1>4 DEF Pools
<1> QED BY <1>1, <1>2, <1>3, <1>4, <1>5, <1>6, <1>7, <1>8, <1>9 DEF RcInv, HubOK, HubSound

LEMMA StepRc == ASSUME RcInv, [Next]_vars PROVE RcInv'
<1>1. CASE SessionReady \/ SessionLost \/ SetSession \/ ClearSession \/ ReplenishAgain
  BY <1>1, SessionReadyOK, SessionLostOK, SetSessionOK, ClearSessionOK, ReplenishAgainOK
<1>2. ASSUME NEW c \in Chans, Channel(c) PROVE RcInv'
  BY <1>2, RegisterChannelOK, HubReceivesOK, HubSeesCloseOK, HandshakeAnsweredOK, NodeReceivesOK,
     NodeCloseOK, DshRespondsOK, DshEndsOK DEF Channel
<1>3. ASSUME NEW c \in Chans, ChannelFails(c) PROVE RcInv'
  BY <1>3, HubClosesOK, OpenDeniedOK, DshFailsOK, NodeCloseOK DEF ChannelFails
<1>4. ASSUME NEW r \in Flows, Flow(r) PROVE RcInv'
  BY <1>4, FinishSendingOK, BodyReadOK, CapacityTimeoutOK, FlowGivesUpOK, ResponseTimeoutOK DEF Flow
<1>5. ASSUME NEW r \in Flows, Browser(r) PROVE RcInv'
  BY <1>5, AcquireChannelOK, WriteBodyOK, FlowGivesUpOK, BrowserClosesOK, BrowserClosesUnheardOK DEF Browser
<1>6. CASE UNCHANGED vars
  BY <1>6 DEF vars, RcInv, HubOK, HubSound, ChannelAt, HolderAt, FlowAt, BoundTo, NoneWaits, MarksOf, ToHub,
              StepsOK
<1> QED BY <1>1, <1>2, <1>3, <1>4, <1>5, <1>6 DEF Next

(* RcInv, what holds of every channel between its two ends, of every flow  *)
(* and of the waiters, is inductive.                                       *)
THEOREM RcInvariant == Spec => []RcInv
<1>1. Init => RcInv
  BY InitRc
<1>2. RcInv /\ [Next]_vars => RcInv'
  BY StepRc
<1> QED BY <1>1, <1>2, PTL DEF Spec

LEMMA ChannelNow ==
    ASSUME RcInv, NEW c \in Chans
    PROVE  /\ ChannelOK(mgr.state[c], mgr.holder[c], MarksOf(mgr, mgr.holder[c]), mgr.out[c],
                        node.state[c], node.flow[c], node.out[c])
           /\ mgr.state[c] \in HubStates /\ node.state[c] \in NodeStates
  BY NodeNow

(* The maps of the manager and of the pool are well formed, and a channel  *)
(* the Hub hands out as idle (claimIdleChannel) is never one on which the  *)
(* node still serves an earlier flow.                                      *)
THEOREM PoolSoundCorrect == Spec => []PoolSound
<1>1. RcInv => PoolSound
  <2> SUFFICES ASSUME RcInv PROVE PoolSound
    OBVIOUS
  <2>1. ASSUME NEW c \in Chans
        PROVE  /\ mgr.state[c] \in {"none", "idle", "busy"} /\ mgr.gen[c] \in 0 .. MaxSessions
               /\ (mgr.state[c] = "busy") = (mgr.holder[c] \in Flows)
               /\ node.state[c] \in {"none", "connecting", "idle", "busy"}
               /\ (node.state[c] = "busy") = (node.flow[c] \in Flows)
               /\ node.step[c] \in {"none", "requested", "responding", "upgraded"}
               /\ mgr.state[c] = "idle" => node.state[c] # "busy"
    <3>1. (mgr.state[c] = "busy") = (mgr.holder[c] \in Flows) /\ (node.state[c] = "busy") = (node.flow[c] \in Flows)
      BY ChannelNow DEF ChannelOK
    <3>2. mgr.state[c] = "idle" => node.state[c] # "busy"
      BY ChannelNow DEF ChannelOK, Quiet
    <3>3. mgr.gen[c] \in 0 .. MaxSessions /\ node.step[c] \in {"none", "requested", "responding", "upgraded"}
      BY HubNow DEF Managers, Pools, Steps
    <3> QED BY <3>1, <3>2, <3>3, ChannelNow DEF HubStates, NodeStates
  <2>2. \A r \in Flows :
          mgr.stage[r] \in Stages /\ mgr.chan[r] \in Chans \cup {0} /\ mgr.marks[r] \subseteq Marks
    BY HubNow DEF Managers
  <2>3. node.session \in 0 .. MaxSessions /\ node.stopped \in BOOLEAN
    BY HubNow DEF Pools
  <2>4. /\ mode \in [Flows -> {"http", "websocket"}]
        /\ session \in 0 .. MaxSessions /\ sessions \in 0 .. MaxSessions /\ trouble \in 0 .. MaxTrouble
    BY DEF RcInv
  <2> QED BY <2>1, <2>2, <2>3, <2>4 DEF PoolSound, TypeOK, IdleMeansFree
<1> QED BY <1>1, RcInvariant, PTL

(* Whatever the node has answered on a leased channel belongs to the flow  *)
(* that holds the lease, across releases, closes, refusals and redials,    *)
(* and channels and waiters do not outlive the control session they are    *)
(* bound to (closeChannelsForSession).                                     *)
THEOREM FlowsStayApartCorrect == Spec => []FlowsStayApart
<1>1. RcInv => FlowsStayApart
  <2> SUFFICES ASSUME RcInv PROVE FlowsStayApart
    OBVIOUS
  <2>1. ASSUME NEW c \in Chans, mgr.state[c] = "busy", NEW i \in 1 .. Len(node.out[c]),
               node.out[c][i].kind \in {"response", "switch", "response-end", "idle"}
        PROVE  node.out[c][i].flow = mgr.holder[c]
    <3>1. AnswersOnly(node.out[c], mgr.holder[c])
      BY <2>1, ChannelNow DEF ChannelOK, LeasedTo
    <3> QED BY <2>1, <3>1 DEF AnswersOnly, AnswerKinds
  <2>2. BoundTo(mgr, session)
    BY HubNow DEF HubOK, HubSound
  <2> QED BY <2>1, <2>2 DEF FlowsStayApart, ResponseReachesItsFlow, BoundToSession, BoundTo, Waiters
<1> QED BY <1>1, RcInvariant, PTL

(* No lost wake-up: a request does not wait for capacity while a channel   *)
(* of its session is idle, because every release of a channel              *)
(* (resolveIdleWaiters) and every arrival of one hands it on at once.      *)
THEOREM NoneWaitsBesideIdleCorrect == Spec => []NoneWaitsBesideIdle
<1>1. RcInv => NoneWaitsBesideIdle
  BY HubNow DEF HubOK, NoneWaits, NoneWaitsBesideIdle, Waiters, IdleChannels
<1> QED BY <1>1, RcInvariant, PTL
=============================================================================
