-------------------------- MODULE ClientSubsProofs --------------------------
(* A message calls only handlers the user's calls ask for, and the maps of *)
(* a client and its handlers agree: for any clients, handlers and topics,  *)
(* and whatever their calls and requests cross.                            *)
EXTENDS ClientSubs, SequenceTheorems, TLAPS

(* Wrappers of a client's topic that would call their handler. *)
LiveOf(c, t) == {centro[h][c][t] : h \in Handlers} \ {None}

(* What the maps are made of. *)
Requests ==
  [op : {"subscribe", "unsubscribe"}, topic : Topics, wrappers : SUBSET Nat, swept : BOOLEAN]

Typed ==
  /\ program \in Programs
  /\ handler \in Seq(Handlers) /\ Len(handler) <= program.wrappers
  /\ centro \in [Handlers -> [Clients -> [Topics -> 0..Len(handler)]]]
  /\ subs = [c \in Clients |-> subs[c]]
  /\ \A c \in Clients : Known(c) \subseteq Topics
  /\ \A c \in Clients : \A t \in Known(c) : subs[c][t] \subseteq 1..Len(handler)
  /\ requests \in [Clients -> SUBSET Requests]
  /\ \A c \in Clients : \A r \in requests[c] :
       r.op = "subscribe" => r.wrappers \subseteq 1..Len(handler)
  /\ server \in [Clients -> SUBSET Topics]
  /\ sweep \in [Clients -> Tokens \union {Idle}]
  /\ {wanted, overtaken} \subseteq [Clients -> [Topics -> SUBSET Handlers]]

(* Wrappers of a topic that the client has, or that an answer brings. *)
Within(c, t) ==
  Underway(c, t) \union IF t \in Known(c) THEN subs[c][t] ELSE {}

(* Their handlers are called: the user's calls ask for them. *)
Asked(c, t) == wanted[c][t] \union overtaken[c][t]

Answerable ==
  \A h \in Handlers, c \in Clients, t \in Topics :
    centro[h][c][t] \in Within(c, t) => h \in Asked(c, t)

(* A handler a patient user wants is one that has a wrapper. *)
WantedWrapped ==
  \A h \in Handlers, c \in Clients, t \in Topics :
    h \in wanted[c][t] <=> centro[h][c][t] # None

(* The calls of a client that waits for its answers: one request at a      *)
(* time, and during a sweep none but its own.                              *)
Lone(c) ==
  /\ \A r, s \in requests[c] : r = s
  /\ sweep[c] # Idle => \A r \in requests[c] : r.swept

(* A topic nobody asks the server about: the client has its live wrappers  *)
(* and no other, and the server has the topic.                             *)
Agreed(c, t) ==
  /\ t \in Known(c) => subs[c][t] = LiveOf(c, t) /\ t \in server[c]
  /\ t \notin Known(c) => LiveOf(c, t) = {}

(* A topic the server is asked about: its live wrappers come with the      *)
(* answer, or all its wrappers leave with it.                              *)
Awaiting(c, r) ==
  /\ r.op = "subscribe" =>
       r.topic \notin Known(c) /\ LiveOf(c, r.topic) = r.wrappers
  /\ r.op = "unsubscribe" =>
       /\ r.topic \in Known(c) /\ LiveOf(c, r.topic) = {}
       /\ subs[c][r.topic] \subseteq r.wrappers

Orderly(c) ==
  /\ Lone(c)
  /\ \A r \in requests[c] : Awaiting(c, r)
  /\ \A t \in Topics : (\A r \in requests[c] : r.topic # t) => Agreed(c, t)

Patient == ~program.overlap /\ ~program.fails

Maps == Typed /\ WrapperUnique /\ Answerable

IInv ==
  /\ Maps /\ CalledOnlyWanted
  /\ Patient => WantedWrapped /\ \A c \in Clients : Orderly(c)

---------------------------------------------------------------------------
(* What a program is made of. *)
LEMMA ProgramFacts ==
  ASSUME Typed
  PROVE  /\ program.wrappers \in Nat
         /\ program.clients \subseteq Clients /\ program.topics \subseteq Topics
BY ClientAssumption DEF Typed

(* A wrapper found or made: it is in its place and wraps its handler, and  *)
(* every other place is as before.                                         *)
LEMMA WrapFacts ==
  ASSUME Maps, program.wrappers \in Nat,
         NEW c \in Clients, NEW t \in Topics, NEW h \in Handlers, Wrap(c, t, h)
  PROVE  /\ handler' \in Seq(Handlers) /\ Len(handler') <= program.wrappers
         /\ Len(handler') \in Nat /\ Len(handler) <= Len(handler')
         /\ \A w \in 1..Len(handler) : handler'[w] = handler[w]
         /\ centro' \in [Handlers -> [Clients -> [Topics -> 0..Len(handler')]]]
         /\ \A g \in Handlers, d \in Clients, u \in Topics :
              g # h \/ d # c \/ u # t => centro'[g][d][u] = centro[g][d][u]
         /\ centro'[h][c][t] \in 1..Len(handler') /\ handler'[centro'[h][c][t]] = h
         /\ \/ centro'[h][c][t] = centro[h][c][t]
            \/ centro[h][c][t] = None /\ centro'[h][c][t] = Len(handler) + 1
<1> USE DEF Maps, Typed, None
<1>1. CASE centro[h][c][t] # None /\ UNCHANGED <<handler, centro>>
  <2>1. centro[h][c][t] \in 1..Len(handler) /\ handler[centro[h][c][t]] = h
    BY <1>1 DEF WrapperUnique
  <2> QED
    BY <1>1, <2>1
<1>2. CASE /\ centro[h][c][t] = None
           /\ Len(handler) < program.wrappers
           /\ handler' = Append(handler, h)
           /\ centro' = [centro EXCEPT ![h][c][t] = Len(handler) + 1]
  <2>1. /\ handler' \in Seq(Handlers) /\ Len(handler') = Len(handler) + 1
        /\ Len(handler) \in Nat /\ handler'[Len(handler) + 1] = h
        /\ \A w \in 1..Len(handler) : handler'[w] = handler[w]
    BY <1>2
  <2>2. centro'[h][c][t] = Len(handler) + 1
    BY <1>2
  <2>3. \A g \in Handlers, d \in Clients, u \in Topics :
          g # h \/ d # c \/ u # t => centro'[g][d][u] = centro[g][d][u]
    BY <1>2
  <2>4. centro' \in [Handlers -> [Clients -> [Topics -> 0..Len(handler')]]]
    <3>1. centro \in [Handlers -> [Clients -> [Topics -> 0..Len(handler')]]]
      BY <2>1
    <3> QED
      BY <3>1, <2>1, <1>2
  <2> QED
    BY <1>2, <2>1, <2>2, <2>3, <2>4
<1> QED
  BY <1>1, <1>2 DEF Wrap

(* Wrappers forgotten: the places of the handlers are empty, every other   *)
(* place is as before.                                                     *)
LEMMA ForgetFacts ==
  ASSUME Maps, NEW c \in Clients, NEW t \in Topics, NEW hs \in SUBSET Handlers,
         centro' = Forget(c, t, hs)
  PROVE  /\ centro' \in [Handlers -> [Clients -> [Topics -> 0..Len(handler)]]]
         /\ \A g \in Handlers, d \in Clients, u \in Topics :
              g \notin hs \/ d # c \/ u # t => centro'[g][d][u] = centro[g][d][u]
         /\ \A g \in hs : centro'[g][c][t] = None
<1> USE DEF Maps, Typed, None, Forget
<1>1. \A g \in Handlers : centro'[g] = IF g \in hs THEN [centro[g] EXCEPT ![c][t] = None] ELSE centro[g]
  OBVIOUS
<1>2. Len(handler) \in Nat
  OBVIOUS
<1>3. \A g \in Handlers : centro'[g] \in [Clients -> [Topics -> 0..Len(handler)]]
  BY <1>1, <1>2
<1>4. centro' = [g \in Handlers |-> centro'[g]]
  OBVIOUS
<1>5. centro' \in [Handlers -> [Clients -> [Topics -> 0..Len(handler)]]]
  BY <1>3, <1>4
<1>6. \A g \in Handlers, d \in Clients, u \in Topics :
        g \notin hs \/ d # c \/ u # t => centro'[g][d][u] = centro[g][d][u]
  BY <1>1
<1>7. \A g \in hs : centro'[g][c][t] = None
  BY <1>1
<1> QED
  BY <1>5, <1>6, <1>7

(* Places that did not change have the live wrappers they had. *)
LEMMA LiveSame ==
  ASSUME NEW c \in Clients, NEW t \in Topics,
         \A g \in Handlers : centro'[g][c][t] = centro[g][c][t]
  PROVE  LiveOf(c, t)' = LiveOf(c, t)
BY DEF LiveOf

(* One place gained a wrapper. *)
LEMMA LiveMore ==
  ASSUME NEW c \in Clients, NEW t \in Topics, NEW h \in Handlers,
         \A g \in Handlers : g # h => centro'[g][c][t] = centro[g][c][t],
         centro'[h][c][t] # None, centro[h][c][t] \in {None, centro'[h][c][t]}
  PROVE  LiveOf(c, t)' = LiveOf(c, t) \union {centro'[h][c][t]}
BY DEF LiveOf

(* Some places lost theirs. *)
LEMMA LiveLess ==
  ASSUME Maps, NEW c \in Clients, NEW t \in Topics, NEW hs \in SUBSET Handlers,
         centro' = Forget(c, t, hs)
  PROVE  LiveOf(c, t)' = LiveOf(c, t) \ {centro[g][c][t] : g \in hs}
<1>1. /\ \A g \in Handlers : g \notin hs => centro'[g][c][t] = centro[g][c][t]
      /\ \A g \in hs : centro'[g][c][t] = None
  BY ForgetFacts
<1>2. \A g, k \in Handlers :
        centro[g][c][t] # None /\ centro[g][c][t] = centro[k][c][t] => g = k
  BY DEF Maps, WrapperUnique
<1> QED
  BY <1>1, <1>2 DEF LiveOf

(* The handlers of a client's live wrappers are those that have one. *)
LEMMA HandlersLive ==
  ASSUME Maps, WantedWrapped, NEW c \in Clients, NEW t \in Topics
  PROVE  {handler[w] : w \in LiveOf(c, t)} = wanted[c][t]
<1>1. \A h \in Handlers : centro[h][c][t] # None => handler[centro[h][c][t]] = h
  BY DEF Maps, WrapperUnique
<1>2. wanted[c][t] = {h \in Handlers : centro[h][c][t] # None}
  BY DEF Maps, Typed, WantedWrapped
<1>3. ASSUME NEW h \in wanted[c][t] PROVE h \in {handler[w] : w \in LiveOf(c, t)}
  <2>1. centro[h][c][t] \in LiveOf(c, t)
    BY <1>2 DEF LiveOf
  <2> QED
    BY <2>1, <1>1, <1>2
<1>4. ASSUME NEW w \in LiveOf(c, t) PROVE handler[w] \in wanted[c][t]
  <2>1. PICK h \in Handlers : w = centro[h][c][t] /\ w # None
    BY DEF LiveOf
  <2> QED
    BY <2>1, <1>1, <1>2
<1> QED
  BY <1>3, <1>4

---------------------------------------------------------------------------
(* A client's topics when wrappers have gone from one: that one has what   *)
(* is left of it, or is no longer known.                                   *)
LEMMA DroppedFacts ==
  ASSUME NEW c \in Clients, NEW t, NEW ws
  PROVE  /\ \A u : u # t => (u \in DOMAIN Dropped(c, t, ws) <=> u \in Known(c))
         /\ \A u \in Known(c) : u # t => Dropped(c, t, ws)[u] = subs[c][u]
         /\ t \in DOMAIN Dropped(c, t, ws)
              <=> t \in Known(c) /\ ~(subs[c][t] \subseteq ws)
         /\ t \in DOMAIN Dropped(c, t, ws) => Dropped(c, t, ws)[t] = subs[c][t] \ ws
<1>1. CASE t \notin Known(c)
  BY <1>1 DEF Dropped, Known
<1>2. CASE t \in Known(c) /\ subs[c][t] \subseteq ws
  BY <1>2 DEF Dropped, Known, Without
<1>3. CASE t \in Known(c) /\ ~(subs[c][t] \subseteq ws)
  BY <1>3 DEF Dropped, Known, With
<1> QED
  BY <1>1, <1>2, <1>3

(* A client nothing happened to stays in order. *)
LEMMA OrderlySame ==
  ASSUME Typed, NEW d \in Clients, Orderly(d),
         requests'[d] = requests[d], sweep'[d] = sweep[d], subs'[d] = subs[d],
         server'[d] = server[d], \A u \in Topics : LiveOf(d, u)' = LiveOf(d, u)
  PROVE  Orderly(d)'
<1>1. \A r \in requests[d] : r.topic \in Topics
  BY DEF Typed, Requests
<1>2. Lone(d)'
  BY DEF Orderly, Lone
<1>3. \A r \in requests'[d] : Awaiting(d, r)'
  BY <1>1 DEF Orderly, Awaiting, Known
<1>4. \A u \in Topics : (\A r \in requests'[d] : r.topic # u) => Agreed(d, u)'
  BY DEF Orderly, Agreed, Known
<1> QED
  BY <1>2, <1>3, <1>4 DEF Orderly

(* What a step leaves alone of the maps stays right. *)
LEMMA MapsSame ==
  ASSUME UNCHANGED program, Maps, sweep' \in [Clients -> Tokens \union {Idle}],
         UNCHANGED <<handler, centro, subs, requests, server, calls>>
  PROVE  Maps'
<1>1. Typed'
  BY DEF Maps, Typed, Known, calls
<1>2. WrapperUnique'
  BY DEF Maps, WrapperUnique
<1>3. Answerable'
  BY DEF Maps, Answerable, Within, Underway, Asked, Known, calls
<1> QED
  BY <1>1, <1>2, <1>3 DEF Maps

(* A step without a message leaves nothing to say of the last one. *)
LEMMA NoCalls ==
  ASSUME called' = NoMessage
  PROVE  CalledOnlyWanted'
BY DEF NoMessage, CalledOnlyWanted, None

(* The invariant holds initially. *)
LEMMA InitIInv == SubsInit => IInv
<1> SUFFICES ASSUME SubsInit PROVE IInv
  OBVIOUS
<1> USE ClientAssumption DEF SubsInit, None
<1>1. Typed
  BY DEF Typed, Known, NoHandlers, Requests, Idle
<1>2. WrapperUnique /\ WantedWrapped
  BY DEF WrapperUnique, WantedWrapped
<1>3. CalledOnlyWanted
  BY DEF CalledOnlyWanted, NoMessage
<1>5. Answerable
  BY DEF Answerable, Within, Underway, Known, NoHandlers
<1>4. ASSUME NEW c \in Clients PROVE Orderly(c)
  BY DEF Orderly, Lone, Agreed, LiveOf, Known, NoHandlers
<1> QED
  BY <1>1, <1>2, <1>3, <1>4, <1>5 DEF IInv, Maps

---------------------------------------------------------------------------
(* A call for one handler changes what is asked of it and nothing else. *)
LEMMA WantFacts ==
  ASSUME Typed, NEW c \in Clients, NEW t \in Topics, NEW h \in Handlers, Want(c, t, h)
  PROVE  /\ {wanted', overtaken'} \subseteq [Clients -> [Topics -> SUBSET Handlers]]
         /\ \A d \in Clients, u \in Topics : d # c \/ u # t =>
              wanted'[d][u] = wanted[d][u] /\ overtaken'[d][u] = overtaken[d][u]
         /\ wanted'[c][t] = wanted[c][t] \union {h}
         /\ overtaken'[c][t] = overtaken[c][t] \ {h}
BY DEF Typed, Want

LEMMA DismissFacts ==
  ASSUME Typed, NEW c \in Clients, NEW t \in Topics, NEW h \in Handlers, Dismiss(c, t, h)
  PROVE  /\ {wanted', overtaken'} \subseteq [Clients -> [Topics -> SUBSET Handlers]]
         /\ \A d \in Clients, u \in Topics : d # c \/ u # t =>
              wanted'[d][u] = wanted[d][u] /\ overtaken'[d][u] = overtaken[d][u]
         /\ wanted'[c][t] = wanted[c][t] \ {h}
         /\ overtaken'[c][t] = overtaken[c][t] \ {h}
BY DEF Typed, Dismiss

(* A call for topics as a whole leaves the subscriptions under way. *)
LEMMA DismissAllFacts ==
  ASSUME Typed, NEW c \in Clients, NEW ts \in SUBSET Topics, DismissAll(c, ts)
  PROVE  /\ {wanted', overtaken'} \subseteq [Clients -> [Topics -> SUBSET Handlers]]
         /\ \A d \in Clients, u \in Topics : d # c \/ u \notin ts =>
              wanted'[d][u] = wanted[d][u] /\ overtaken'[d][u] = overtaken[d][u]
         /\ \A u \in ts : /\ wanted'[c][u] = {}
                         /\ overtaken'[c][u] = Asked(c, u) \intersect InFlight(c, u)
<1> DEFINE W == [u \in Topics |-> IF u \in ts THEN {} ELSE wanted[c][u]]
           O == [u \in Topics |-> IF u \in ts THEN Asked(c, u) \intersect InFlight(c, u)
                                  ELSE overtaken[c][u]]
<1>1. wanted' = [wanted EXCEPT ![c] = W]
  BY DEF DismissAll, Typed
<1>2. overtaken' = [overtaken EXCEPT ![c] = O]
  BY DEF DismissAll, Typed, Asked
<1>3. W \in [Topics -> SUBSET Handlers]
  BY DEF Typed
<1>4. O \in [Topics -> SUBSET Handlers]
  BY DEF Typed, Asked
<1>5. \A u \in Topics : /\ W[u] = IF u \in ts THEN {} ELSE wanted[c][u]
                        /\ O[u] = IF u \in ts THEN Asked(c, u) \intersect InFlight(c, u)
                                  ELSE overtaken[c][u]
  OBVIOUS
<1> HIDE DEF W, O
<1>6. {wanted', overtaken'} \subseteq [Clients -> [Topics -> SUBSET Handlers]]
  BY <1>1, <1>2, <1>3, <1>4 DEF Typed
<1>7. /\ wanted'[c] = W /\ overtaken'[c] = O
      /\ \A d \in Clients : d # c => wanted'[d] = wanted[d] /\ overtaken'[d] = overtaken[d]
  BY <1>1, <1>2 DEF Typed
<1> QED
  BY <1>5, <1>6, <1>7

(* A request at most is added to those of one client. *)
LEMMA OneMore ==
  ASSUME Typed, NEW c \in Clients, NEW d \in Clients, NEW q,
         requests' = requests \/ requests' = [requests EXCEPT ![c] = @ \union {q}]
  PROVE  requests'[d] \subseteq requests[d] \union IF d = c THEN {q} ELSE {}
<1>1. CASE requests' = requests
  BY <1>1
<1>2. CASE requests' = [requests EXCEPT ![c] = @ \union {q}]
  <2>1. requests \in [Clients -> SUBSET Requests]
    BY DEF Typed
  <2>2. requests'[d] = IF d = c THEN requests[d] \union {q} ELSE requests[d]
    BY <1>2, <2>1
  <2> QED
    BY <2>2
<1> QED
  BY <1>1, <1>2

(* Wrappers of the maps are numbers of wrappers made. *)
LEMMA WithinType ==
  ASSUME Typed, NEW c \in Clients, NEW t \in Topics
  PROVE  Within(c, t) \subseteq 1..Len(handler)
BY DEF Typed, Within, Underway

(* A subscription adds one wrapper to the maps at most, a new one. *)
LEMMA SubscribeMaps ==
  ASSUME UNCHANGED program, Maps,
         NEW c \in Clients, NEW t \in Topics, NEW h \in Handlers, Subscribe(c, t, h)
  PROVE  Maps'
<1> USE ClientAssumption DEF Maps
<1> DEFINE w == centro'[h][c][t]
<1>1. /\ handler' \in Seq(Handlers) /\ Len(handler') <= program.wrappers
      /\ Len(handler') \in Nat /\ Len(handler) <= Len(handler')
      /\ \A v \in 1..Len(handler) : handler'[v] = handler[v]
      /\ centro' \in [Handlers -> [Clients -> [Topics -> 0..Len(handler')]]]
      /\ \A g \in Handlers, d \in Clients, u \in Topics :
           g # h \/ d # c \/ u # t => centro'[g][d][u] = centro[g][d][u]
      /\ w \in 1..Len(handler') /\ handler'[w] = h
      /\ w = centro[h][c][t] \/ (centro[h][c][t] = None /\ w = Len(handler) + 1)
  BY ProgramFacts, WrapFacts DEF Subscribe
<1> HIDE DEF w
<1>2. Len(handler) \in Nat /\ 1..Len(handler) \subseteq 1..Len(handler')
  BY <1>1 DEF Typed
<1>3. /\ server' = server /\ sweep' = sweep
      /\ \/ /\ t \in Known(c) /\ subs' = [subs EXCEPT ![c][t] = @ \union {w}]
            /\ requests' = requests
         \/ /\ subs' = subs
            /\ requests' = [requests EXCEPT ![c] = @ \union {Ask("subscribe", t, {w}, FALSE)}]
  BY DEF Subscribe, Send, w
<1>4. /\ subs' = [d \in Clients |-> subs'[d]]
      /\ \A d \in Clients : DOMAIN subs'[d] = Known(d)
      /\ \A d \in Clients : \A u \in Known(d) : subs'[d][u] \subseteq 1..Len(handler')
  <2>1. \A d \in Clients : d # c => subs'[d] = subs[d]
    BY <1>3 DEF Typed
  <2>2. \/ subs'[c] = subs[c]
        \/ t \in Known(c) /\ subs'[c] = [subs[c] EXCEPT ![t] = @ \union {w}]
    BY <1>3 DEF Typed
  <2>3. subs' = [d \in Clients |-> subs'[d]]
    BY <1>3 DEF Typed
  <2>4. \A d \in Clients : \A u \in Known(d) : subs[d][u] \subseteq 1..Len(handler')
    BY <1>2 DEF Typed
  <2>5. ASSUME NEW u \in Known(c) PROVE subs'[c][u] \subseteq 1..Len(handler')
    <3>1. subs[c][u] \subseteq 1..Len(handler') /\ w \in 1..Len(handler')
      BY <2>4, <1>1
    <3>2. subs'[c][u] \in {subs[c][u], subs[c][u] \union {w}}
      BY <2>2 DEF Known
    <3> QED
      BY <3>1, <3>2
  <2> QED
    BY <2>1, <2>2, <2>3, <2>4, <2>5 DEF Known
<1>5. Ask("subscribe", t, {w}, FALSE) \in Requests
  BY <1>1 DEF Ask, Requests
<1>6. /\ requests' \in [Clients -> SUBSET Requests]
      /\ \A d \in Clients : \A r \in requests'[d] :
           r.op = "subscribe" => r.wrappers \subseteq 1..Len(handler')
  <2>1. CASE requests' = requests
    BY <2>1, <1>2 DEF Typed
  <2>2. CASE requests' = [requests EXCEPT ![c] = @ \union {Ask("subscribe", t, {w}, FALSE)}]
    <3>1. requests' \in [Clients -> SUBSET Requests]
      BY <2>2, <1>5 DEF Typed
    <3>2. ASSUME NEW d \in Clients, NEW r \in requests'[d], r.op = "subscribe"
          PROVE  r.wrappers \subseteq 1..Len(handler')
      <4>1. r \in requests[d] \/ r = Ask("subscribe", t, {w}, FALSE)
        BY <2>2 DEF Typed
      <4>2. CASE r \in requests[d]
        BY <3>2, <4>2, <1>2 DEF Typed
      <4>3. CASE r = Ask("subscribe", t, {w}, FALSE)
        BY <4>3, <1>1 DEF Ask
      <4> QED
        BY <4>1, <4>2, <4>3
    <3> QED
      BY <3>1, <3>2
  <2> QED
    BY <1>3, <2>1, <2>2
<1>7. /\ {wanted', overtaken'} \subseteq [Clients -> [Topics -> SUBSET Handlers]]
      /\ \A d \in Clients, u \in Topics : d # c \/ u # t =>
           wanted'[d][u] = wanted[d][u] /\ overtaken'[d][u] = overtaken[d][u]
      /\ h \in wanted'[c][t] /\ Asked(c, t) \subseteq Asked(c, t)'
  BY WantFacts DEF Subscribe, Asked
<1>8. Typed'
  BY <1>1, <1>3, <1>4, <1>6, <1>7 DEF Typed, Known
<1>9. WrapperUnique'
  <2> SUFFICES ASSUME NEW g \in Handlers, NEW k \in Handlers, NEW d \in Clients,
                      NEW e \in Clients, NEW u \in Topics, NEW v \in Topics,
                      centro'[g][d][u] # None
               PROVE  /\ handler'[centro'[g][d][u]] = g
                      /\ centro'[g][d][u] = centro'[k][e][v] => g = k /\ d = e /\ u = v
    BY DEF WrapperUnique
  <2> DEFINE here == g = h /\ d = c /\ u = t
             there == k = h /\ e = c /\ v = t
  <2>1. /\ ~here => centro'[g][d][u] = centro[g][d][u]
        /\ ~there => centro'[k][e][v] = centro[k][e][v]
        /\ here => centro'[g][d][u] = w
        /\ there => centro'[k][e][v] = w
    <3>0. \A i \in Handlers, j \in Clients, x \in Topics :
            ~(i = h /\ j = c /\ x = t) => centro'[i][j][x] = centro[i][j][x]
      BY <1>1
    <3>1. /\ ~here => centro'[g][d][u] = centro[g][d][u]
          /\ ~there => centro'[k][e][v] = centro[k][e][v]
      BY ONLY <3>0, g \in Handlers, k \in Handlers, d \in Clients, e \in Clients,
              u \in Topics, v \in Topics
    <3>2. (here => centro'[g][d][u] = w) /\ (there => centro'[k][e][v] = w)
      BY DEF w
    <3> QED
      BY <3>1, <3>2
  <2>2. centro[g][d][u] \in 0..Len(handler) /\ centro[k][e][v] \in 0..Len(handler)
    BY DEF Typed
  <2>3. w # None
    BY <1>1 DEF None
  <2>4. CASE here /\ there
    BY <2>4, <2>1, <1>1
  <2>5. CASE ~here /\ ~there
    <3>1. handler[centro[g][d][u]] = g /\ centro[g][d][u] \in 1..Len(handler)
      BY <2>1, <2>2, <2>5 DEF WrapperUnique, None
    <3>2. centro[g][d][u] = centro[k][e][v] => g = k /\ d = e /\ u = v
      BY <2>1, <2>5 DEF WrapperUnique
    <3>3. handler'[centro[g][d][u]] = g
      BY <3>1, <1>1
    <3> QED
      BY <3>2, <3>3, <2>1, <2>5
  <2>6. CASE here /\ ~there
    <3>1. CASE w = centro[h][c][t]
      <4>1. centro[g][d][u] # None /\ (centro[g][d][u] = centro[k][e][v] => there)
        BY <2>6, <2>3, <3>1 DEF WrapperUnique
      <4> QED
        BY <4>1, <3>1, <2>1, <2>6, <1>1
    <3>2. CASE w = Len(handler) + 1
      <4>1. w # centro[k][e][v]
        BY <3>2, <2>2, <1>2
      <4> QED
        BY <4>1, <2>1, <2>6, <1>1
    <3> QED
      BY <3>1, <3>2, <1>1
  <2>7. CASE ~here /\ there
    <3>0. handler[centro[g][d][u]] = g /\ centro[g][d][u] \in 1..Len(handler)
      BY <2>1, <2>2, <2>7 DEF WrapperUnique, None
    <3>1. CASE w = centro[h][c][t]
      <4>1. centro[g][d][u] # centro[h][c][t]
        BY <2>1, <2>7, <3>1 DEF WrapperUnique
      <4>2. handler'[centro[g][d][u]] = g
        BY <3>0, <1>1
      <4>3. w # centro[g][d][u]
        BY <4>1, <3>1
      <4> QED
        BY <4>2, <4>3, <2>1, <2>7
    <3>2. CASE w = Len(handler) + 1
      <4>1. w # centro[g][d][u]
        BY <3>2, <2>2, <1>2
      <4>2. handler'[centro[g][d][u]] = g
        BY <3>0, <1>1
      <4> QED
        BY <4>1, <4>2, <2>1, <2>7
    <3> QED
      BY <3>1, <3>2, <1>1
  <2> QED
    BY <2>4, <2>5, <2>6, <2>7
<1>10. Answerable'
  <2> SUFFICES ASSUME NEW g \in Handlers, NEW d \in Clients, NEW u \in Topics,
                      centro'[g][d][u] \in Within(d, u)'
               PROVE  g \in Asked(d, u)'
    BY DEF Answerable
  <2>1. Within(d, u)' \subseteq Within(d, u) \union IF d = c /\ u = t THEN {w} ELSE {}
    <3>1. Underway(d, u)' \subseteq Underway(d, u) \union IF d = c /\ u = t THEN {w} ELSE {}
      <4> DEFINE q == Ask("subscribe", t, {w}, FALSE)
      <4>1. q.topic = t /\ q.wrappers = {w}
        BY DEF Ask
      <4>0. requests' = requests \/ requests' = [requests EXCEPT ![c] = @ \union {q}]
        BY <1>3
      <4> HIDE DEF q
      <4>2. requests'[d] \subseteq requests[d] \union IF d = c THEN {q} ELSE {}
        BY <4>0, OneMore
      <4> QED
        BY <4>1, <4>2 DEF Underway
    <3>2. u \in Known(d)' => /\ u \in Known(d)
                             /\ subs'[d][u] \subseteq subs[d][u] \union
                                  IF d = c /\ u = t THEN {w} ELSE {}
      <4>1. CASE d = c /\ subs' = [subs EXCEPT ![c][t] = @ \union {w}]
        <5>1. subs'[c] = [subs[c] EXCEPT ![t] = @ \union {w}]
          BY <4>1 DEF Typed
        <5> QED
          BY <4>1, <5>1 DEF Known
      <4>2. CASE d # c \/ subs' = subs
        <5>1. subs'[d] = subs[d]
          BY <4>2, <1>3 DEF Typed
        <5> QED
          BY <5>1 DEF Known
      <4> QED
        BY <4>1, <4>2, <1>3
    <3> QED
      BY <3>1, <3>2 DEF Within
  <2>2. CASE g = h /\ d = c /\ u = t
    BY <2>2, <1>7 DEF Asked
  <2>3. CASE ~(g = h /\ d = c /\ u = t)
    <3>1. centro'[g][d][u] = centro[g][d][u]
      BY <2>3, <1>1
    <3>2. ~(d = c /\ u = t /\ centro'[g][d][u] = w)
      BY <2>3, <1>1, <1>9 DEF WrapperUnique, w, None
    <3>3. g \in Asked(d, u)
      BY <2>1, <3>1, <3>2 DEF Answerable
    <3> QED
      BY <3>3, <1>7 DEF Asked
  <2> QED
    BY <2>2, <2>3
<1> QED
  BY <1>8, <1>9, <1>10

(* The handler that is subscribed is wanted, and has its wrapper. *)
LEMMA SubscribeWrapped ==
  ASSUME UNCHANGED program, Maps, WantedWrapped,
         NEW c \in Clients, NEW t \in Topics, NEW h \in Handlers, Subscribe(c, t, h)
  PROVE  WantedWrapped'
<1> USE ClientAssumption DEF Maps
<1>1. /\ \A g \in Handlers, d \in Clients, u \in Topics :
           g # h \/ d # c \/ u # t => centro'[g][d][u] = centro[g][d][u]
      /\ centro'[h][c][t] # None
  BY ProgramFacts, WrapFacts DEF Subscribe, None
<1>2. /\ \A d \in Clients, u \in Topics : d # c \/ u # t => wanted'[d][u] = wanted[d][u]
      /\ wanted'[c][t] = wanted[c][t] \union {h}
  BY WantFacts DEF Subscribe
<1> QED
  BY <1>1, <1>2 DEF WantedWrapped

(* A patient client that subscribes had settled: its new wrapper is live   *)
(* and with the topic's others, or the request brings it.                  *)
LEMMA SubscribeOrderly ==
  ASSUME UNCHANGED program, Maps, Patient, \A d \in Clients : Orderly(d),
         NEW c \in Clients, NEW t \in Topics, NEW h \in Handlers, Subscribe(c, t, h)
  PROVE  \A d \in Clients : Orderly(d)'
<1> USE ClientAssumption DEF Maps
<1>0. PICK w : w = centro'[h][c][t]
  OBVIOUS
<1> DEFINE r == Ask("subscribe", t, {w}, FALSE)
<1>1. /\ \A g \in Handlers, d \in Clients, u \in Topics :
           g # h \/ d # c \/ u # t => centro'[g][d][u] = centro[g][d][u]
      /\ w # None
      /\ w = centro[h][c][t] \/ centro[h][c][t] = None
  BY <1>0, ProgramFacts, WrapFacts DEF Subscribe, None
<1>2. /\ requests[c] = {} /\ sweep[c] = Idle
      /\ server' = server /\ sweep' = sweep
      /\ \/ /\ t \in Known(c) /\ subs' = [subs EXCEPT ![c][t] = @ \union {w}]
            /\ requests' = requests
         \/ /\ t \notin Known(c) /\ subs' = subs
            /\ requests' = [requests EXCEPT ![c] = @ \union {r}]
  BY <1>0 DEF Subscribe, Send, MayCall, Patient
<1>3. LiveOf(c, t)' = LiveOf(c, t) \union {w}
  BY <1>0, <1>1, LiveMore
<1>4. r.op = "subscribe" /\ r.topic = t /\ r.wrappers = {w}
  BY DEF Ask
<1> HIDE DEF r
<1>5. ASSUME NEW d \in Clients, d # c PROVE Orderly(d)'
  <2>1. \A u \in Topics : LiveOf(d, u)' = LiveOf(d, u)
    BY <1>1, <1>5, LiveSame
  <2>2. requests'[d] = requests[d] /\ subs'[d] = subs[d]
    BY <1>2, <1>5 DEF Typed
  <2> QED
    BY <2>1, <2>2, <1>2, OrderlySame
<1>6. Orderly(c)'
  <2>1. \A u \in Topics : u # t => LiveOf(c, u)' = LiveOf(c, u)
    BY <1>1, LiveSame
  <2>2. \A u \in Topics : Agreed(c, u)
    BY <1>2 DEF Orderly
  <2>3. CASE /\ t \in Known(c) /\ subs' = [subs EXCEPT ![c][t] = @ \union {w}]
             /\ requests' = requests
    <3>1. Known(c)' = Known(c) /\ subs'[c][t] = subs[c][t] \union {w}
      BY <2>3 DEF Known, Typed
    <3>2. \A u \in Known(c) : u # t => subs'[c][u] = subs[c][u]
      BY <2>3 DEF Known, Typed
    <3>3. \A u \in Topics : Agreed(c, u)'
      BY <3>1, <3>2, <2>1, <2>2, <2>3, <1>2, <1>3 DEF Agreed
    <3> QED
      BY <3>3, <2>3, <1>2 DEF Orderly, Lone
  <2>4. CASE /\ t \notin Known(c) /\ subs' = subs
             /\ requests' = [requests EXCEPT ![c] = @ \union {r}]
    <3>1. Known(c)' = Known(c) /\ requests'[c] = {r}
      BY <2>4, <1>2 DEF Known, Typed
    <3>2. LiveOf(c, t)' = {w}
      BY <2>2, <2>4, <1>3 DEF Agreed
    <3>3. Awaiting(c, r)'
      BY <3>1, <3>2, <2>4, <1>4 DEF Awaiting
    <3>4. \A u \in Topics : u # t => Agreed(c, u)'
      BY <3>1, <2>1, <2>2, <2>4, <1>2 DEF Agreed
    <3>5. Lone(c)'
      BY <3>1, <1>2 DEF Lone
    <3> QED
      BY <3>1, <3>3, <3>4, <3>5, <1>4 DEF Orderly
  <2> QED
    BY <2>3, <2>4, <1>2
<1> QED
  BY <1>5, <1>6

---------------------------------------------------------------------------
(* What the three ways to unsubscribe have in common: handlers forget      *)
(* their wrappers of a topic, and these leave it.                          *)
Departs(c, t, hs, last, ws, swept) ==
  /\ centro' = Forget(c, t, hs)
  /\ Leave(c, t, last, ws, swept)
  /\ UNCHANGED <<handler, server, sweep>>

(* Handlers that leave take their wrappers out of the maps. *)
LEMMA DepartsMaps ==
  ASSUME UNCHANGED program, Maps, NEW c \in Clients, NEW t \in Topics, NEW hs \in SUBSET Handlers,
         NEW last \in BOOLEAN, NEW ws \in SUBSET Nat, NEW swept \in BOOLEAN,
         Departs(c, t, hs, last, ws, swept),
         {wanted', overtaken'} \subseteq [Clients -> [Topics -> SUBSET Handlers]],
         \A g \in Handlers, d \in Clients, u \in Topics :
           /\ g \notin hs \/ d # c \/ u # t
           /\ g \in Asked(d, u) /\ centro[g][d][u] \in Within(d, u)
           => g \in Asked(d, u)'
  PROVE  Maps'
<1> USE DEF Maps
<1>1. /\ centro' \in [Handlers -> [Clients -> [Topics -> 0..Len(handler)]]]
      /\ \A g \in Handlers, d \in Clients, u \in Topics :
           g \notin hs \/ d # c \/ u # t => centro'[g][d][u] = centro[g][d][u]
      /\ \A g \in hs : centro'[g][c][t] = None
  BY ForgetFacts DEF Departs
<1>2. handler' = handler /\ server' = server /\ sweep' = sweep
  BY DEF Departs
<1>3. \/ requests' = requests
      \/ requests' = [requests EXCEPT ![c] = @ \union {Ask("unsubscribe", t, ws, swept)}]
  BY DEF Departs, Leave, Send
<1>4. \/ subs' = subs
      \/ subs' = [subs EXCEPT ![c] = Dropped(c, t, ws)]
  BY DEF Departs, Leave
<1>5. /\ subs' = [d \in Clients |-> subs'[d]]
      /\ \A d \in Clients : d # c => subs'[d] = subs[d]
      /\ subs'[c] \in {subs[c], Dropped(c, t, ws)}
  BY <1>4 DEF Typed
<1>6. /\ DOMAIN subs'[c] \subseteq Known(c)
      /\ \A u \in DOMAIN subs'[c] : subs'[c][u] \subseteq subs[c][u]
  BY <1>5, DroppedFacts DEF Known
<1>7. /\ requests' \in [Clients -> SUBSET Requests]
      /\ \A d \in Clients : \A r \in requests'[d] :
           r.op = "subscribe" => r.wrappers \subseteq 1..Len(handler)
  <2> DEFINE q == Ask("unsubscribe", t, ws, swept)
  <2>1. q \in Requests
    BY DEF Ask, Requests
  <2>2. q.op # "subscribe"
    BY DEF Ask
  <2> HIDE DEF q
  <2>3. /\ requests' = [d \in Clients |-> requests'[d]]
        /\ \A d \in Clients : requests'[d] \in {requests[d], requests[d] \union {q}}
    <3>1. CASE requests' = requests
      BY <3>1 DEF Typed
    <3>2. CASE requests' = [requests EXCEPT ![c] = @ \union {q}]
      BY <3>2 DEF Typed
    <3> QED
      BY <1>3, <3>1, <3>2 DEF q
  <2>4. requests' \in [Clients -> SUBSET Requests]
    <3>1. ASSUME NEW d \in Clients PROVE requests'[d] \in SUBSET Requests
      <4>1. requests[d] \in SUBSET Requests
        BY DEF Typed
      <4> QED
        BY <2>1, <2>3, <4>1
    <3> QED
      BY <2>3, <3>1
  <2> QED
    <3>1. ASSUME NEW d \in Clients, NEW x \in requests'[d], x.op = "subscribe"
          PROVE  x.wrappers \subseteq 1..Len(handler)
      <4>1. x \in requests[d]
        BY <2>2, <2>3, <3>1
      <4> QED
        BY <3>1, <4>1 DEF Typed
    <3> QED
      BY <2>4, <3>1
<1>9. \A d \in Clients : Known(d)' \subseteq Topics
  BY <1>5, <1>6 DEF Known, Typed
<1>10. \A d \in Clients : \A u \in Known(d)' : subs'[d][u] \subseteq 1..Len(handler)
  BY <1>5, <1>6 DEF Known, Typed
<1>11. Typed'
  BY <1>1, <1>2, <1>5, <1>7, <1>9, <1>10 DEF Typed
<1>12. WrapperUnique'
  <2>1. \A g \in Handlers, d \in Clients, u \in Topics :
          centro'[g][d][u] # None => centro'[g][d][u] = centro[g][d][u]
    BY <1>1
  <2>2. WrapperUnique /\ handler' = handler
    BY <1>2
  <2> QED
    <3> SUFFICES ASSUME NEW g \in Handlers, NEW k \in Handlers, NEW d \in Clients,
                        NEW e \in Clients, NEW u \in Topics, NEW v \in Topics,
                        centro'[g][d][u] # None
                 PROVE  /\ handler'[centro'[g][d][u]] = g
                        /\ centro'[g][d][u] = centro'[k][e][v] => g = k /\ d = e /\ u = v
      BY DEF WrapperUnique
    <3>1. centro'[g][d][u] = centro[g][d][u]
      BY <2>1
    <3>2. centro'[g][d][u] = centro'[k][e][v] => centro'[k][e][v] = centro[k][e][v]
      BY <2>1
    <3> QED
      BY <2>2, <3>1, <3>2 DEF WrapperUnique
<1>13. Answerable'
  <2> SUFFICES ASSUME NEW g \in Handlers, NEW d \in Clients, NEW u \in Topics,
                      centro'[g][d][u] \in Within(d, u)'
               PROVE  g \in Asked(d, u)'
    BY DEF Answerable
  <2>1. Within(d, u)' \subseteq Within(d, u)
    <3>1. Underway(d, u)' \subseteq Underway(d, u)
      <4> DEFINE q == Ask("unsubscribe", t, ws, swept)
      <4>1. q.op # "subscribe"
        BY DEF Ask
      <4> HIDE DEF q
      <4>2. requests'[d] \subseteq requests[d] \union {q}
        BY <1>3 DEF Typed, q
      <4> QED
        BY <4>1, <4>2 DEF Underway
    <3>2. u \in Known(d)' => u \in Known(d) /\ subs'[d][u] \subseteq subs[d][u]
      BY <1>5, <1>6 DEF Known
    <3> QED
      BY <3>1, <3>2 DEF Within
  <2>2. centro'[g][d][u] # None
    <3>1. Within(d, u) \subseteq 1..Len(handler) /\ Len(handler) \in Nat
      BY WithinType DEF Typed
    <3> QED
      BY <2>1, <3>1 DEF None
  <2>3. /\ g \notin hs \/ d # c \/ u # t
        /\ centro'[g][d][u] = centro[g][d][u]
    BY <2>2, <1>1
  <2>4. g \in Asked(d, u)
    BY <2>1, <2>3 DEF Answerable
  <2> QED
    BY <2>1, <2>3, <2>4
<1> QED
  BY <1>11, <1>12, <1>13

(* Handlers that leave a client without a request: their wrappers leave    *)
(* with them, at once or, the last ones, with the answer of the server.    *)
LEMMA DepartsOrderly ==
  ASSUME Maps, \A d \in Clients : Orderly(d),
         NEW c \in Clients, NEW t \in Topics, NEW hs \in SUBSET Handlers,
         NEW last \in BOOLEAN, NEW ws \in SUBSET Nat, NEW swept \in BOOLEAN,
         requests[c] = {}, sweep[c] # Idle => last /\ swept,
         last => t \in Known(c) /\ subs[c][t] \subseteq ws,
         LiveOf(c, t) \ {centro[g][c][t] : g \in hs} = LiveOf(c, t) \ ws,
         Departs(c, t, hs, last, ws, swept)
  PROVE  \A d \in Clients : Orderly(d)'
<1> USE DEF Maps
<1> DEFINE q == Ask("unsubscribe", t, ws, swept)
<1>1. \A g \in Handlers, d \in Clients, u \in Topics :
        d # c \/ u # t => centro'[g][d][u] = centro[g][d][u]
  BY ForgetFacts DEF Departs
<1>2. LiveOf(c, t)' = LiveOf(c, t) \ ws
  BY LiveLess DEF Departs
<1>3. /\ server' = server /\ sweep' = sweep
      /\ \/ last /\ requests' = [requests EXCEPT ![c] = @ \union {q}] /\ subs' = subs
         \/ ~last /\ requests' = requests /\ subs' = [subs EXCEPT ![c] = Dropped(c, t, ws)]
  BY DEF Departs, Leave, Send
<1>4. q.op = "unsubscribe" /\ q.topic = t /\ q.wrappers = ws /\ q.swept = swept
  BY DEF Ask
<1> HIDE DEF q
<1>5. ASSUME NEW d \in Clients, d # c PROVE Orderly(d)'
  <2>1. \A u \in Topics : LiveOf(d, u)' = LiveOf(d, u)
    BY <1>1, <1>5, LiveSame
  <2>2. requests'[d] = requests[d] /\ subs'[d] = subs[d]
    BY <1>3, <1>5 DEF Typed
  <2> QED
    BY <2>1, <2>2, <1>3, OrderlySame
<1>6. Orderly(c)'
  <2>1. \A u \in Topics : u # t => LiveOf(c, u)' = LiveOf(c, u)
    BY <1>1, LiveSame
  <2>2. \A u \in Topics : Agreed(c, u)
    BY DEF Orderly
  <2>3. CASE last
    <3>0. subs' = subs /\ requests' = [requests EXCEPT ![c] = @ \union {q}]
      BY <2>3, <1>3
    <3>1. Known(c)' = Known(c) /\ requests'[c] = {q} /\ subs'[c] = subs[c]
      BY <3>0 DEF Known, Typed
    <3>2. LiveOf(c, t)' = {}
      BY <2>2, <2>3, <1>2 DEF Agreed
    <3>3. Awaiting(c, q)'
      BY <3>1, <3>2, <2>3, <1>4 DEF Awaiting
    <3>4. \A u \in Topics : u # t => Agreed(c, u)'
      BY <3>1, <2>1, <2>2, <1>3 DEF Agreed
    <3>5. Lone(c)'
      BY <3>1, <1>3, <1>4 DEF Lone
    <3> QED
      BY <3>1, <3>3, <3>4, <3>5, <1>4 DEF Orderly
  <2>4. CASE ~last
    <3>1. requests'[c] = {} /\ subs'[c] = Dropped(c, t, ws) /\ sweep[c] = Idle
      BY <2>4, <1>3 DEF Typed
    <3>2. \A u \in Topics : u # t => Agreed(c, u)'
      BY <3>1, <2>1, <2>2, <1>3, DroppedFacts DEF Agreed, Known
    <3>3. Agreed(c, t)'
      <4>1. t \in Known(c)' <=> t \in Known(c) /\ ~(subs[c][t] \subseteq ws)
        BY <3>1, DroppedFacts DEF Known
      <4>2. t \in Known(c)' => subs'[c][t] = subs[c][t] \ ws
        BY <3>1, DroppedFacts DEF Known
      <4> QED
        BY <4>1, <4>2, <1>2, <1>3, <2>2 DEF Agreed
    <3> QED
      BY <3>1, <3>2, <3>3, <1>3 DEF Orderly, Lone
  <2> QED
    BY <2>3, <2>4
<1> QED
  BY <1>5, <1>6

(* One handler leaves a topic. *)
LEMMA UnsubscribeStep ==
  ASSUME UNCHANGED program, IInv,
         NEW c \in Clients, NEW t \in Topics, NEW h \in Handlers, Unsubscribe(c, t, h)
  PROVE  IInv'
<1> USE DEF IInv
<1> DEFINE w == centro[h][c][t]
           last == t \in Known(c) /\ subs[c][t] = {w}
<1>1. Departs(c, t, {h}, last, {w}, FALSE) /\ called' = NoMessage /\ MayCall(c)
  BY DEF Unsubscribe, Departs, Leaving, MayCall
<1>2. w \in Nat /\ last \in BOOLEAN
  BY DEF Maps, Typed
<1>5. /\ {wanted', overtaken'} \subseteq [Clients -> [Topics -> SUBSET Handlers]]
      /\ \A d \in Clients, u \in Topics : d # c \/ u # t =>
           wanted'[d][u] = wanted[d][u] /\ overtaken'[d][u] = overtaken[d][u]
      /\ wanted'[c][t] = wanted[c][t] \ {h} /\ overtaken'[c][t] = overtaken[c][t] \ {h}
  BY DismissFacts DEF Unsubscribe, Maps
<1>6. \A g \in Handlers, d \in Clients, u \in Topics :
        /\ g \notin {h} \/ d # c \/ u # t
        /\ g \in Asked(d, u) /\ centro[g][d][u] \in Within(d, u)
        => g \in Asked(d, u)'
  BY <1>5 DEF Asked
<1>3. Maps'
  <2> HIDE DEF w, last
  <2>1. {h} \in SUBSET Handlers /\ {w} \in SUBSET Nat /\ FALSE \in BOOLEAN
    BY <1>2
  <2>2. PICK hs \in SUBSET Handlers, ws \in SUBSET Nat, swept \in BOOLEAN :
          hs = {h} /\ Departs(c, t, hs, last, ws, swept)
    BY <1>1, <2>1
  <2>3. \A g \in Handlers, d \in Clients, u \in Topics :
          /\ g \notin hs \/ d # c \/ u # t
          /\ g \in Asked(d, u) /\ centro[g][d][u] \in Within(d, u)
          => g \in Asked(d, u)'
    BY <1>6, <2>2
  <2>4. {wanted', overtaken'} \subseteq [Clients -> [Topics -> SUBSET Handlers]]
    BY <1>5
  <2> QED
    BY <1>2, <2>2, <2>3, <2>4, DepartsMaps
<1>7. ASSUME Patient PROVE WantedWrapped'
  <2>1. /\ \A g \in Handlers, d \in Clients, u \in Topics :
             g # h \/ d # c \/ u # t => centro'[g][d][u] = centro[g][d][u]
        /\ centro'[h][c][t] = None
    <3>1. {h} \in SUBSET Handlers /\ centro' = Forget(c, t, {h})
      BY <1>1 DEF Departs
    <3>2. /\ \A g \in Handlers, d \in Clients, u \in Topics :
               g \notin {h} \/ d # c \/ u # t => centro'[g][d][u] = centro[g][d][u]
          /\ \A g \in {h} : centro'[g][c][t] = None
      BY <3>1, ForgetFacts
    <3> QED
      BY <3>2
  <2> QED
    BY <1>5, <1>7, <2>1 DEF WantedWrapped
<1>4. ASSUME Patient PROVE \A d \in Clients : Orderly(d)'
  <2>1. requests[c] = {} /\ sweep[c] = Idle
    BY <1>1, <1>4 DEF MayCall, Patient
  <2>2. LiveOf(c, t) \ {centro[g][c][t] : g \in {h}} = LiveOf(c, t) \ {w}
    OBVIOUS
  <2>3. last => t \in Known(c) /\ subs[c][t] \subseteq {w}
    OBVIOUS
  <2>4. /\ {h} \in SUBSET Handlers /\ {w} \in SUBSET Nat /\ FALSE \in BOOLEAN
        /\ \A d \in Clients : Orderly(d)
    BY <1>2, <1>4
  <2> HIDE DEF w, last
  <2> QED
    BY <1>1, <1>2, <2>1, <2>2, <2>3, <2>4, DepartsOrderly
<1> QED
  BY <1>1, <1>3, <1>4, <1>7, NoCalls DEF Patient

(* The handlers of a topic's wrappers are handlers. *)
LEMMA HandlersOfType ==
  ASSUME Maps, NEW c \in Clients, NEW t \in Topics
  PROVE  HandlersOf(c, t) \subseteq Handlers
<1>1. \A w \in 1..Len(handler) : handler[w] \in Handlers
  BY DEF Maps, Typed
<1> QED
  BY <1>1 DEF Maps, Typed, HandlersOf

(* All handlers leave a topic, in a call for it or in one for its token. *)
LEMMA TopicStep ==
  ASSUME UNCHANGED program, IInv, NEW c \in Clients, NEW t \in Topics, NEW swept \in BOOLEAN,
         Departs(c, t, HandlersOf(c, t), t \in Known(c), Wrappers, swept),
         DismissAll(c, {t}), called' = NoMessage,
         Patient => requests[c] = {} /\ (sweep[c] # Idle => t \in Known(c) /\ swept)
  PROVE  IInv'
<1> USE DEF IInv
<1> DEFINE last == t \in Known(c)
<1>1. HandlersOf(c, t) \in SUBSET Handlers /\ Wrappers \in SUBSET Nat /\ last \in BOOLEAN
  BY HandlersOfType, ProgramFacts DEF Wrappers, Maps
<1>2. Departs(c, t, HandlersOf(c, t), last, Wrappers, swept)
  OBVIOUS
<1>5. /\ {wanted', overtaken'} \subseteq [Clients -> [Topics -> SUBSET Handlers]]
      /\ \A d \in Clients, u \in Topics : d # c \/ u # t =>
           wanted'[d][u] = wanted[d][u] /\ overtaken'[d][u] = overtaken[d][u]
      /\ wanted'[c][t] = {} /\ overtaken'[c][t] = Asked(c, t) \intersect InFlight(c, t)
  <2>1. {t} \in SUBSET Topics
    OBVIOUS
  <2> QED
    BY <2>1, DismissAllFacts DEF Maps
<1>6. ASSUME NEW g \in Handlers, NEW d \in Clients, NEW u \in Topics,
             g \notin HandlersOf(c, t) \/ d # c \/ u # t,
             g \in Asked(d, u), centro[g][d][u] \in Within(d, u)
      PROVE  g \in Asked(d, u)'
  <2>1. CASE d # c \/ u # t
    BY <1>5, <1>6, <2>1 DEF Asked
  <2>2. CASE d = c /\ u = t
    <3>1. handler[centro[g][c][t]] = g
      <4>1. Within(c, t) \subseteq 1..Len(handler)
        BY WithinType DEF Maps
      <4>2. centro[g][c][t] # None
        <5>1. Len(handler) \in Nat /\ centro[g][c][t] \in Within(c, t)
          BY <1>6, <2>2 DEF Maps, Typed
        <5> QED
          BY <5>1, <4>1 DEF None
      <4> QED
        BY <4>2 DEF Maps, WrapperUnique
    <3>2. centro[g][c][t] \in Underway(c, t)
      BY <1>6, <2>2, <3>1 DEF Within, HandlersOf
    <3>3. g \in InFlight(c, t)
      BY <3>1, <3>2 DEF InFlight
    <3> QED
      BY <1>5, <1>6, <2>2, <3>3 DEF Asked
  <2> QED
    BY <2>1, <2>2
<1>3. Maps'
  <2> HIDE DEF last
  <2> QED
    BY <1>1, <1>2, <1>5, <1>6, DepartsMaps
<1>7. ASSUME Patient PROVE WantedWrapped'
  <2>1. /\ \A g \in Handlers, d \in Clients, u \in Topics :
             g \notin HandlersOf(c, t) \/ d # c \/ u # t => centro'[g][d][u] = centro[g][d][u]
        /\ \A g \in HandlersOf(c, t) : centro'[g][c][t] = None
    BY <1>1, <1>2, ForgetFacts DEF Departs
  <2>2. Agreed(c, t)
    BY <1>7 DEF Orderly
  <2>3. ASSUME NEW g \in Handlers, g \notin HandlersOf(c, t) PROVE centro[g][c][t] = None
    <3> SUFFICES ASSUME centro[g][c][t] # None PROVE FALSE
      OBVIOUS
    <3>1. centro[g][c][t] \in LiveOf(c, t)
      BY DEF LiveOf
    <3>2. t \in Known(c) /\ centro[g][c][t] \in subs[c][t]
      BY <2>2, <3>1 DEF Agreed
    <3>3. handler[centro[g][c][t]] = g
      BY DEF Maps, WrapperUnique
    <3> QED
      BY <2>3, <3>2, <3>3 DEF HandlersOf
  <2> QED
    BY <1>5, <1>7, <2>1, <2>3 DEF WantedWrapped
<1>4. ASSUME Patient PROVE \A d \in Clients : Orderly(d)'
  <2>1. requests[c] = {} /\ (sweep[c] # Idle => last /\ swept)
    BY <1>4
  <2>0. 1..Len(handler) \subseteq Wrappers
    <3>1. /\ program.wrappers \in Nat /\ Len(handler) \in Nat
          /\ Len(handler) <= program.wrappers
      BY ProgramFacts DEF Maps, Typed
    <3> QED
      BY <3>1 DEF Wrappers
  <2>2. last => t \in Known(c) /\ subs[c][t] \subseteq Wrappers
    BY <2>0 DEF Maps, Typed
  <2>3. Agreed(c, t)
    BY <2>1, <1>4 DEF Orderly
  <2>4. LiveOf(c, t) \subseteq Wrappers
    BY <2>0 DEF LiveOf, Maps, Typed, None
  <2>5. LiveOf(c, t) \subseteq {centro[g][c][t] : g \in HandlersOf(c, t)}
    <3> SUFFICES ASSUME NEW v \in LiveOf(c, t)
                 PROVE  \E g \in HandlersOf(c, t) : v = centro[g][c][t]
      OBVIOUS
    <3>1. PICK g \in Handlers : v = centro[g][c][t] /\ v # None
      BY DEF LiveOf
    <3>2. handler[v] = g
      BY <3>1 DEF Maps, WrapperUnique
    <3>3. t \in Known(c) /\ v \in subs[c][t]
      BY <2>3 DEF Agreed
    <3> QED
      BY <3>1, <3>2, <3>3 DEF HandlersOf
  <2>6. LiveOf(c, t) \ {centro[g][c][t] : g \in HandlersOf(c, t)} = LiveOf(c, t) \ Wrappers
    BY <2>4, <2>5
  <2> HIDE DEF last
  <2> QED
    BY <1>1, <1>2, <1>4, <2>1, <2>2, <2>6, DepartsOrderly
<1> QED
  BY <1>3, <1>4, <1>7, NoCalls DEF Patient

---------------------------------------------------------------------------
(* Wrappers that are not in more places than before. *)
LEMMA AnswerableSame ==
  ASSUME Answerable, UNCHANGED <<centro, calls>>,
         \A c \in Clients, t \in Topics : Within(c, t)' \subseteq Within(c, t)
  PROVE  Answerable'
BY DEF Answerable, Asked, calls

(* An answer takes its request away, and changes what the client and the   *)
(* server know of its topic.                                               *)
LEMMA AnswerStep ==
  ASSUME UNCHANGED program, IInv, NEW c \in Clients, NEW r \in requests[c], Answer(c, r)
  PROVE  IInv'
<1> USE DEF IInv, Maps
<1> DEFINE t == r.topic
           more == r.wrappers \union (IF t \in Known(c) THEN subs[c][t] ELSE {})
<1>1. r \in Requests /\ t \in Topics
  BY DEF Typed, Requests
<1>2. /\ requests' = [requests EXCEPT ![c] = @ \ {r}]
      /\ UNCHANGED <<handler, centro, sweep, calls>> /\ called' = NoMessage
      /\ \/ /\ r.op = "subscribe" /\ server' = [server EXCEPT ![c] = @ \union {t}]
            /\ subs' = [subs EXCEPT ![c] = With(subs[c], t, more)]
         \/ /\ r.op = "unsubscribe" /\ server' = [server EXCEPT ![c] = @ \ {t}]
            /\ subs' = [subs EXCEPT ![c] = Dropped(c, t, r.wrappers)]
  BY DEF Answer, Typed
<1>3. /\ subs' = [d \in Clients |-> subs'[d]]
      /\ \A d \in Clients : d # c => subs'[d] = subs[d]
      /\ \/ r.op = "subscribe" /\ subs'[c] = With(subs[c], t, more)
         \/ r.op = "unsubscribe" /\ subs'[c] = Dropped(c, t, r.wrappers)
  BY <1>2 DEF Typed
<1>4. /\ server' \in [Clients -> SUBSET Topics]
      /\ \A d \in Clients : d # c => server'[d] = server[d]
      /\ r.op = "subscribe" => server'[c] = server[c] \union {t}
      /\ \A u : u # t /\ u \in server[c] => u \in server'[c]
  <2>1. PICK S \in SUBSET Topics : server' = [server EXCEPT ![c] = S]
                    /\ (r.op = "subscribe" => S = server[c] \union {t})
                    /\ \A u : u # t /\ u \in server[c] => u \in S
    BY <1>1, <1>2 DEF Typed
  <2> QED
    BY <2>1 DEF Typed
<1>5. /\ requests' \in [Clients -> SUBSET Requests]
      /\ \A d \in Clients : d # c => requests'[d] = requests[d]
      /\ requests'[c] = requests[c] \ {r}
  BY <1>2 DEF Typed
<1>8. \A d \in Clients, u \in Topics : Underway(d, u)' \subseteq Underway(d, u)
  BY <1>5 DEF Underway
<1>6. CASE r.op = "subscribe"
  <2>1. /\ DOMAIN subs'[c] = Known(c) \union {t}
        /\ subs'[c][t] = more
        /\ \A u \in Known(c) : u # t => subs'[c][u] = subs[c][u]
    BY <1>3, <1>6 DEF With, Known
  <2>2. more \subseteq 1..Len(handler)
    BY <1>6 DEF Typed
  <2>8. more \subseteq Within(c, t)
    BY <1>6 DEF Within, Underway
  <2> HIDE DEF more, t
  <2>3. \A d \in Clients : Known(d)' \subseteq Topics
    BY <2>1, <1>1, <1>3 DEF Typed, Known
  <2>4. \A d \in Clients : \A u \in Known(d)' : subs'[d][u] \subseteq 1..Len(handler')
    BY <2>1, <2>2, <1>2, <1>3 DEF Typed, Known
  <2>5. Typed'
    BY <2>3, <2>4, <1>2, <1>3, <1>4, <1>5 DEF Typed, calls
  <2>6. WrapperUnique' /\ (Patient => WantedWrapped')
    BY <1>2 DEF WrapperUnique, WantedWrapped, calls
  <2>9. ASSUME NEW d \in Clients, NEW u \in Topics PROVE Within(d, u)' \subseteq Within(d, u)
    <3>1. CASE d = c /\ u = t
      BY <3>1, <2>1, <2>8, <1>8 DEF Within, Known
    <3>2. CASE ~(d = c /\ u = t)
      BY <3>2, <2>1, <1>3, <1>8 DEF Within, Known
    <3> QED
      BY <3>1, <3>2
  <2>10. Answerable'
    BY <2>9, <1>2, AnswerableSame
  <2>7. ASSUME Patient, NEW d \in Clients PROVE Orderly(d)'
    <3>1. \A u \in Topics : LiveOf(d, u)' = LiveOf(d, u)
      BY <1>2, LiveSame
    <3>2. CASE d # c
      BY <3>1, <3>2, <2>7, <1>2, <1>3, <1>4, <1>5, OrderlySame
    <3>3. CASE d = c
      <4>1. requests'[c] = {} /\ (\A u \in Topics : u # t => Agreed(c, u))
        BY <2>7, <1>5 DEF Orderly, Lone, t
      <4>2. t \notin Known(c) /\ LiveOf(c, t) = r.wrappers
        BY <2>7, <1>6 DEF Orderly, Awaiting, t
      <4>3. subs'[c][t] = r.wrappers
        BY <4>2, <2>1 DEF more
      <4>4. Agreed(c, t)'
        BY <4>2, <4>3, <3>1, <3>3, <2>1, <1>1, <1>4, <1>6 DEF Agreed, Known
      <4>5. \A u \in Topics : u # t => Agreed(c, u)'
        BY <4>1, <3>1, <3>3, <2>1, <1>4 DEF Agreed, Known
      <4> QED
        BY <3>3, <4>1, <4>4, <4>5 DEF Orderly, Lone
    <3> QED
      BY <3>2, <3>3
  <2> QED
    BY <2>5, <2>6, <2>7, <2>10, <1>2, NoCalls DEF Patient
<1>7. CASE r.op = "unsubscribe"
  <2> HIDE DEF more, t
  <2>1. subs'[c] = Dropped(c, t, r.wrappers)
    BY <1>3, <1>7
  <2>2. /\ DOMAIN subs'[c] \subseteq Known(c)
        /\ \A u \in DOMAIN subs'[c] : subs'[c][u] \subseteq subs[c][u]
    BY <2>1, DroppedFacts
  <2>3. \A d \in Clients : Known(d)' \subseteq Topics
    BY <2>2, <1>3 DEF Typed, Known
  <2>4. \A d \in Clients : \A u \in Known(d)' : subs'[d][u] \subseteq 1..Len(handler')
    BY <2>2, <1>2, <1>3 DEF Typed, Known
  <2>5. Typed'
    BY <2>3, <2>4, <1>2, <1>3, <1>4, <1>5 DEF Typed, calls
  <2>6. WrapperUnique' /\ (Patient => WantedWrapped')
    BY <1>2 DEF WrapperUnique, WantedWrapped, calls
  <2>8. \A d \in Clients, u \in Topics : Within(d, u)' \subseteq Within(d, u)
    BY <2>2, <1>3, <1>8 DEF Within, Known
  <2>9. Answerable'
    BY <2>8, <1>2, AnswerableSame
  <2>7. ASSUME Patient, NEW d \in Clients PROVE Orderly(d)'
    <3>1. \A u \in Topics : LiveOf(d, u)' = LiveOf(d, u)
      BY <1>2, LiveSame
    <3>2. CASE d # c
      BY <3>1, <3>2, <2>7, <1>2, <1>3, <1>4, <1>5, OrderlySame
    <3>3. CASE d = c
      <4>1. requests'[c] = {} /\ (\A u \in Topics : u # t => Agreed(c, u))
        BY <2>7, <1>5 DEF Orderly, Lone, t
      <4>2. LiveOf(c, t) = {} /\ subs[c][t] \subseteq r.wrappers
        BY <2>7, <1>7 DEF Orderly, Awaiting, t
      <4>3. t \notin Known(c)'
        BY <4>2, <2>1, DroppedFacts DEF Known
      <4>4. Agreed(c, t)'
        BY <4>2, <4>3, <3>1, <3>3, <1>1 DEF Agreed
      <4>5. \A u \in Topics : u # t => (u \in Known(c)' <=> u \in Known(c))
        BY <2>1, DroppedFacts DEF Known
      <4>6. \A u \in Topics : u # t /\ u \in Known(c) => subs'[c][u] = subs[c][u]
        BY <2>1, DroppedFacts DEF Known
      <4>7. \A u \in Topics : u # t => Agreed(c, u)'
        BY <4>1, <4>5, <4>6, <3>1, <3>3, <1>4 DEF Agreed
      <4> QED
        BY <3>3, <4>1, <4>4, <4>7 DEF Orderly, Lone
    <3> QED
      BY <3>2, <3>3
  <2> QED
    BY <2>5, <2>6, <2>7, <2>9, <1>2, NoCalls DEF Patient
<1> QED
  BY <1>2, <1>6, <1>7

(* A failure takes its request away and may end a sweep. *)
LEMMA AnswerErrorStep ==
  ASSUME UNCHANGED program, IInv, NEW c \in Clients, NEW r \in requests[c], AnswerError(c, r)
  PROVE  IInv'
<1> USE DEF IInv, Maps
<1>1. program.fails /\ called' = NoMessage /\ UNCHANGED <<handler, centro, subs, server, calls>>
  BY DEF AnswerError
<1>2. /\ requests' = [requests EXCEPT ![c] = @ \ {r}]
      /\ sweep' = [sweep EXCEPT ![c] = IF r.swept THEN Idle ELSE @]
  BY DEF AnswerError
<1>3. /\ requests' \in [Clients -> SUBSET Requests]
      /\ \A d \in Clients : requests'[d] \subseteq requests[d]
  BY <1>2 DEF Typed
<1>4. sweep' \in [Clients -> Tokens \union {Idle}]
  BY <1>2 DEF Typed
<1>5. \A d \in Clients : \A q \in requests'[d] :
        q.op = "subscribe" => q.wrappers \subseteq 1..Len(handler)
  BY <1>3 DEF Typed
<1>6. Typed'
  BY <1>1, <1>3, <1>4, <1>5 DEF Typed, Known, calls
<1>7. WrapperUnique'
  BY <1>1 DEF WrapperUnique
<1>8. \A d \in Clients, u \in Topics : Within(d, u)' \subseteq Within(d, u)
  BY <1>1, <1>3 DEF Within, Underway, Known
<1>9. Answerable'
  BY <1>1, <1>8, AnswerableSame
<1> QED
  BY <1>1, <1>6, <1>7, <1>9, NoCalls DEF Patient

(* A sweep begins, or ends with the topics of its token that the client    *)
(* does not know, while a patient client waits for nothing.                *)
SweepMoves(c, n, ts) ==
  /\ n \in Tokens \union {Idle} /\ ts \subseteq Topics
  /\ \A u \in ts : u \notin Known(c)
  /\ Patient => requests[c] = {}
  /\ sweep' = [sweep EXCEPT ![c] = n] /\ called' = NoMessage
  /\ UNCHANGED <<handler, centro, subs, requests, server>>
  /\ {wanted', overtaken'} \subseteq [Clients -> [Topics -> SUBSET Handlers]]
  /\ \A d \in Clients, u \in Topics : d # c \/ u \notin ts =>
       wanted'[d][u] = wanted[d][u] /\ overtaken'[d][u] = overtaken[d][u]
  /\ \A u \in ts : /\ wanted'[c][u] = {}
                  /\ overtaken'[c][u] = Asked(c, u) \intersect InFlight(c, u)

(* It keeps the invariant. *)
LEMMA SweepStep ==
  ASSUME UNCHANGED program, IInv, NEW c \in Clients, NEW n, NEW ts,
         SweepMoves(c, n, ts)
  PROVE  IInv'
<1> USE DEF IInv, SweepMoves
<1>0. Typed
  BY DEF Maps
<1>1. Typed' /\ WrapperUnique'
  <2>1. sweep' \in [Clients -> Tokens \union {Idle}]
    BY <1>0 DEF Typed
  <2>2. Typed'
    BY <1>0, <2>1 DEF Typed, Known
  <2> QED
    BY <2>2 DEF Maps, WrapperUnique
<1>3. Answerable'
  <2> SUFFICES ASSUME NEW g \in Handlers, NEW d \in Clients, NEW u \in Topics,
                      centro[g][d][u] \in Within(d, u)
               PROVE  g \in Asked(d, u)'
    BY DEF Answerable, Within, Underway, Known
  <2>1. g \in Asked(d, u)
    BY DEF Maps, Answerable
  <2>2. CASE d # c \/ u \notin ts
    BY <2>1, <2>2 DEF Asked
  <2>3. CASE d = c /\ u \in ts
    <3>1. centro[g][c][u] \in Underway(c, u)
      BY <2>3 DEF Within
    <3>2. Within(c, u) \subseteq 1..Len(handler) /\ Len(handler) \in Nat
      BY <1>0, WithinType DEF Typed
    <3>5. centro[g][c][u] # None
      BY <3>2, <2>3 DEF None
    <3>3. handler[centro[g][c][u]] = g
      BY <3>5 DEF Maps, WrapperUnique
    <3>4. g \in InFlight(c, u)
      BY <3>1, <3>3 DEF InFlight
    <3> QED
      BY <2>1, <2>3, <3>4 DEF Asked
  <2> QED
    BY <2>2, <2>3
<1>4. ASSUME Patient PROVE WantedWrapped'
  <2> SUFFICES ASSUME NEW h \in Handlers, NEW d \in Clients, NEW u \in Topics
               PROVE  h \in wanted'[d][u] <=> centro[h][d][u] # None
    BY DEF WantedWrapped
  <2>1. CASE d # c \/ u \notin ts
    BY <1>4, <2>1 DEF WantedWrapped
  <2>2. CASE d = c /\ u \in ts
    <3>1. LiveOf(c, u) = {}
      BY <1>4, <2>2 DEF Orderly, Agreed
    <3>2. centro[h][c][u] = None
      BY <3>1 DEF LiveOf
    <3> QED
      BY <2>2, <3>2
  <2> QED
    BY <2>1, <2>2
<1>2. ASSUME Patient, NEW d \in Clients PROVE Orderly(d)'
  <2>1. \A u \in Topics : LiveOf(d, u)' = LiveOf(d, u)
    BY LiveSame
  <2>2. CASE d # c
    <3>1. sweep'[d] = sweep[d]
      BY <1>0, <2>2 DEF Typed
    <3> QED
      BY <1>0, <1>2, <2>1, <3>1, OrderlySame
  <2>3. CASE d = c
    BY <1>2, <2>1, <2>3 DEF Orderly, Lone, Agreed, Known
  <2> QED
    BY <2>2, <2>3
<1> QED
  BY <1>1, <1>2, <1>3, <1>4, NoCalls DEF Patient, Maps

(* A message calls a handler through its wrapper of the topic, one that    *)
(* the client has.                                                         *)
LEMMA MessageStep ==
  ASSUME UNCHANGED program, IInv, NEW c \in Clients, NEW t \in Topics, Deliver(c, t)
  PROVE  IInv'
<1> USE DEF IInv
<1>1. /\ t \in Known(c)
      /\ UNCHANGED <<handler, centro, subs, requests, server, sweep, calls>>
  BY DEF Deliver
<1>2. PICK ws : /\ ws \in {subs[c][t]} \union {{w} : w \in subs[c][t]}
                /\ called' = [client |-> c, topic |-> t,
                     handlers |-> {handler[w] : w \in {v \in ws : Live(c, t, v)}}]
  BY DEF Deliver
<1>3. ASSUME NEW w \in ws, Live(c, t, w) PROVE handler[w] \in Asked(c, t)
  <2>1. w \in subs[c][t] /\ w \in 1..Len(handler)
    BY <1>1, <1>2 DEF Maps, Typed
  <2>2. handler[w] \in Handlers /\ centro[handler[w]][c][t] = w
    BY <1>3, <2>1 DEF Maps, Typed, Live
  <2>3. w \in Within(c, t)
    BY <1>1, <2>1 DEF Within
  <2> QED
    BY <2>2, <2>3 DEF Maps, Answerable
<1>4. CalledOnlyWanted'
  <2>1. called'.client = c /\ called'.topic = t
    BY <1>2
  <2>2. called'.handlers \subseteq Asked(c, t)
    BY <1>2, <1>3
  <2>3. wanted' = wanted /\ overtaken' = overtaken
    BY <1>1 DEF calls
  <2> QED
    BY <2>1, <2>2, <2>3 DEF CalledOnlyWanted, Asked
<1>5. Maps'
  BY <1>1, MapsSame DEF Maps, Typed
<1>6. ASSUME Patient PROVE WantedWrapped'
  BY <1>1, <1>6 DEF WantedWrapped, calls
<1>7. ASSUME Patient, NEW d \in Clients PROVE Orderly(d)'
  <2>1. \A u \in Topics : LiveOf(d, u)' = LiveOf(d, u)
    BY <1>1, LiveSame
  <2> QED
    BY <1>1, <1>7, <2>1, OrderlySame DEF Maps
<1> QED
  BY <1>4, <1>5, <1>6, <1>7 DEF Patient

(* Every step preserves the invariant. *)
LEMMA StepIInv == IInv /\ [SubsNext]_subs_vars => IInv'
<1> SUFFICES ASSUME IInv, [SubsNext]_subs_vars PROVE IInv'
  OBVIOUS
<1>1. CASE UNCHANGED subs_vars
  <2> USE <1>1 DEF subs_vars, calls, IInv, Maps
  <2>1. Maps'
    BY MapsSame DEF Typed
  <2>2. CalledOnlyWanted' /\ (Patient => WantedWrapped')
    BY DEF CalledOnlyWanted, WantedWrapped
  <2>3. ASSUME Patient, NEW d \in Clients PROVE Orderly(d)'
    BY <2>3, LiveSame, OrderlySame
  <2> QED
    BY <2>1, <2>2, <2>3 DEF Patient
<1>2. ASSUME UNCHANGED program, NEW c \in Clients, NEW t \in Topics, NEW h \in Handlers, Subscribe(c, t, h)
      PROVE  IInv'
  <2>1. called' = NoMessage
    BY <1>2 DEF Subscribe, MayCall
  <2> QED
    BY <1>2, <2>1, SubscribeMaps, SubscribeWrapped, SubscribeOrderly, NoCalls DEF IInv, Patient
<1>3. ASSUME UNCHANGED program, NEW c \in Clients, NEW t \in Topics, NEW h \in Handlers, Unsubscribe(c, t, h)
      PROVE  IInv'
  BY <1>3, UnsubscribeStep
<1>4. ASSUME UNCHANGED program, NEW c \in Clients, NEW t \in Topics, UnsubscribeTopic(c, t)
      PROVE  IInv'
  <2>1. /\ Departs(c, t, HandlersOf(c, t), t \in Known(c), Wrappers, FALSE)
        /\ DismissAll(c, {t}) /\ called' = NoMessage
        /\ Patient => requests[c] = {} /\ sweep[c] = Idle
    BY <1>4 DEF UnsubscribeTopic, Departs, MayCall, Patient
  <2> QED
    BY <1>4, <2>1, TopicStep
<1>5. ASSUME UNCHANGED program, NEW c \in Clients, NEW t \in Topics, SweepTopic(c, t)
      PROVE  IInv'
  <2>1. t \in Known(c) /\ (t \in Known(c)) = TRUE
    BY <1>5 DEF SweepTopic
  <2>2. /\ Departs(c, t, HandlersOf(c, t), t \in Known(c), Wrappers, TRUE)
        /\ DismissAll(c, {t}) /\ called' = NoMessage
    <3>1. {t} \intersect OfToken(sweep[c]) = {t}
      BY <1>5 DEF SweepTopic, Swept, OfToken
    <3> QED
      BY <1>5, <2>1, <3>1 DEF SweepTopic, Departs
  <2>3. Patient => requests[c] = {}
    BY <1>5 DEF SweepTopic, Awaited, IInv, Orderly, Lone
  <2> QED
    BY <1>5, <2>1, <2>2, <2>3, TopicStep
<1>6. ASSUME UNCHANGED program, NEW c \in Clients, NEW t \in Topics, Deliver(c, t)
      PROVE  IInv'
  BY <1>6, MessageStep
<1>7. ASSUME UNCHANGED program, NEW c \in Clients, NEW n \in Tokens, UnsubscribeToken(c, n)
      PROVE  IInv'
  <2>1. /\ sweep' = [sweep EXCEPT ![c] = n] /\ called' = NoMessage
        /\ UNCHANGED <<handler, centro, subs, requests, server, calls>>
        /\ Patient => requests[c] = {}
    BY <1>7 DEF UnsubscribeToken, MayCall, Patient
  <2>2. {wanted', overtaken'} \subseteq [Clients -> [Topics -> SUBSET Handlers]]
    BY <2>1 DEF calls, IInv, Maps, Typed
  <2>3. /\ wanted' = wanted /\ overtaken' = overtaken
        /\ n \in Tokens \union {Idle} /\ {} \in SUBSET Topics
    BY <2>1 DEF calls
  <2>4. SweepMoves(c, n, {})
    BY <2>1, <2>2, <2>3 DEF SweepMoves
  <2> QED
    BY <1>7, <2>4, SweepStep
<1>8. ASSUME UNCHANGED program, NEW c \in Clients, SweepEnds(c)
      PROVE  IInv'
  <2>1. Patient => requests[c] = {}
    BY <1>8 DEF SweepEnds, Awaited, IInv, Orderly, Lone
  <2>2. /\ sweep' = [sweep EXCEPT ![c] = Idle] /\ called' = NoMessage
        /\ UNCHANGED <<handler, centro, subs, requests, server>>
        /\ DismissAll(c, OfToken(sweep[c]))
        /\ \A u \in OfToken(sweep[c]) : u \notin Known(c)
    BY <1>8 DEF SweepEnds, Swept, OfToken
  <2>3. OfToken(sweep[c]) \in SUBSET Topics /\ Idle \in Tokens \union {Idle}
    BY DEF OfToken
  <2> DEFINE ts == OfToken(sweep[c])
  <2>4. /\ {wanted', overtaken'} \subseteq [Clients -> [Topics -> SUBSET Handlers]]
        /\ \A d \in Clients, u \in Topics : d # c \/ u \notin ts =>
             wanted'[d][u] = wanted[d][u] /\ overtaken'[d][u] = overtaken[d][u]
        /\ \A u \in ts : /\ wanted'[c][u] = {}
                        /\ overtaken'[c][u] = Asked(c, u) \intersect InFlight(c, u)
    BY <2>2, <2>3, DismissAllFacts DEF IInv, Maps
  <2>5. ts \in SUBSET Topics /\ \A u \in ts : u \notin Known(c)
    BY <2>2, <2>3
  <2> HIDE DEF ts
  <2>6. SweepMoves(c, Idle, ts)
    BY <2>1, <2>2, <2>3, <2>4, <2>5 DEF SweepMoves
  <2> QED
    BY <1>8, <2>6, SweepStep
<1>9. ASSUME UNCHANGED program, NEW c \in Clients, NEW r \in requests[c], Answer(c, r) \/ AnswerError(c, r)
      PROVE  IInv'
  BY <1>9, AnswerStep, AnswerErrorStep
<1>10. ASSUME SubsNext PROVE IInv'
  <2>1. /\ program.clients \subseteq Clients /\ program.topics \subseteq Topics
        /\ {TokenOf[t] : t \in program.topics} \subseteq Tokens
    BY ProgramFacts DEF IInv, Maps, Tokens
  <2> QED
    BY <1>10, <2>1, <1>2, <1>3, <1>4, <1>5, <1>6, <1>7, <1>8, <1>9 DEF SubsNext
<1> QED
  BY <1>1, <1>10

(* The invariant holds throughout. *)
LEMMA Invariance == SubsSpec => []IInv
<1>1. SubsInit => IInv
  BY InitIInv
<1>2. IInv /\ [SubsNext]_subs_vars => IInv'
  BY StepIInv
<1> QED
  BY <1>1, <1>2, PTL DEF SubsSpec

(* The invariant gives what the maps promise of a client that has settled. *)
LEMMA AgreeFromInv == ASSUME IInv PROVE MapsAgree
<1> USE DEF IInv, Maps
<1>1. SubsTypeOK
  BY DEF Typed, SubsTypeOK
<1>2. ASSUME Patient PROVE WantedDelivered /\ NoStaleWrapper
  <2> SUFFICES ASSUME NEW c \in Clients, Settled(c), NEW t \in Topics
               PROVE  /\ wanted[c][t] # {} => t \in Known(c) /\ t \in server[c]
                      /\ t \in Known(c) =>
                           /\ wanted[c][t]
                                = {handler[w] : w \in {v \in subs[c][t] : Live(c, t, v)}}
                           /\ \A w \in subs[c][t] : Live(c, t, w)
    BY DEF WantedDelivered, NoStaleWrapper, Typed
  <2>1. Agreed(c, t)
    BY <1>2 DEF Orderly, Settled
  <2>2. {handler[w] : w \in LiveOf(c, t)} = wanted[c][t]
    BY <1>2, HandlersLive
  <2>3. ASSUME NEW w \in LiveOf(c, t) PROVE Live(c, t, w)
    BY DEF LiveOf, Live, WrapperUnique
  <2>4. CASE t \notin Known(c)
    BY <2>1, <2>2, <2>4 DEF Agreed
  <2>5. CASE t \in Known(c)
    <3>1. subs[c][t] = LiveOf(c, t) /\ t \in server[c]
      BY <2>1, <2>5 DEF Agreed
    <3>2. {v \in subs[c][t] : Live(c, t, v)} = LiveOf(c, t)
      BY <3>1, <2>3
    <3>3. wanted[c][t] = {handler[w] : w \in {v \in subs[c][t] : Live(c, t, v)}}
      BY <3>2, <2>2
    <3>4. \A w \in subs[c][t] : Live(c, t, w)
      BY <3>1, <2>3
    <3> QED
      BY <2>5, <3>1, <3>3, <3>4, Zenon
  <2> QED
    BY <2>4, <2>5
<1> QED
  BY <1>1, <1>2 DEF MapsAgree, Patient

(* A message calls only handlers the user's calls ask for, or that were    *)
(* under way when their topic or token was unsubscribed from as a whole,   *)
(* though the server and the client's topics lag behind the calls          *)
(* (client.js unsub: the wrapper is forgotten at once; 211).               *)
THEOREM OnlyWanted == SubsSpec => []CalledOnlyWanted
<1>1. IInv => CalledOnlyWanted
  BY DEF IInv
<1> QED
  BY <1>1, Invariance, PTL

(* A wrapper wraps its handler, in one place; and the maps of a program    *)
(* that waits for its answers, none of them an error, end with what the    *)
(* user wants and no forgotten wrapper (client.js subscribe, unsubscribe). *)
THEOREM AgreementOfMaps == SubsSpec => []MapsAgree
<1>1. IInv => MapsAgree
  BY AgreeFromInv
<1> QED
  BY <1>1, Invariance, PTL
=============================================================================
