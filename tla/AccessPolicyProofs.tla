------------------------- MODULE AccessPolicyProofs -------------------------
(***************************************************************************)
(* Proofs that what a connection may do is what its tokens say, whatever   *)
(* the tokens, the topics and their number.                                *)
(*                                                                         *)
(* The invariant says what the two maps of claims hold of the tokens       *)
(* processed so far, and that what access control and the client are given *)
(* is made of all of them.                                                 *)
(***************************************************************************)
EXTENDS AccessPolicy, SequenceTheorems, TLAPS

\* Among the first n tokens, none after this one replaces its claim.
StandsAmong(i, n, claim) ==
  /\ claim[i] # NoClaim
  /\ \A j \in 1..n :
       j > i /\ Prefix(handshakes[j]) = Prefix(handshakes[i]) => claim[j] = NoClaim

\* f maps each prefix to the claim that the last of the first n tokens to do so
\* makes for it.
ClaimsOf(f, n, claim) ==
  /\ DOMAIN f = {Prefix(handshakes[i]) : i \in {j \in 1..n : claim[j] # NoClaim}}
  /\ \A x \in DOMAIN f : \E i \in 1..n :
       StandsAmong(i, n, claim) /\ Prefix(handshakes[i]) = x /\ claim[i] = f[x]

Announced ==
  {m \in published : m[1] # "ack"} =
    (IF phase \in {"connected", "closed"} THEN Messages("connect") ELSE {})
      \union (IF phase = "closed" THEN Messages("disconnect") ELSE {})

Given ==
  /\ done = Len(handshakes)
  /\ policy = PolicyOf(handshakes)
  /\ subscribed = AggregateTopics(handshakes, Subscribe(handshakes))
  /\ hello = [prefixes |-> [i \in DOMAIN handshakes |-> Prefix(handshakes[i])],
              subscriptions |-> Subscriptions(handshakes)]

Known ==
  known = UNION {{hello.prefixes[i]} \X hello.subscriptions[i] :
                   i \in DOMAIN hello.subscriptions}

Typed ==
  /\ handshakes \in Seq(Tokens)
  /\ done \in 0..Len(handshakes)
  /\ phase \in {"processing", "attached", "connected", "closed"}

IInv ==
  /\ Typed
  /\ ClaimsOf(presence, done, PresenceOf)
  /\ ClaimsOf(ack_prefixes, done, AckOf)
  /\ Ready => Given
  /\ phase = "connected" => Known
  /\ AckOfIssuer
  /\ Announced

(* The tokens a client presents are a sequence.                            *)
LEMMA InitIInv == Init => IInv
<1> SUFFICES ASSUME Init PROVE IInv
  OBVIOUS
<1>1. handshakes \in Seq(Tokens)
  BY AccessPolicyAssumption, SeqDef DEF Init
<1>2. Typed
  BY <1>1, LenProperties DEF Typed, Init
<1>3. ClaimsOf(presence, done, PresenceOf) /\ ClaimsOf(ack_prefixes, done, AckOf)
  BY DEF ClaimsOf, Init, Empty
<1> QED
  BY <1>2, <1>3 DEF IInv, Init, Ready, AckOfIssuer, Announced

(* A claim that is set for the prefix of the next token.                   *)
LEMMA ClaimsGrow ==
  ASSUME NEW f, NEW n \in Nat, NEW claim, ClaimsOf(f, n, claim)
  PROVE  ClaimsOf(Claimed(f, Prefix(handshakes[n + 1]), claim[n + 1]), n + 1, claim)
<1> DEFINE x == Prefix(handshakes[n + 1])
           g == Claimed(f, x, claim[n + 1])
<1>1. CASE claim[n + 1] = NoClaim
  <2>1. g = f
    BY <1>1 DEF Claimed
  <2>2. \A i \in 1..n : StandsAmong(i, n, claim) => StandsAmong(i, n + 1, claim)
    BY <1>1 DEF StandsAmong
  <2> QED
    BY <1>1, <2>1, <2>2 DEF ClaimsOf
<1>2. CASE claim[n + 1] # NoClaim
  <2>1. g = Set(f, x, claim[n + 1])
    BY <1>2 DEF Claimed
  <2>2. DOMAIN g = DOMAIN f \union {x}
    BY <2>1 DEF Set
  <2>3. \A y \in DOMAIN g : g[y] = IF y = x THEN claim[n + 1] ELSE f[y]
    BY <2>1 DEF Set
  <2>4. StandsAmong(n + 1, n + 1, claim)
    BY <1>2 DEF StandsAmong
  <2>5. \A i \in 1..n : StandsAmong(i, n, claim) /\ Prefix(handshakes[i]) # x
                        => StandsAmong(i, n + 1, claim)
    BY DEF StandsAmong
  <2>6. ASSUME NEW y \in DOMAIN g
        PROVE  \E i \in 1..(n + 1) :
                 StandsAmong(i, n + 1, claim) /\ Prefix(handshakes[i]) = y /\ claim[i] = g[y]
    <3>1. CASE y = x
      BY <2>3, <2>4, <3>1
    <3>2. CASE y # x
      <4>1. PICK i \in 1..n :
              StandsAmong(i, n, claim) /\ Prefix(handshakes[i]) = y /\ claim[i] = f[y]
        BY <2>2, <3>2 DEF ClaimsOf
      <4> QED
        BY <2>3, <2>5, <3>2, <4>1
    <3> QED
      BY <3>1, <3>2
  <2>7. DOMAIN g = {Prefix(handshakes[i]) : i \in {j \in 1..(n + 1) : claim[j] # NoClaim}}
    BY <1>2, <2>2 DEF ClaimsOf
  <2> QED
    BY <2>6, <2>7 DEF ClaimsOf
<1> QED
  BY <1>1, <1>2

(* What stands among all tokens that are processed stands.                 *)
LEMMA AllStand ==
  ASSUME Typed, done = Len(handshakes), NEW i \in 1..done, NEW claim
  PROVE  StandsAmong(i, done, claim) <=> Stands(i, claim)
<1>1. DOMAIN handshakes = 1..done
  BY LenProperties DEF Typed
<1> QED
  BY <1>1 DEF StandsAmong, Stands

(* A message published is an ack with a claim of a token of its prefix, or *)
(* of another kind.                                                        *)
LEMMA AckStep ==
  ASSUME IInv, NEW prefix \in DOMAIN ack_prefixes, UNCHANGED handshakes,
         done = Len(handshakes),
         published' = published \union {<<"ack", prefix, AckTo(prefix)>>}
  PROVE  AckOfIssuer'
<1>1. PICK i \in 1..done :
        /\ StandsAmong(i, done, AckOf)
        /\ Prefix(handshakes[i]) = prefix /\ AckOf[i] = ack_prefixes[prefix]
  BY DEF IInv, ClaimsOf
<1>2. Stands(i, AckOf)
  BY <1>1, AllStand DEF IInv
<1>3. i \in DOMAIN handshakes /\ AckOf[i] = AckTo(prefix)
  BY <1>1, LenProperties DEF IInv, Typed, AckTo
<1>4. AckOf' = AckOf /\ \A j \in DOMAIN handshakes : Stands(j, AckOf)' <=> Stands(j, AckOf)
  BY DEF Stands, AckOf, Prefix
<1> QED
  BY <1>1, <1>2, <1>3, <1>4 DEF IInv, AckOfIssuer, Prefix

LEMMA MessagesStep ==
  ASSUME IInv, NEW kind \in {"connect", "disconnect"}, UNCHANGED <<handshakes, presence>>,
         published' = published \union Messages(kind),
         \/ kind = "connect" /\ phase \notin {"connected", "closed"} /\ phase' = "connected"
         \/ kind = "disconnect" /\ phase = "connected" /\ phase' = "closed"
  PROVE  AckOfIssuer' /\ Announced'
<1>1. \A k : Messages(k)' = Messages(k) /\ \A m \in Messages(k) : m[1] = k
  BY DEF Messages
<1>2. {m \in published : m[1] # "ack"}' = {m \in published : m[1] # "ack"} \union Messages(kind)
  BY <1>1
<1>3. Announced'
  BY <1>1, <1>2 DEF IInv, Announced
<1>4. AckOfIssuer'
  BY <1>1 DEF IInv, AckOfIssuer, Stands, AckOf, Prefix
<1> QED
  BY <1>3, <1>4

(* Nothing else announces anything. *)
LEMMA AnnouncedStays ==
  ASSUME IInv, UNCHANGED presence,
         \A m \in published' : m \in published \/ m[1] = "ack",
         published \subseteq published',
         phase' = phase \/ {phase, phase'} \subseteq {"processing", "attached"}
  PROVE  Announced'
<1>1. \A k : Messages(k)' = Messages(k)
  BY DEF Messages
<1>2. {m \in published : m[1] # "ack"}' = {m \in published : m[1] # "ack"}
  OBVIOUS
<1> QED
  BY <1>1, <1>2 DEF IInv, Announced

(* An acknowledgement stays right while the tokens are the same. *)
LEMMA AcksStay ==
  ASSUME IInv, UNCHANGED <<handshakes, published>> PROVE AckOfIssuer'
BY DEF IInv, AckOfIssuer, Stands, AckOf, Prefix

(* Steps that change none of these. *)
LEMMA TokensStay ==
  ASSUME Typed, UNCHANGED <<handshakes, done>>, phase' \in {"attached", "connected", "closed"}
  PROVE  Typed'
BY DEF Typed

LEMMA ClaimsStay ==
  ASSUME IInv, UNCHANGED <<handshakes, done, presence, ack_prefixes>>
  PROVE  ClaimsOf(presence, done, PresenceOf)' /\ ClaimsOf(ack_prefixes, done, AckOf)'
<1>1. PresenceOf' = PresenceOf /\ AckOf' = AckOf
  BY DEF PresenceOf, AckOf
<1>2. ClaimsOf(presence, done, PresenceOf) /\ ClaimsOf(ack_prefixes, done, AckOf)
  BY DEF IInv
<1> QED
  BY <1>1, <1>2 DEF ClaimsOf, StandsAmong, Prefix

LEMMA GivenStays ==
  ASSUME Given, UNCHANGED <<handshakes, done, policy, subscribed, hello>>
  PROVE  Given'
BY DEF Given

(* Each step keeps it. *)
LEMMA NextIInv == IInv /\ [Next]_vars => IInv'
<1> SUFFICES ASSUME IInv, [Next]_vars PROVE IInv'
  OBVIOUS
<1>1. CASE ProcessHandshake
  <2>0. Typed
    BY DEF IInv
  <2>1. /\ phase = "processing" /\ done' = done + 1 /\ done < Len(handshakes)
        /\ presence' = Claimed(presence, Prefix(handshakes[done + 1]), PresenceOf[done + 1])
        /\ ack_prefixes' = Claimed(ack_prefixes, Prefix(handshakes[done + 1]), AckOf[done + 1])
        /\ UNCHANGED <<handshakes, policy, subscribed, hello, known, published, phase>>
    BY <1>1, <2>0, LenProperties DEF ProcessHandshake, Typed, PresenceOf, AckOf
  <2>2. done \in Nat /\ Typed'
    BY <2>0, <2>1, LenProperties DEF Typed
  <2>3. PresenceOf' = PresenceOf /\ AckOf' = AckOf
    BY <2>1 DEF PresenceOf, AckOf
  <2>4. ClaimsOf(presence', done + 1, PresenceOf) /\ ClaimsOf(ack_prefixes', done + 1, AckOf)
    BY <2>1, <2>2, ClaimsGrow DEF IInv
  <2>5. ClaimsOf(presence, done, PresenceOf)' /\ ClaimsOf(ack_prefixes, done, AckOf)'
    BY <2>1, <2>3, <2>4 DEF ClaimsOf, StandsAmong, Prefix
  <2>6. AckOfIssuer'
    BY <2>1, AcksStay
  <2>7. Announced'
    BY <2>1 DEF IInv, Announced
  <2> QED
    BY <2>1, <2>2, <2>5, <2>6, <2>7 DEF IInv, Ready
<1>2. CASE Attach
  <2>1. /\ UNCHANGED <<handshakes, done, presence, ack_prefixes, published>>
        /\ phase = "processing" /\ phase' = "attached" /\ Given'
    BY <1>2 DEF Attach, Given, claims
  <2>2. AckOfIssuer' /\ Announced'
    BY <2>1, AcksStay, AnnouncedStays
  <2>3. Typed' /\ ClaimsOf(presence, done, PresenceOf)' /\ ClaimsOf(ack_prefixes, done, AckOf)'
    BY <2>1, TokensStay, ClaimsStay DEF IInv
  <2> QED
    BY <2>1, <2>2, <2>3 DEF IInv
<1>3. CASE Connect
  <2>1. /\ UNCHANGED <<handshakes, done, presence, ack_prefixes, policy, subscribed, hello>>
        /\ phase = "attached" /\ phase' = "connected"
        /\ published' = published \union Messages("connect")
        /\ Known'
    BY <1>3 DEF Connect, Known, claims
  <2>2. AckOfIssuer' /\ Announced'
    BY <2>1, MessagesStep
  <2>3. Typed' /\ ClaimsOf(presence, done, PresenceOf)' /\ ClaimsOf(ack_prefixes, done, AckOf)'
    BY <2>1, TokensStay, ClaimsStay DEF IInv
  <2>4. Given'
    BY <2>1, GivenStays DEF IInv, Ready
  <2> QED
    BY <2>1, <2>2, <2>3, <2>4 DEF IInv
<1>4. CASE Close
  <2>1. /\ UNCHANGED <<handshakes, done, presence, ack_prefixes, policy, subscribed, hello>>
        /\ phase = "connected" /\ phase' = "closed"
        /\ published' = published \union Messages("disconnect")
    BY <1>4 DEF Close, claims
  <2>2. AckOfIssuer' /\ Announced'
    BY <2>1, MessagesStep
  <2>3. Typed' /\ ClaimsOf(presence, done, PresenceOf)' /\ ClaimsOf(ack_prefixes, done, AckOf)'
    BY <2>1, TokensStay, ClaimsStay DEF IInv
  <2>4. Given'
    BY <2>1, GivenStays DEF IInv, Ready
  <2> QED
    BY <2>1, <2>2, <2>3, <2>4 DEF IInv
<1>5. ASSUME NEW j \in DOMAIN handshakes, Ack(Prefix(handshakes[j])) PROVE IInv'
  <2> DEFINE x == Prefix(handshakes[j])
  <2>1. /\ UNCHANGED <<handshakes, done, presence, ack_prefixes, policy, subscribed, hello, known>>
        /\ phase = "connected" /\ phase' = phase /\ x \in DOMAIN ack_prefixes
        /\ published' = published \union {<<"ack", x, AckTo(x)>>}
    BY <1>5 DEF Ack, claims
  <2>2. AckOfIssuer'
    BY <2>1, AckStep DEF IInv, Ready, Given
  <2>3. Typed' /\ ClaimsOf(presence, done, PresenceOf)' /\ ClaimsOf(ack_prefixes, done, AckOf)'
    BY <2>1, TokensStay, ClaimsStay DEF IInv
  <2>4. Given' /\ Known'
    BY <2>1, GivenStays DEF IInv, Ready, Known
  <2>5. Announced'
    BY <2>1, AnnouncedStays
  <2> QED
    BY <2>1, <2>2, <2>3, <2>4, <2>5 DEF IInv
<1>6. CASE UNCHANGED vars
  <2>1. UNCHANGED <<handshakes, done, presence, ack_prefixes, policy, subscribed, hello,
                    known, published, phase>>
    BY <1>6 DEF vars
  <2>2. Typed' /\ ClaimsOf(presence, done, PresenceOf)' /\ ClaimsOf(ack_prefixes, done, AckOf)'
    BY <2>1, ClaimsStay DEF IInv, Typed
  <2>3. Ready => Given'
    BY <2>1, GivenStays DEF IInv
  <2>4. AckOfIssuer' /\ Announced'
    BY <2>1, AcksStay, AnnouncedStays
  <2> QED
    BY <2>1, <2>2, <2>3, <2>4 DEF IInv, Ready, Known
<1> QED
  BY <1>1, <1>2, <1>3, <1>4, <1>5, <1>6 DEF Next

(* The invariant holds of every behaviour. *)
LEMMA Invariance == Spec => []IInv
BY InitIInv, NextIInv, PTL DEF Spec

---------------------------------------------------------------------------
(* The topics of some of the tokens that have one prefix, and no others.   *)
LEMMA OwnTopics ==
  ASSUME ~Privileged, NEW i \in DOMAIN handshakes, NEW topic, NEW f, NEW g,
         \A j \in DOMAIN OfIssuer(handshakes[i].iss) : g[j] = f[j]
  PROVE  <<Prefix(handshakes[i]), topic>> \in AggregateTopics(handshakes, f)
           <=> <<Prefix(handshakes[i]), topic>> \in
                 AggregateTopics(OfIssuer(handshakes[i].iss), g)
BY DEF AggregateTopics, OfIssuer, Restrict, Prefix

(* Topics and booleans are the same in reverse order. *)
LEMMA ReverseIndices ==
  ASSUME NEW s \in Seq(Tokens)
  PROVE  /\ DOMAIN s = 1..Len(s) /\ DOMAIN Reverse(s) = 1..Len(s)
         /\ \A i \in 1..Len(s) :
              /\ Len(s) - i + 1 \in 1..Len(s)
              /\ Reverse(s)[i] = s[Len(s) - i + 1]
              /\ s[i] = Reverse(s)[Len(s) - i + 1]
BY LenProperties DEF Reverse

LEMMA ReverseTopics ==
  ASSUME NEW s \in Seq(Tokens), NEW f, NEW g,
         \A i \in 1..Len(s) : g[i] = f[Len(s) - i + 1]
  PROVE  AggregateTopics(Reverse(s), g) = AggregateTopics(s, f)
<1> DEFINE n == Len(s)
           r == Reverse(s)
<1>1. n \in Nat
  BY LenProperties
<1>2. ASSUME NEW x \in AggregateTopics(r, g) PROVE x \in AggregateTopics(s, f)
  <2>1. PICK i \in 1..n : x \in {<<Prefix(r[i]), Replace(t)>> : t \in g[i]}
    BY <1>2, ReverseIndices DEF AggregateTopics
  <2>2. n - i + 1 \in DOMAIN s /\ r[i] = s[n - i + 1] /\ g[i] = f[n - i + 1]
    BY ReverseIndices
  <2> QED
    BY <2>1, <2>2 DEF AggregateTopics
<1>3. ASSUME NEW x \in AggregateTopics(s, f) PROVE x \in AggregateTopics(r, g)
  <2>1. PICK i \in 1..n : x \in {<<Prefix(s[i]), Replace(t)>> : t \in f[i]}
    BY <1>3, ReverseIndices DEF AggregateTopics
  <2>2. n - i + 1 \in DOMAIN r /\ s[i] = r[n - i + 1]
    BY ReverseIndices
  <2>3. g[n - i + 1] = f[n - (n - i + 1) + 1] /\ n - (n - i + 1) + 1 = i
    BY <1>1, ReverseIndices
  <2> QED
    BY <2>1, <2>2, <2>3 DEF AggregateTopics
<1> QED
  BY <1>2, <1>3

LEMMA ReverseBool ==
  ASSUME NEW s \in Seq(Tokens)
  PROVE  AggregateBool([i \in DOMAIN Reverse(s) |-> Reverse(s)[i].disallow_single], FALSE)
           = AggregateBool([i \in DOMAIN s |-> s[i].disallow_single], FALSE)
<1>1. (\E i \in DOMAIN Reverse(s) : Reverse(s)[i].disallow_single # FALSE)
        <=> (\E i \in DOMAIN s : s[i].disallow_single # FALSE)
  <2>1. ASSUME NEW i \in 1..Len(s), Reverse(s)[i].disallow_single # FALSE
        PROVE  \E j \in 1..Len(s) : s[j].disallow_single # FALSE
    <3>1. Len(s) - i + 1 \in 1..Len(s) /\ Reverse(s)[i] = s[Len(s) - i + 1]
      BY ReverseIndices
    <3> QED
      BY <2>1, <3>1
  <2>2. ASSUME NEW i \in 1..Len(s), s[i].disallow_single # FALSE
        PROVE  \E j \in 1..Len(s) : Reverse(s)[j].disallow_single # FALSE
    <3>1. Len(s) - i + 1 \in 1..Len(s) /\ s[i] = Reverse(s)[Len(s) - i + 1]
      BY ReverseIndices
    <3> QED
      BY <2>2, <3>1
  <2> QED
    BY <2>1, <2>2, ReverseIndices
<1> QED
  BY <1>1 DEF AggregateBool

LEMMA ReversePolicy ==
  ASSUME NEW s \in Seq(Tokens)
  PROVE  PolicyOf(Reverse(s)) = PolicyOf(s)
<1> DEFINE r == Reverse(s)
<1>1. AggregateTopics(r, [i \in DOMAIN r |-> r[i].allow])
        = AggregateTopics(s, [i \in DOMAIN s |-> s[i].allow])
  BY ReverseTopics, ReverseIndices
<1>2. AggregateTopics(r, [i \in DOMAIN r |-> r[i].disallow])
        = AggregateTopics(s, [i \in DOMAIN s |-> s[i].disallow])
  BY ReverseTopics, ReverseIndices
<1>3. AggregateTopics(r, [i \in DOMAIN r |-> r[i].block])
        = AggregateTopics(s, [i \in DOMAIN s |-> s[i].block])
  BY ReverseTopics, ReverseIndices
<1>4. AggregateTopics(r, [i \in DOMAIN r |-> r[i].subscribe_allow])
        = AggregateTopics(s, [i \in DOMAIN s |-> s[i].subscribe_allow])
  BY ReverseTopics, ReverseIndices
<1>5. AggregateTopics(r, [i \in DOMAIN r |-> r[i].subscribe_disallow])
        = AggregateTopics(s, [i \in DOMAIN s |-> s[i].subscribe_disallow])
  BY ReverseTopics, ReverseIndices
<1> QED
  BY <1>1, <1>2, <1>3, <1>4, <1>5, ReverseBool DEF PolicyOf

---------------------------------------------------------------------------
(* Each part of the properties follows from the invariant.                 *)
LEMMA TypeHolds == IInv => TypeOK
<1> SUFFICES ASSUME IInv PROVE TypeOK
  OBVIOUS
<1>1. /\ done \in 0..Len(handshakes) /\ DOMAIN handshakes = 1..Len(handshakes)
      /\ Len(handshakes) \in Nat
  BY LenProperties DEF IInv, Typed
<1>2. \A j \in 1..done : PresenceOf[j] = handshakes[j].presence
  BY <1>1 DEF PresenceOf
<1>3. DOMAIN presence =
        {Prefix(handshakes[i]) : i \in {j \in 1..done : handshakes[j].presence # NoClaim}}
  BY <1>2 DEF IInv, ClaimsOf
<1> QED
  BY <1>1, <1>3 DEF IInv, TypeOK, Given

LEMMA IsolationHolds == IInv => Isolation
<1> SUFFICES ASSUME IInv, Ready, ~Privileged, NEW i \in DOMAIN handshakes, NEW topic
             PROVE  LET own == PolicyOf(OfIssuer(handshakes[i].iss))
                        prefix == Prefix(handshakes[i])
                    IN /\ MayPublish(policy, prefix, topic) <=> MayPublish(own, prefix, topic)
                       /\ MaySubscribe(policy, prefix, topic) <=> MaySubscribe(own, prefix, topic)
                       /\ MayReceive(policy, prefix, topic) <=> MayReceive(own, prefix, topic)
  BY DEF Isolation
<1> DEFINE hs == OfIssuer(handshakes[i].iss)
           x == <<Prefix(handshakes[i]), topic>>
<1>1. policy = PolicyOf(handshakes)
  BY DEF IInv, Given
<1>2. DOMAIN hs \subseteq DOMAIN handshakes /\ \A j \in DOMAIN hs : hs[j] = handshakes[j]
  BY DEF OfIssuer, Restrict
<1>3. x \in PolicyOf(handshakes).allow <=> x \in PolicyOf(hs).allow
  <2> DEFINE f == [j \in DOMAIN handshakes |-> handshakes[j].allow]
             g == [j \in DOMAIN hs |-> hs[j].allow]
  <2>1. \A j \in DOMAIN hs : g[j] = f[j]
    BY <1>2
  <2>2. PolicyOf(handshakes).allow = AggregateTopics(handshakes, f)
        /\ PolicyOf(hs).allow = AggregateTopics(hs, g)
    BY DEF PolicyOf
  <2> HIDE DEF f, g
  <2> QED
    BY <2>1, <2>2, OwnTopics
<1>4. x \in PolicyOf(handshakes).disallow <=> x \in PolicyOf(hs).disallow
  <2> DEFINE f == [j \in DOMAIN handshakes |-> handshakes[j].disallow]
             g == [j \in DOMAIN hs |-> hs[j].disallow]
  <2>1. \A j \in DOMAIN hs : g[j] = f[j]
    BY <1>2
  <2>2. PolicyOf(handshakes).disallow = AggregateTopics(handshakes, f)
        /\ PolicyOf(hs).disallow = AggregateTopics(hs, g)
    BY DEF PolicyOf
  <2> HIDE DEF f, g
  <2> QED
    BY <2>1, <2>2, OwnTopics
<1>5. x \in PolicyOf(handshakes).block <=> x \in PolicyOf(hs).block
  <2> DEFINE f == [j \in DOMAIN handshakes |-> handshakes[j].block]
             g == [j \in DOMAIN hs |-> hs[j].block]
  <2>1. \A j \in DOMAIN hs : g[j] = f[j]
    BY <1>2
  <2>2. PolicyOf(handshakes).block = AggregateTopics(handshakes, f)
        /\ PolicyOf(hs).block = AggregateTopics(hs, g)
    BY DEF PolicyOf
  <2> HIDE DEF f, g
  <2> QED
    BY <2>1, <2>2, OwnTopics
<1>6. x \in PolicyOf(handshakes).subscribe_allow <=> x \in PolicyOf(hs).subscribe_allow
  <2> DEFINE f == [j \in DOMAIN handshakes |-> handshakes[j].subscribe_allow]
             g == [j \in DOMAIN hs |-> hs[j].subscribe_allow]
  <2>1. \A j \in DOMAIN hs : g[j] = f[j]
    BY <1>2
  <2>2. PolicyOf(handshakes).subscribe_allow = AggregateTopics(handshakes, f)
        /\ PolicyOf(hs).subscribe_allow = AggregateTopics(hs, g)
    BY DEF PolicyOf
  <2> HIDE DEF f, g
  <2> QED
    BY <2>1, <2>2, OwnTopics
<1>7. x \in PolicyOf(handshakes).subscribe_disallow <=> x \in PolicyOf(hs).subscribe_disallow
  <2> DEFINE f == [j \in DOMAIN handshakes |-> handshakes[j].subscribe_disallow]
             g == [j \in DOMAIN hs |-> hs[j].subscribe_disallow]
  <2>1. \A j \in DOMAIN hs : g[j] = f[j]
    BY <1>2
  <2>2. PolicyOf(handshakes).subscribe_disallow = AggregateTopics(handshakes, f)
        /\ PolicyOf(hs).subscribe_disallow = AggregateTopics(hs, g)
    BY DEF PolicyOf
  <2> HIDE DEF f, g
  <2> QED
    BY <2>1, <2>2, OwnTopics
<1> QED
  BY <1>1, <1>3, <1>4, <1>5, <1>6, <1>7 DEF MayPublish, MaySubscribe, MayReceive

LEMMA OrderHolds == IInv => OrderIrrelevant
BY ReversePolicy DEF IInv, Typed, Given, OrderIrrelevant

LEMMA SubscriptionsHold ==
  ASSUME IInv,
         \A i \in DOMAIN handshakes : \A t \in handshakes[i].subscribe : Replace(t) = t
  PROVE  SubscriptionsAgree
<1> SUFFICES ASSUME phase = "connected" PROVE known = subscribed
  BY DEF SubscriptionsAgree
<1> DEFINE hs == handshakes
<1>1. /\ subscribed = AggregateTopics(hs, Subscribe(hs))
      /\ hello.prefixes = [i \in DOMAIN hs |-> Prefix(hs[i])]
      /\ hello.subscriptions = Subscriptions(hs)
      /\ known = UNION {{hello.prefixes[i]} \X hello.subscriptions[i] :
                           i \in DOMAIN hello.subscriptions}
  BY DEF IInv, Ready, Given, Known
<1>3. \A i \in DOMAIN hs : \A t \in hs[i].subscribe : Replace(t) = t
  OBVIOUS
<1>4. subscribed = UNION {{<<Prefix(hs[i]), t>> : t \in hs[i].subscribe} : i \in DOMAIN hs}
  BY <1>1, <1>3 DEF AggregateTopics, Subscribe
<1>5. CASE \E i \in DOMAIN hs : hs[i].subscribe # {}
  <2>1. hello.subscriptions = [i \in DOMAIN hs |-> hs[i].subscribe]
    BY <1>1, <1>5 DEF Subscriptions, Subscribe
  <2>2. known = UNION {{Prefix(hs[i])} \X hs[i].subscribe : i \in DOMAIN hs}
    BY <1>1, <2>1
  <2> QED
    BY <1>4, <2>2
<1>6. CASE ~ \E i \in DOMAIN hs : hs[i].subscribe # {}
  <2>1. DOMAIN hello.subscriptions = {}
    BY <1>1, <1>6 DEF Subscriptions
  <2> QED
    BY <1>1, <1>4, <1>6, <2>1
<1> QED
  BY <1>5, <1>6

(* Once all tokens are processed, the map of presence is what stands.      *)
LEMMA OwedMessages == ASSUME IInv, Ready, NEW kind PROVE Messages(kind) = Owed(kind)
<1>1. /\ done = Len(handshakes) /\ DOMAIN handshakes = 1..done /\ done \in Nat /\ Typed
      /\ ClaimsOf(presence, done, PresenceOf)
  BY LenProperties DEF IInv, Typed, Given
<1>2. \A i \in 1..done : StandsAmong(i, done, PresenceOf) <=> Stands(i, PresenceOf)
  BY <1>1, AllStand
<1>3. ASSUME NEW x \in DOMAIN presence PROVE <<kind, x, presence[x]>> \in Owed(kind)
  <2>1. PICK i \in 1..done :
          Stands(i, PresenceOf) /\ Prefix(handshakes[i]) = x /\ PresenceOf[i] = presence[x]
    BY <1>1, <1>2 DEF ClaimsOf
  <2> QED
    BY <1>1, <2>1 DEF Owed
<1>4. ASSUME NEW i \in 1..done, Stands(i, PresenceOf)
      PROVE  <<kind, Prefix(handshakes[i]), PresenceOf[i]>> \in Messages(kind)
  <2> DEFINE x == Prefix(handshakes[i])
  <2>1. x \in DOMAIN presence
    BY <1>1, <1>4 DEF ClaimsOf, Stands
  <2>2. PICK j \in 1..done :
          Stands(j, PresenceOf) /\ Prefix(handshakes[j]) = x /\ PresenceOf[j] = presence[x]
    BY <1>1, <1>2, <2>1 DEF ClaimsOf
  <2>3. i = j
    BY <1>1, <1>4, <2>2 DEF Stands
  <2> QED
    BY <2>1, <2>2, <2>3 DEF Messages
<1> QED
  BY <1>1, <1>3, <1>4 DEF Messages, Owed

LEMMA PresenceHolds == IInv => PresencePublished
<1> SUFFICES ASSUME IInv PROVE PresencePublished
  OBVIOUS
<1>1. Ready => \A kind : Messages(kind) = Owed(kind)
  BY OwedMessages
<1> QED
  BY <1>1 DEF IInv, Announced, PresencePublished, Ready

(* What a client may publish, subscribe to and receive under a prefix is   *)
(* decided by the tokens of that issuer, in whatever order they are        *)
(* presented, and it knows what it was presubscribed to.                   *)
THEOREM RightsOfIssuer == Spec => []RightsKept
<1>1. IInv => RightsKept
  BY TypeHolds, IsolationHolds, OrderHolds, SubscriptionsHold DEF RightsKept
<1> QED
  BY <1>1, Invariance, PTL

(* Acknowledgements and presence go where the last token of the same       *)
(* issuer to say so asks for them (process_handshake, conn_closed).        *)
THEOREM ClaimsOfIssuer == Spec => []ClaimsKept
<1>1. IInv => ClaimsKept
  BY TypeHolds, PresenceHolds DEF ClaimsKept, IInv
<1> QED
  BY <1>1, Invariance, PTL
=============================================================================
