---------------------------- MODULE AccessPolicy ----------------------------
(***************************************************************************)
(* What the tokens of a connection, taken together, let its client do      *)
(* (server.js, process_handshake and processed_handshakes): the topics     *)
(* merged for access control, the presubscriptions, and the prefixes under *)
(* which presence and ack messages are published.  A topic on the server   *)
(* is the prefix of a token's issuer and the topic the token names; a      *)
(* transport that is privileged has one prefix for all.                    *)
(*                                                                         *)
(* Topics match when they are equal: wildcards are mqlobber's.  A topic    *)
(* that contains ${self} is another topic for every connection.            *)
(*                                                                         *)
(* An operator named Bug... is a plausible mistake in the definition that  *)
(* follows it; the specification does not use it.                          *)
(***************************************************************************)
EXTENDS Naturals, Sequences, FiniteSets, SequencesExt

CONSTANTS
  Tokens,     \* payloads of tokens
  Presented,  \* what clients may present: payloads, in order
  MaxTokens,  \* config.max_tokens
  Privileged, \* config.privileged
  NoClaim,    \* a token without a presence or an ack claim
  Replace(_)  \* replace: a topic with the connection's id for its ${self}

ASSUME AccessPolicyAssumption ==
  /\ MaxTokens \in Nat \ {0}
  /\ \A hs \in Presented : \E n \in 1..MaxTokens : hs \in [1..n -> Tokens]
  /\ Privileged \in BOOLEAN

Topics ==
  UNION {p.allow \union p.disallow \union p.subscribe_allow \union p.subscribe_disallow
           \union p.subscribe : p \in Tokens}
Ours == "ours" \* the prefix of a privileged transport: the empty string

VARIABLES
  handshakes,    \* payloads of the tokens presented, in order
  done,          \* handshakes processed
  presence,      \* prefixes with a presence claim, as a function
  ack_prefixes,  \* prefixes with an ack claim
  policy,        \* what access control is given
  subscribed,    \* topics the server subscribed the client to
  hello,         \* prefixes and subscriptions the client is sent
  known,         \* topics the client takes itself to be subscribed to
  published,     \* presence messages and acks published
  phase          \* "processing", "attached", "connected", "closed"

vars == <<handshakes, done, presence, ack_prefixes, policy, subscribed, hello,
          known, published, phase>>
claims == <<presence, ack_prefixes>>

BugPrefix(p) == Ours
Prefix(p) == IF Privileged THEN Ours ELSE p.iss

Empty == [x \in {} |-> NoClaim]
Set(f, x, v) == [y \in DOMAIN f \union {x} |-> IF y = x THEN v ELSE f[y]]

NoPolicy == [allow |-> {}, disallow |-> {}, disallow_single |-> FALSE,
             subscribe_allow |-> {}, subscribe_disallow |-> {}, block |-> {}]
NoHello == [prefixes |-> <<>>, subscriptions |-> <<>>]

Init ==
  /\ handshakes \in Presented
  /\ done = 0
  /\ presence = Empty /\ ack_prefixes = Empty
  /\ policy = NoPolicy /\ subscribed = {}
  /\ hello = NoHello /\ known = {}
  /\ published = {} /\ phase = "processing"

---------------------------------------------------------------------------
BugClaimed(f, prefix, claim) ==
  IF claim = NoClaim \/ prefix \in DOMAIN f THEN f ELSE Set(f, prefix, claim)

Claimed(f, prefix, claim) == IF claim = NoClaim THEN f ELSE Set(f, prefix, claim)

(* process_handshake: a claim replaces one that an earlier token made for  *)
(* the same prefix.                                                        *)
ProcessHandshake ==
  /\ phase = "processing" /\ done < Len(handshakes)
  /\ done' = done + 1
  /\ LET p == handshakes[done + 1]
     IN /\ presence' = Claimed(presence, Prefix(p), p.presence)
        /\ ack_prefixes' = Claimed(ack_prefixes, Prefix(p), p.ack)
  /\ UNCHANGED <<handshakes, policy, subscribed, hello, known, published, phase>>

(* AggregateTopics: the topics of all handshakes, each with its prefix.    *)
AggregateTopics(hs, topics) ==
  UNION {{<<Prefix(hs[i]), Replace(t)>> : t \in topics[i]} : i \in DOMAIN hs}

BugAggregateBool(values, dflt) ==
  values[CHOOSE i \in DOMAIN values : \A j \in DOMAIN values : i <= j]

(* aggregate_bool: the first value that is not the default, if there is    *)
(* one.                                                                    *)
AggregateBool(values, dflt) ==
  IF \E i \in DOMAIN values : values[i] # dflt THEN ~dflt ELSE dflt

Subscribe(hs) == [i \in DOMAIN hs |-> hs[i].subscribe]

PolicyOf(hs) ==
  [allow |-> AggregateTopics(hs, [i \in DOMAIN hs |-> hs[i].allow]),
   disallow |-> AggregateTopics(hs, [i \in DOMAIN hs |-> hs[i].disallow]),
   disallow_single |-> AggregateBool([i \in DOMAIN hs |-> hs[i].disallow_single], FALSE),
   subscribe_allow |-> AggregateTopics(hs, [i \in DOMAIN hs |-> hs[i].subscribe_allow]),
   subscribe_disallow |-> AggregateTopics(hs, [i \in DOMAIN hs |-> hs[i].subscribe_disallow]),
   block |-> AggregateTopics(hs, [i \in DOMAIN hs |-> hs[i].block])]

(* The subscriptions the client is told of: one entry for each token, or   *)
(* nothing at all when no token has any.                                   *)
BugSubscriptions(hs) == SelectSeq(Subscribe(hs), LAMBDA s : s # {})

Subscriptions(hs) ==
  IF \E i \in DOMAIN hs : hs[i].subscribe # {} THEN Subscribe(hs) ELSE <<>>

(* processed_handshakes *)
Attach ==
  /\ phase = "processing" /\ done = Len(handshakes)
  /\ phase' = "attached"
  /\ policy' = PolicyOf(handshakes)
  /\ subscribed' = AggregateTopics(handshakes, Subscribe(handshakes))
  /\ hello' = [prefixes |-> [i \in DOMAIN handshakes |-> Prefix(handshakes[i])],
               subscriptions |-> Subscriptions(handshakes)]
  /\ UNCHANGED <<handshakes, done, claims, known, published>>

(* The client's handshake: it is told its prefixes and its subscriptions,  *)
(* which it takes as the tokens write them; and presence messages are      *)
(* published, one for each entry of the map.                               *)
Messages(kind) == {<<kind, prefix, presence[prefix]>> : prefix \in DOMAIN presence}

Connect ==
  /\ phase = "attached"
  /\ phase' = "connected"
  /\ known' = UNION {{hello.prefixes[i]} \X hello.subscriptions[i] :
                       i \in DOMAIN hello.subscriptions}
  /\ published' = published \union Messages("connect")
  /\ UNCHANGED <<handshakes, done, claims, policy, subscribed, hello>>

(* conn_closed *)
Close ==
  /\ phase = "connected"
  /\ phase' = "closed"
  /\ published' = published \union Messages("disconnect")
  /\ UNCHANGED <<handshakes, done, claims, policy, subscribed, hello, known>>

BugAckTo(prefix) == ack_prefixes[CHOOSE q \in DOMAIN ack_prefixes : TRUE]
AckTo(prefix) == ack_prefixes[prefix]

(* The client acknowledges a message of one of the prefixes.               *)
Ack(prefix) ==
  /\ phase = "connected"
  /\ prefix \in DOMAIN ack_prefixes
  /\ published' = published \union {<<"ack", prefix, AckTo(prefix)>>}
  /\ UNCHANGED <<handshakes, done, claims, policy, subscribed, hello, known, phase>>

Next ==
  \/ ProcessHandshake \/ Attach \/ Connect \/ Close
  \/ \E i \in DOMAIN handshakes : Ack(Prefix(handshakes[i]))

Spec == Init /\ [][Next]_vars

---------------------------------------------------------------------------
(* Access control, as mqlobber-access-control decides. *)
MayPublish(pol, prefix, topic) == <<prefix, topic>> \in pol.allow \ pol.disallow

MaySubscribe(pol, prefix, topic) ==
  <<prefix, topic>> \in pol.subscribe_allow \ pol.subscribe_disallow

MayReceive(pol, prefix, topic) == <<prefix, topic>> \notin pol.block

OfIssuer(iss) == Restrict(handshakes, {i \in DOMAIN handshakes : handshakes[i].iss = iss})
Ready == phase \in {"attached", "connected", "closed"}

(* Values of the right kind; a claim is there once its token is processed. *)
TypeOK ==
  /\ done \in 0..Len(handshakes)
  /\ DOMAIN presence =
       {Prefix(handshakes[i]) : i \in {j \in 1..done : handshakes[j].presence # NoClaim}}
  /\ Ready => done = Len(handshakes)

(* What a client may publish to the topics of an issuer, what it may       *)
(* subscribe to, and what is kept from it, is decided by that issuer's     *)
(* tokens alone.                                                           *)
Isolation ==
  Ready /\ ~Privileged =>
    \A i \in DOMAIN handshakes, topic \in {Replace(t) : t \in Topics} :
      LET own == PolicyOf(OfIssuer(handshakes[i].iss))
          prefix == Prefix(handshakes[i])
      IN /\ MayPublish(policy, prefix, topic) <=> MayPublish(own, prefix, topic)
         /\ MaySubscribe(policy, prefix, topic) <=> MaySubscribe(own, prefix, topic)
         /\ MayReceive(policy, prefix, topic) <=> MayReceive(own, prefix, topic)

(* The order in which the tokens are presented makes no difference to what *)
(* the client may do: one that forbids is not outvoted by one before it.   *)
OrderIrrelevant == Ready => policy = PolicyOf(Reverse(handshakes))

(* The client knows exactly the presubscriptions the server made: "the     *)
(* topics to which the client has been pre-subscribed".                    *)
SubscriptionsAgree == phase = "connected" => known = subscribed

(* The token with this index makes a claim that no later one of its prefix *)
(* replaces.                                                               *)
Stands(i, claim) ==
  /\ claim[i] # NoClaim
  /\ \A j \in DOMAIN handshakes :
       j > i /\ Prefix(handshakes[j]) = Prefix(handshakes[i]) => claim[j] = NoClaim

PresenceOf == [i \in DOMAIN handshakes |-> handshakes[i].presence]
AckOf == [i \in DOMAIN handshakes |-> handshakes[i].ack]

(* An acknowledgement goes where the last token of the same issuer to say  *)
(* so asked for it.                                                        *)
AckOfIssuer ==
  \A m \in published : m[1] = "ack" =>
    \E i \in DOMAIN handshakes :
      Stands(i, AckOf) /\ Prefix(handshakes[i]) = m[2] /\ AckOf[i] = m[3]

(* When a client connects a presence message is published for each issuer  *)
(* with such a claim, by the last of its tokens that has one, and for no   *)
(* other; and its counterpart when it disconnects.                         *)
Owed(kind) ==
  {<<kind, Prefix(handshakes[i]), PresenceOf[i]>> :
     i \in {j \in DOMAIN handshakes : Stands(j, PresenceOf)}}

PresencePublished ==
  {m \in published : m[1] # "ack"} =
    (IF phase \in {"connected", "closed"} THEN Owed("connect") ELSE {})
      \union (IF phase = "closed" THEN Owed("disconnect") ELSE {})

(* What the tokens of a connection allow, forbid, block and presubscribe;  *)
(* the client knows what it was presubscribed to where no such topic of    *)
(* its tokens has ${self}.                                                 *)
RightsKept ==
  /\ TypeOK /\ Isolation /\ OrderIrrelevant
  /\ (\A i \in DOMAIN handshakes : \A t \in handshakes[i].subscribe : Replace(t) = t)
       => SubscriptionsAgree

(* What their claims bring about, also where a later token makes another   *)
(* claim for the same issuer.                                              *)
ClaimsKept == TypeOK /\ AckOfIssuer /\ PresencePublished
=============================================================================
