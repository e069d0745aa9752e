---------------------------- MODULE LimitsProofs ----------------------------
(***************************************************************************)
(* Proofs about the limits on what a client has under way, for every limit *)
(* and all finite sets of publications, connections, topics and requests.  *)
(*                                                                         *)
(* Each limit is proved correct by itself; the specification that holds    *)
(* them all implies the one of each.                                       *)
(***************************************************************************)
EXTENDS Limits, FiniteSetTheorems, TLAPS

---------------------------------------------------------------------------
(* The operators of FiniteSets that the module of this limit reads. *)
LEMMA ActivePubsSets ==
  \A S : /\ ActivePubs!IsFiniteSet(S) <=> IsFiniteSet(S)
         /\ ActivePubs!Cardinality(S) = Cardinality(S)
BY DEF ActivePubs!IsFiniteSet, IsFiniteSet, ActivePubs!Cardinality, Cardinality

USE ActivePubsSets

(* The publications whose decrement is armed are those under way.          *)
PubsIInv == ActivePubs!TypeOK /\ loose = ActivePubs!Active /\ ActivePubs!CountExact

(* The number of active publications is finite. *)
LEMMA ActiveFinite == ActivePubs!PublicationsAssumption => IsFiniteSet(ActivePubs!Active)
  BY FS_Subset DEF ActivePubs!Active, ActivePubs!PublicationsAssumption

(* The invariant holds in the initial state. *)
LEMMA PubsInit == ActivePubs!PublicationsAssumption /\ ActivePubs!Init => PubsIInv
<1> SUFFICES ASSUME ActivePubs!PublicationsAssumption, ActivePubs!Init PROVE PubsIInv
  OBVIOUS
<1>1. ActivePubs!Active = {}
  BY DEF ActivePubs!Init, ActivePubs!Active
<1> QED
  BY <1>1, FS_EmptySet DEF ActivePubs!Init, PubsIInv, ActivePubs!TypeOK,
                           ActivePubs!CountExact, ActivePubs!PublicationsAssumption

(* Raising and lowering by one follows the set of active publications. *)
LEMMA PubsNext ==
  ASSUME ActivePubs!PublicationsAssumption
  PROVE  PubsIInv /\ [ActivePubs!Next]_ActivePubs!vars => PubsIInv'
<1> SUFFICES ASSUME PubsIInv, [ActivePubs!Next]_ActivePubs!vars PROVE PubsIInv'
  OBVIOUS
<1> USE DEF PubsIInv, ActivePubs!TypeOK, ActivePubs!CountExact,
            ActivePubs!PublicationsAssumption
<1>1. ASSUME NEW p \in Publications, ActivePubs!Refuse(p) PROVE PubsIInv'
  <2>1. ActivePubs!Active' = ActivePubs!Active
    BY <1>1 DEF ActivePubs!Refuse, ActivePubs!Active
  <2> QED
    BY <1>1, <2>1 DEF ActivePubs!Refuse
<1>2. ASSUME NEW p \in Publications, ActivePubs!Publish(p) PROVE PubsIInv'
  <2>1. ActivePubs!Active' = ActivePubs!Active \union {p}
    BY <1>2 DEF ActivePubs!Publish, ActivePubs!Active
  <2>2. p \notin ActivePubs!Active
    BY <1>2 DEF ActivePubs!Publish, ActivePubs!Active
  <2>3. Cardinality(ActivePubs!Active') = Cardinality(ActivePubs!Active) + 1
    BY <2>1, <2>2, ActiveFinite, FS_AddElement
  <2>4. count' \in Nat /\ count' = Cardinality(ActivePubs!Active') /\ count' <= MaxPublications
    BY <1>2, <2>3 DEF ActivePubs!Publish, ActivePubs!Full
  <2> QED
    BY <1>2, <2>1, <2>4 DEF ActivePubs!Publish
<1>3. ASSUME NEW p \in Publications, ActivePubs!PublishAnswered(p) PROVE PubsIInv'
  <2>1. ActivePubs!Active' = ActivePubs!Active
    BY <1>3 DEF ActivePubs!PublishAnswered, ActivePubs!Active
  <2> QED
    BY <1>3, <2>1 DEF ActivePubs!PublishAnswered
<1>4. ASSUME NEW p \in Publications, ActivePubs!Cb2(p) PROVE PubsIInv'
  <2>1. ActivePubs!Active' = ActivePubs!Active \ {p}
    BY <1>4 DEF ActivePubs!Cb2, ActivePubs!Active
  <2>2. CASE p \in loose
    <3>1. Cardinality(ActivePubs!Active') = Cardinality(ActivePubs!Active) - 1
      BY <2>1, <2>2, ActiveFinite, FS_RemoveElement
    <3>2. Cardinality(ActivePubs!Active') \in Nat
      BY <2>1, ActiveFinite, FS_RemoveElement, FS_CardinalityType
    <3>3. count' \in Nat /\ count' = Cardinality(ActivePubs!Active') /\ count' <= MaxPublications
      BY <1>4, <2>2, <3>1, <3>2 DEF ActivePubs!Cb2
    <3> QED
      BY <1>4, <2>1, <3>3 DEF ActivePubs!Cb2
  <2>3. CASE p \notin loose
    <3>1. ActivePubs!Active' = ActivePubs!Active
      BY <2>1, <2>3
    <3> QED
      BY <1>4, <2>1, <2>3, <3>1 DEF ActivePubs!Cb2
  <2> QED
    BY <2>2, <2>3
<1>5. CASE UNCHANGED ActivePubs!vars
  BY <1>5 DEF ActivePubs!vars, ActivePubs!Active
<1> QED
  BY <1>1, <1>2, <1>3, <1>4, <1>5 DEF ActivePubs!Next

(* limit_active_publications: the count is that of the publications under  *)
(* way and within the limit, whatever calls the callbacks and however      *)
(* often.                                                                  *)
LEMMA PublicationsCorrect ==
  ASSUME ActivePubs!PublicationsAssumption
  PROVE  ActivePubs!Spec => []ActivePubs!PublicationsCounted
<1>1. ActivePubs!Init => PubsIInv
  BY PubsInit
<1>2. PubsIInv => ActivePubs!PublicationsCounted
  BY DEF PubsIInv, ActivePubs!PublicationsCounted
<1> QED
  BY <1>1, <1>2, PubsNext, PTL DEF ActivePubs!Spec

(* Nothing is refused while fewer publications than allowed are under way. *)
LEMMA PublicationRefusals ==
  ASSUME ActivePubs!PublicationsAssumption
  PROVE  ActivePubs!Spec => ActivePubs!OnlyLimitRefuses
<1>1. ActivePubs!Init => PubsIInv
  BY PubsInit
<1>2. PubsIInv /\ [ActivePubs!Next]_ActivePubs!vars => [ActivePubs!RefusedAtLimit]_ActivePubs!vars
  <2> SUFFICES ASSUME PubsIInv, [ActivePubs!Next]_ActivePubs!vars,
                      NEW p \in Publications,
                      state[p] = "new", state'[p] = "refused"
               PROVE  Cardinality(ActivePubs!Active) >= MaxPublications
    BY DEF ActivePubs!RefusedAtLimit
  <2> USE DEF PubsIInv, ActivePubs!TypeOK, ActivePubs!CountExact,
              ActivePubs!PublicationsAssumption
  <2>1. PICK q \in Publications : ActivePubs!Refuse(q) \/ ActivePubs!Publish(q) \/ ActivePubs!PublishAnswered(q) \/ ActivePubs!Cb2(q)
    BY DEF ActivePubs!Next, ActivePubs!vars
  <2>2. ActivePubs!Refuse(q)
    BY <2>1 DEF ActivePubs!Publish, ActivePubs!PublishAnswered, ActivePubs!Cb2
  <2> QED
    BY <2>2 DEF ActivePubs!Refuse, ActivePubs!Full
<1> QED
  BY <1>1, <1>2, PubsNext, PTL DEF ActivePubs!Spec, ActivePubs!OnlyLimitRefuses

HIDE ActivePubsSets

---------------------------------------------------------------------------
(* The operators of FiniteSets that the module of this limit reads. *)
LEMMA ActiveSubsSets ==
  \A S : /\ ActiveSubs!IsFiniteSet(S) <=> IsFiniteSet(S)
         /\ ActiveSubs!Cardinality(S) = Cardinality(S)
BY DEF ActiveSubs!IsFiniteSet, IsFiniteSet, ActiveSubs!Cardinality, Cardinality

USE ActiveSubsSets

(* The subscriptions asked for and not made yet, and their requests. *)
AskedRequests == {r \in Requests : request[r].stage = "asked" /\ request[r].kind = "subscribe"}
Asked == {<<request[r].conn, request[r].topic>> : r \in AskedRequests}

RequestTypes ==
  [stage : {"idle", "asked", "performed"}, kind : ActiveSubs!Kinds, conn : Conns \union {nothing},
   topic : SubTopics \union {nothing}, moved : SUBSET SubTopics]

SubsTyped ==
  /\ s_count \in Int /\ nan \in BOOLEAN
  /\ status \in [Conns -> {"new", "open", "closed"}]
  /\ subs \in [Conns -> SUBSET SubTopics]
  /\ request \in [Requests -> RequestTypes]
  /\ refused \in BOOLEAN

(* A request under way is one of a connection there is, and makes one      *)
(* subscription at most; only an open connection has subscriptions; a      *)
(* count that is not a number refuses nothing.                             *)
Sound ==
  /\ \A r \in Requests : request[r].stage # "idle" =>
       /\ request[r].conn \in Conns /\ status[request[r].conn] # "new"
       /\ request[r].kind # "unsubscribe_all" => request[r].topic \in SubTopics
       /\ request[r].kind = "subscribe" => request[r].moved \subseteq {request[r].topic}
  /\ \A c \in Conns : status[c] # "open" => subs[c] = {}
  /\ ~(nan /\ refused)

(* What may still be subscribed without another test of the limit exceeds  *)
(* it by less than the number of requests.                                 *)
Bounded == Cardinality(ActiveSubs!Subscribed \union Asked) <= MaxSubscriptions + Cardinality(Requests) - 1

Counted ==
  ActiveSubs!CountExact /\ ActiveSubs!CountCovers /\ Bounded /\ ActiveSubs!RefusedOnlyAtLimit

(* What the count says is said while it is a number. *)
SubsIInv == SubsTyped /\ Sound /\ (~nan => Counted)

---------------------------------------------------------------------------
(* A set of pairs with the same first member has the size of the seconds. *)
LEMMA PairsCard ==
  ASSUME NEW x, NEW M, IsFiniteSet(M)
  PROVE  IsFiniteSet({x} \X M) /\ Cardinality({x} \X M) = Cardinality(M)
<1>1. IsFiniteSet({x}) /\ Cardinality({x}) = 1
  BY FS_Singleton
<1>2. /\ IsFiniteSet({x} \X M)
      /\ Cardinality({x} \X M) = Cardinality({x}) * Cardinality(M)
  BY <1>1, FS_Product
<1>3. Cardinality(M) \in Nat
  BY FS_CardinalityType
<1> QED
  BY <1>1, <1>2, <1>3

(* Sets that do not meet add up. *)
LEMMA DisjointCard ==
  ASSUME NEW S, NEW T, IsFiniteSet(S), IsFiniteSet(T), S \intersect T = {}
  PROVE  /\ IsFiniteSet(S \union T)
         /\ Cardinality(S \union T) = Cardinality(S) + Cardinality(T)
<1>1. Cardinality(S \intersect T) = 0
  BY FS_EmptySet
<1>2. Cardinality(S) \in Nat /\ Cardinality(T) \in Nat
  BY FS_CardinalityType
<1>3. /\ IsFiniteSet(S \union T)
      /\ Cardinality(S \union T)
           = Cardinality(S) + Cardinality(T) - Cardinality(S \intersect T)
  BY FS_Union
<1> QED
  BY <1>1, <1>2, <1>3

(* Sets that may meet add up to no more. *)
LEMMA UnionCard ==
  ASSUME NEW S, NEW T, IsFiniteSet(S), IsFiniteSet(T)
  PROVE  /\ IsFiniteSet(S \union T)
         /\ Cardinality(S \union T) <= Cardinality(S) + Cardinality(T)
<1>1. IsFiniteSet(S \intersect T)
  BY FS_Intersection
<1>2. /\ Cardinality(S) \in Nat /\ Cardinality(T) \in Nat
      /\ Cardinality(S \intersect T) \in Nat
  BY <1>1, FS_CardinalityType
<1>3. /\ IsFiniteSet(S \union T)
      /\ Cardinality(S \union T)
           = Cardinality(S) + Cardinality(T) - Cardinality(S \intersect T)
  BY FS_Union
<1> QED
  BY <1>2, <1>3

(* What is taken out of a set comes off its size. *)
LEMMA WithoutCard ==
  ASSUME NEW S, NEW T, IsFiniteSet(S), T \subseteq S
  PROVE  /\ IsFiniteSet(T) /\ IsFiniteSet(S \ T)
         /\ Cardinality(S \ T) = Cardinality(S) - Cardinality(T)
<1>1. S \intersect T = T
  OBVIOUS
<1>2. IsFiniteSet(T)
  BY FS_Subset
<1>3. /\ IsFiniteSet(S \ T)
      /\ Cardinality(S \ T) = Cardinality(S) - Cardinality(S \intersect T)
  BY FS_Difference
<1> QED
  BY <1>1, <1>2, <1>3

(* A set is not smaller than its image. *)
LEMMA ImageCard ==
  ASSUME NEW S, NEW T, NEW f \in [S -> T], IsFiniteSet(S),
         \A y \in T : \E x \in S : f[x] = y
  PROVE  IsFiniteSet(T) /\ Cardinality(T) <= Cardinality(S)
<1>1. f \in Surjection(S, T)
  BY DEF Surjection
<1> QED
  BY <1>1, FS_Surjection

(* All that is counted is finite. *)
LEMMA SubsFinite ==
  ASSUME ActiveSubs!LimitAssumption, NEW kinds
  PROVE  /\ IsFiniteSet(ActiveSubs!Subscribed) /\ Cardinality(ActiveSubs!Subscribed) \in Nat
         /\ IsFiniteSet(ActiveSubs!Unreported(kinds)) /\ Cardinality(ActiveSubs!Unreported(kinds)) \in Nat
         /\ Cardinality(Requests) \in Nat /\ Cardinality(Requests) > 0
<1>1. IsFiniteSet(Conns \X SubTopics) /\ IsFiniteSet(Requests \X SubTopics)
  BY FS_Product DEF ActiveSubs!LimitAssumption
<1>2. ActiveSubs!Subscribed \in SUBSET (Conns \X SubTopics) /\ ActiveSubs!Unreported(kinds) \in SUBSET (Requests \X SubTopics)
  BY DEF ActiveSubs!Subscribed, ActiveSubs!Unreported
<1>3. IsFiniteSet(ActiveSubs!Subscribed) /\ IsFiniteSet(ActiveSubs!Unreported(kinds))
  BY <1>1, <1>2, FS_Subset
<1>4. Cardinality(Requests) \in Nat /\ Cardinality(Requests) # 0
  BY FS_CardinalityType, FS_EmptySet DEF ActiveSubs!LimitAssumption
<1> QED
  BY <1>3, <1>4, FS_CardinalityType

(* Asked subscriptions are no more than their requests. *)
LEMMA AskedCard ==
  ASSUME ActiveSubs!LimitAssumption
  PROVE  /\ IsFiniteSet(Asked) /\ IsFiniteSet(AskedRequests)
         /\ Cardinality(Asked) <= Cardinality(AskedRequests)
         /\ Cardinality(Asked) \in Nat /\ Cardinality(AskedRequests) \in Nat
<1>1. IsFiniteSet(AskedRequests)
  BY FS_Subset DEF AskedRequests, ActiveSubs!LimitAssumption
<1> DEFINE f == [r \in AskedRequests |-> <<request[r].conn, request[r].topic>>]
<1>2. f \in [AskedRequests -> Asked] /\ \A y \in Asked : \E x \in AskedRequests : f[x] = y
  BY DEF Asked
<1>3. IsFiniteSet(Asked) /\ Cardinality(Asked) <= Cardinality(AskedRequests)
  <2> HIDE DEF f
  <2> QED
    BY <1>1, <1>2, ImageCard
<1> QED
  BY <1>1, <1>3, FS_CardinalityType

(* So are those made and not reported: one of a request at most. *)
LEMMA MadeCard ==
  ASSUME ActiveSubs!LimitAssumption, SubsTyped, Sound,
         NEW S, S = {r \in Requests : request[r].stage = "performed" /\ request[r].kind = "subscribe"}
  PROVE  IsFiniteSet(S) /\ Cardinality(ActiveSubs!Made) <= Cardinality(S) /\ Cardinality(S) \in Nat
<1>1. IsFiniteSet(S)
  BY FS_Subset DEF ActiveSubs!LimitAssumption
<1> DEFINE T == {r \in S : request[r].moved # {}}
           f == [r \in T |-> <<r, request[r].topic>>]
<1>2. T \in SUBSET S
  OBVIOUS
<1>3. f \in [T -> ActiveSubs!Made]
  <2> SUFFICES ASSUME NEW r \in T PROVE <<r, request[r].topic>> \in ActiveSubs!Made
    OBVIOUS
  <2>1. request[r].moved = {request[r].topic} /\ request[r].topic \in SubTopics /\ r \in Requests
    BY DEF Sound
  <2> QED
    BY <2>1 DEF ActiveSubs!Made, ActiveSubs!Unreported
<1>4. ASSUME NEW y \in ActiveSubs!Made PROVE \E x \in T : f[x] = y
  <2>1. /\ y \in Requests \X SubTopics /\ request[y[1]].stage = "performed"
        /\ request[y[1]].kind = "subscribe" /\ y[2] \in request[y[1]].moved
    BY DEF ActiveSubs!Made, ActiveSubs!Unreported
  <2>2. y[1] \in T /\ y[2] = request[y[1]].topic
    BY <2>1 DEF Sound
  <2> QED
    BY <2>1, <2>2
<1>5. IsFiniteSet(T) /\ Cardinality(T) <= Cardinality(S) /\ Cardinality(ActiveSubs!Made) <= Cardinality(T)
  <2> HIDE DEF T, f
  <2>1. IsFiniteSet(T) /\ Cardinality(T) <= Cardinality(S)
    BY <1>1, <1>2, FS_Subset
  <2> QED
    BY <2>1, <1>3, <1>4, ImageCard
<1>6. Cardinality(S) \in Nat /\ Cardinality(T) \in Nat /\ Cardinality(ActiveSubs!Made) \in Nat
  <2> HIDE DEF T
  <2> QED
    BY <1>1, <1>5, FS_CardinalityType, SubsFinite DEF ActiveSubs!Made
<1> QED
  <2> HIDE DEF T
  <2> QED
    BY <1>1, <1>5, <1>6

---------------------------------------------------------------------------
(* The invariant holds initially. *)
LEMMA SubsInit == ASSUME ActiveSubs!LimitAssumption PROVE ActiveSubs!Init => SubsIInv
<1> SUFFICES ASSUME ActiveSubs!Init PROVE SubsIInv
  OBVIOUS
<1>1. \A r \in Requests : request[r] = ActiveSubs!Idle
  BY DEF ActiveSubs!Init
<1>2. ActiveSubs!Subscribed = {} /\ ActiveSubs!Made = {} /\ ActiveSubs!Removed = {} /\ AskedRequests = {}
  BY <1>1 DEF ActiveSubs!Init, ActiveSubs!Idle, ActiveSubs!Subscribed, ActiveSubs!Made,
              ActiveSubs!Removed, ActiveSubs!Unreported, AskedRequests
<1>3. ActiveSubs!Subscribed \union Asked = {}
  BY <1>2 DEF Asked
<1>4. Cardinality({}) = 0
  BY FS_EmptySet
<1>5. SubsTyped
  <2>1. ActiveSubs!Idle \in RequestTypes
    BY DEF RequestTypes, ActiveSubs!Idle, ActiveSubs!Kinds
  <2>2. request \in [Requests -> RequestTypes]
    BY <2>1 DEF ActiveSubs!Init
  <2>3. status \in [Conns -> {"new", "open", "closed"}]
    BY DEF ActiveSubs!Init
  <2>4. subs \in [Conns -> SUBSET SubTopics]
    BY DEF ActiveSubs!Init
  <2>5. s_count \in Int
    BY DEF ActiveSubs!Init
  <2>6. nan \in BOOLEAN /\ refused \in BOOLEAN
    BY DEF ActiveSubs!Init
  <2> QED
    BY <2>2, <2>3, <2>4, <2>5, <2>6 DEF SubsTyped
<1>6. Sound
  BY <1>1 DEF ActiveSubs!Init, Sound, ActiveSubs!Idle
<1>7. ActiveSubs!CountExact /\ ActiveSubs!CountCovers /\ ActiveSubs!RefusedOnlyAtLimit
  BY <1>2, <1>4 DEF ActiveSubs!Init, ActiveSubs!CountExact, ActiveSubs!CountCovers,
                    ActiveSubs!RefusedOnlyAtLimit
<1>8. Bounded
  <2>1. Cardinality(Requests) \in Nat /\ Cardinality(Requests) > 0 /\ MaxSubscriptions \in Nat
    BY SubsFinite DEF ActiveSubs!LimitAssumption
  <2>2. Cardinality(ActiveSubs!Subscribed \union Asked) = 0
    BY <1>3, <1>4
  <2> QED
    BY <2>1, <2>2 DEF Bounded
<1> QED
  BY <1>5, <1>6, <1>7, <1>8 DEF SubsIInv, Counted

(* Fewer subscriptions and requests for them stay within the bound. *)
LEMMA BoundedLess ==
  ASSUME ActiveSubs!LimitAssumption, Bounded,
         ActiveSubs!Subscribed' \union Asked' \subseteq ActiveSubs!Subscribed \union Asked
  PROVE  Bounded'
<1>1. IsFiniteSet(ActiveSubs!Subscribed \union Asked)
  BY SubsFinite, AskedCard, FS_Union
<1>2. /\ IsFiniteSet(ActiveSubs!Subscribed' \union Asked')
      /\ Cardinality(ActiveSubs!Subscribed' \union Asked') <= Cardinality(ActiveSubs!Subscribed \union Asked)
  BY <1>1, FS_Subset
<1>3. /\ Cardinality(ActiveSubs!Subscribed \union Asked) \in Nat
      /\ Cardinality(ActiveSubs!Subscribed' \union Asked') \in Nat
  BY <1>1, <1>2, FS_CardinalityType
<1> QED
  BY <1>2, <1>3, SubsFinite DEF Bounded, ActiveSubs!LimitAssumption

(* A request begins: what it may make is not made yet. *)
LEMMA AskStep ==
  ASSUME ActiveSubs!LimitAssumption, SubsIInv, NEW r \in Requests,
         NEW kind \in ActiveSubs!Kinds, NEW c \in Conns,
         NEW t \in SubTopics \union {nothing}, kind # "unsubscribe_all" => t \in SubTopics,
         kind = "subscribe" => nan \/ s_count < MaxSubscriptions \/ t \in subs[c],
         status[c] = "open", request[r] = ActiveSubs!Idle, ActiveSubs!Ask(r, kind, c, t),
         refused' = FALSE, UNCHANGED <<s_count, nan, status, subs>>
  PROVE  SubsIInv'
<1> USE DEF SubsIInv, Counted
<1>1. request' = [request EXCEPT ![r] = [stage |-> "asked", kind |-> kind,
                                         conn |-> c, topic |-> t, moved |-> {}]]
  BY DEF ActiveSubs!Ask
<1>2. /\ \A q \in Requests : q # r => request'[q] = request[q]
      /\ request'[r] = [stage |-> "asked", kind |-> kind,
                        conn |-> c, topic |-> t, moved |-> {}]
  BY <1>1 DEF SubsTyped
<1>3. SubsTyped'
  BY <1>1 DEF SubsTyped, RequestTypes
<1>4. Sound'
  BY <1>2 DEF Sound
<1>5. request[r].stage = "idle"
  BY DEF ActiveSubs!Idle
<1>6. ActiveSubs!Subscribed' = ActiveSubs!Subscribed /\ ActiveSubs!Made' = ActiveSubs!Made /\ ActiveSubs!Removed' = ActiveSubs!Removed
  <2>1. ActiveSubs!Subscribed' = ActiveSubs!Subscribed
    BY DEF ActiveSubs!Subscribed
  <2>2. \A q \in Requests :
          /\ request'[q].stage = "performed" <=> request[q].stage = "performed"
          /\ request[q].stage = "performed" => request'[q] = request[q]
    BY <1>2, <1>5
  <2>3. ASSUME NEW kinds PROVE ActiveSubs!Unreported(kinds)' = ActiveSubs!Unreported(kinds)
    <3>1. \A m \in Requests \X SubTopics : m[1] \in Requests
      OBVIOUS
    <3> QED
      BY <2>2, <3>1 DEF ActiveSubs!Unreported
  <2> QED
    BY <2>1, <2>3 DEF ActiveSubs!Made, ActiveSubs!Removed
<1>7. ~nan => ActiveSubs!CountExact' /\ ActiveSubs!CountCovers' /\ ActiveSubs!RefusedOnlyAtLimit'
  BY <1>6 DEF ActiveSubs!CountExact, ActiveSubs!CountCovers,
              ActiveSubs!RefusedOnlyAtLimit, ActiveSubs!NoneClosed
<1>8. AskedRequests' = IF kind = "subscribe" THEN AskedRequests \union {r} ELSE AskedRequests
  BY <1>2, <1>5 DEF AskedRequests
<1>9. r \notin AskedRequests
  BY <1>5 DEF AskedRequests
<1>10. Asked' = IF kind = "subscribe" THEN Asked \union {<<c, t>>} ELSE Asked
  <2>1. \A q \in AskedRequests : request'[q] = request[q]
    BY <1>2, <1>9 DEF AskedRequests
  <2>2. <<request'[r].conn, request'[r].topic>> = <<c, t>>
    BY <1>2
  <2> QED
    BY <1>8, <2>1, <2>2 DEF Asked
<1>11. ASSUME ~nan PROVE Bounded'
  <2> USE <1>11
  <2>1. CASE kind = "subscribe" /\ t \notin subs[c]
    <3> DEFINE S == {q \in Requests : /\ request[q].stage = "performed"
                                      /\ request[q].kind = "subscribe"}
    <3>1. /\ IsFiniteSet(S) /\ Cardinality(ActiveSubs!Made) <= Cardinality(S) /\ Cardinality(S) \in Nat
      <4> SUFFICES ASSUME NEW Q, Q = S
                   PROVE IsFiniteSet(Q) /\ Cardinality(ActiveSubs!Made) <= Cardinality(Q) /\ Cardinality(Q) \in Nat
        OBVIOUS
      <4> QED
        BY MadeCard
    <3>2. S \intersect AskedRequests = {} /\ S \union AskedRequests \in SUBSET (Requests \ {r})
      BY <1>5 DEF AskedRequests
    <3> HIDE DEF S
    <3>3. /\ IsFiniteSet(S \union AskedRequests)
          /\ Cardinality(S \union AskedRequests) = Cardinality(S) + Cardinality(AskedRequests)
      BY <3>1, <3>2, AskedCard, DisjointCard
    <3>4. IsFiniteSet(Requests \ {r}) /\ Cardinality(Requests \ {r}) = Cardinality(Requests) - 1
      BY FS_RemoveElement DEF ActiveSubs!LimitAssumption
    <3>5. Cardinality(S) + Cardinality(AskedRequests) <= Cardinality(Requests) - 1
      BY <3>2, <3>3, <3>4, FS_Subset
    <3>6. Cardinality(ActiveSubs!Subscribed) <= s_count + Cardinality(ActiveSubs!Made)
      BY SubsFinite DEF ActiveSubs!CountCovers, ActiveSubs!Removed, ActiveSubs!Made,
                        SubsTyped
    <3>7. Cardinality(ActiveSubs!Subscribed) + Cardinality(Asked) <= MaxSubscriptions + Cardinality(Requests) - 2
      <4>1. Cardinality(ActiveSubs!Made) \in Nat /\ Cardinality(ActiveSubs!Subscribed) \in Nat /\ Cardinality(Requests) \in Nat
        BY SubsFinite DEF ActiveSubs!Made
      <4>2. s_count <= MaxSubscriptions - 1 /\ s_count \in Int /\ MaxSubscriptions \in Nat
        BY <2>1 DEF SubsTyped, ActiveSubs!LimitAssumption
      <4> QED
        BY <3>1, <3>5, <3>6, <4>1, <4>2, AskedCard
    <3>8. /\ IsFiniteSet(ActiveSubs!Subscribed \union Asked)
          /\ Cardinality(ActiveSubs!Subscribed \union Asked) <= Cardinality(ActiveSubs!Subscribed) + Cardinality(Asked)
      BY SubsFinite, AskedCard, UnionCard
    <3>9. ActiveSubs!Subscribed' \union Asked' = (ActiveSubs!Subscribed \union Asked) \union {<<c, t>>}
      BY <1>6, <1>10, <2>1
    <3>10. Cardinality(ActiveSubs!Subscribed' \union Asked') <= Cardinality(ActiveSubs!Subscribed \union Asked) + 1
      <4>1. Cardinality(ActiveSubs!Subscribed \union Asked) \in Nat
        BY <3>8, FS_CardinalityType
      <4>2. Cardinality((ActiveSubs!Subscribed \union Asked) \union {<<c, t>>})
              \in {Cardinality(ActiveSubs!Subscribed \union Asked), Cardinality(ActiveSubs!Subscribed \union Asked) + 1}
        BY <3>8, FS_AddElement
      <4>3. Cardinality(ActiveSubs!Subscribed' \union Asked')
              = Cardinality((ActiveSubs!Subscribed \union Asked) \union {<<c, t>>})
        BY <3>9
      <4> QED
        BY <4>1, <4>2, <4>3
    <3>11. IsFiniteSet(ActiveSubs!Subscribed' \union Asked')
      BY <3>8, <3>9, FS_AddElement
    <3>12. /\ Cardinality(ActiveSubs!Subscribed \union Asked) \in Nat
           /\ Cardinality(ActiveSubs!Subscribed' \union Asked') \in Nat
           /\ Cardinality(ActiveSubs!Subscribed) + Cardinality(Asked) \in Nat
           /\ MaxSubscriptions \in Nat /\ Cardinality(Requests) \in Nat
      BY <3>8, <3>11, FS_CardinalityType, SubsFinite, AskedCard
         DEF ActiveSubs!LimitAssumption
    <3>13. Cardinality(ActiveSubs!Subscribed' \union Asked') <= MaxSubscriptions + Cardinality(Requests) - 1
      BY <3>7, <3>8, <3>10, <3>12
    <3> QED
      BY <3>13 DEF Bounded
  <2>2. CASE kind = "subscribe" /\ t \in subs[c]
    <3>1. <<c, t>> \in ActiveSubs!Subscribed
      BY <2>2 DEF ActiveSubs!Subscribed, SubsTyped
    <3> QED
      BY <1>6, <1>10, <2>2, <3>1, BoundedLess
  <2>3. CASE kind # "subscribe"
    BY <1>6, <1>10, <2>3, BoundedLess
  <2> QED
    BY <2>1, <2>2, <2>3
<1> QED
  BY <1>3, <1>4, <1>7, <1>11

(* What a request moved is counted as made or as removed, and leaves the   *)
(* rest of what is unreported as it was.                                   *)
LEMMA PerformedCard ==
  ASSUME ActiveSubs!LimitAssumption, SubsTyped, NEW r \in Requests,
         request[r].stage = "asked",
         NEW D \in SUBSET SubTopics,
         request' = [request EXCEPT ![r].stage = "performed", ![r].moved = D],
         NEW kinds
  PROVE  Cardinality(ActiveSubs!Unreported(kinds)')
           = Cardinality(ActiveSubs!Unreported(kinds))
               + IF request[r].kind \in kinds THEN Cardinality(D) ELSE 0
<1> DEFINE U == ActiveSubs!Unreported(kinds)
           more == IF request[r].kind \in kinds THEN D ELSE {}
<1>1. /\ \A q \in Requests : q # r => request'[q] = request[q]
      /\ request'[r].stage = "performed" /\ request'[r].moved = D
      /\ request'[r].kind = request[r].kind
  BY DEF SubsTyped, RequestTypes
<1>2. ASSUME NEW m \in Requests \X SubTopics
      PROVE  m \in U' <=> m \in U \/ m \in {r} \X more
  <2>1. CASE m[1] = r
    BY <1>1, <2>1 DEF ActiveSubs!Unreported
  <2>2. CASE m[1] # r
    BY <1>1, <2>2 DEF ActiveSubs!Unreported
  <2> QED
    BY <2>1, <2>2
<1>3. U' \subseteq Requests \X SubTopics /\ U \subseteq Requests \X SubTopics
      /\ {r} \X more \subseteq Requests \X SubTopics
  BY DEF ActiveSubs!Unreported
<1>4. U' = U \union ({r} \X more)
  <2> HIDE DEF U, more
  <2> QED
    BY <1>2, <1>3
<1>5. U \intersect ({r} \X more) = {}
  BY DEF ActiveSubs!Unreported
<1>6. IsFiniteSet(D) /\ IsFiniteSet(more) /\ Cardinality({}) = 0
  BY FS_Subset, FS_EmptySet DEF ActiveSubs!LimitAssumption
<1>7. IsFiniteSet(U) /\ Cardinality(U) \in Nat
  BY SubsFinite
<1>8. Cardinality(U \union ({r} \X more)) = Cardinality(U) + Cardinality(more)
  <2> HIDE DEF U, more
  <2>1. IsFiniteSet({r} \X more) /\ Cardinality({r} \X more) = Cardinality(more)
    BY <1>6, PairsCard
  <2> QED
    BY <2>1, <1>5, <1>7, DisjointCard
<1> QED
  BY <1>4, <1>6, <1>8

(* A request has its effect on the subscriptions of its connection: one    *)
(* more, or some less, and as many wait to be reported.                    *)
LEMMA PerformStep ==
  ASSUME ActiveSubs!LimitAssumption, SubsIInv, NEW r \in Requests, ActiveSubs!Perform(r)
  PROVE  SubsIInv'
<1> USE DEF SubsIInv, Counted
<1> DEFINE q == request[r]
           c == q.conn
           target == IF status[c] = "closed" THEN {} ELSE ActiveSubs!Target(q)
           D == (target \ subs[c]) \union (subs[c] \ target)
<1>1. /\ q \in RequestTypes /\ c \in Conns /\ status[c] # "new" /\ q.stage = "asked"
      /\ subs[c] \subseteq SubTopics /\ q.kind \in ActiveSubs!Kinds
      /\ q.kind # "unsubscribe_all" => q.topic \in SubTopics
  BY DEF ActiveSubs!Perform, SubsTyped, Sound, RequestTypes
<1>2. /\ subs' = [subs EXCEPT ![c] = target]
      /\ request' = [request EXCEPT ![r].stage = "performed", ![r].moved = D]
      /\ refused' = FALSE /\ s_count' = s_count /\ nan' = nan /\ status' = status
  BY DEF ActiveSubs!Perform
<1>3. /\ q.kind = "subscribe" => subs[c] \subseteq target /\ target \subseteq subs[c] \union {q.topic}
      /\ q.kind # "subscribe" => target \subseteq subs[c]
      /\ status[c] = "closed" => target = subs[c]
      /\ target \subseteq SubTopics
  BY <1>1 DEF ActiveSubs!Target, Sound, ActiveSubs!Kinds
<1>4. D \in SUBSET SubTopics /\ (q.kind = "subscribe" => D \subseteq {q.topic})
  BY <1>1, <1>3
<1>5. /\ subs'[c] = target /\ \A d \in Conns : d # c => subs'[d] = subs[d]
      /\ subs' \in [Conns -> SUBSET SubTopics]
  BY <1>1, <1>2, <1>3 DEF SubsTyped
<1> HIDE DEF target
<1>6. /\ \A p \in Requests : p # r => request'[p] = request[p]
      /\ request'[r] = [q EXCEPT !.stage = "performed", !.moved = D]
      /\ request'[r] \in RequestTypes /\ request' \in [Requests -> RequestTypes]
  <2> HIDE DEF D
  <2>1. request' = [request EXCEPT ![r] = [q EXCEPT !.stage = "performed", !.moved = D]]
    BY <1>2 DEF SubsTyped
  <2>2. [q EXCEPT !.stage = "performed", !.moved = D] \in RequestTypes
    BY <1>1, <1>4 DEF RequestTypes
  <2> QED
    BY <2>1, <2>2 DEF SubsTyped
<1>7. SubsTyped'
  BY <1>2, <1>5, <1>6 DEF SubsTyped
<1>8. Sound'
  <2>1. ASSUME NEW p \in Requests, request'[p].stage # "idle"
        PROVE  /\ request'[p].conn \in Conns /\ status'[request'[p].conn] # "new"
               /\ request'[p].kind # "unsubscribe_all" => request'[p].topic \in SubTopics
               /\ request'[p].kind = "subscribe"
                    => request'[p].moved \subseteq {request'[p].topic}
    <3> HIDE DEF D
    <3>1. CASE p = r
      BY <3>1, <1>1, <1>2, <1>4, <1>6 DEF RequestTypes
    <3>2. CASE p # r
      BY <2>1, <3>2, <1>2, <1>6 DEF Sound
    <3> QED
      BY <3>1, <3>2
  <2>2. ASSUME NEW d \in Conns, status'[d] # "open" PROVE subs'[d] = {}
    <3>1. CASE d = c
      BY <2>2, <3>1, <1>1, <1>2, <1>3, <1>5 DEF Sound, SubsTyped
    <3>2. CASE d # c
      BY <2>2, <3>2, <1>2, <1>5 DEF Sound
    <3> QED
      BY <3>1, <3>2
  <2>3. ~(nan' /\ refused')
    BY <1>2
  <2> QED
    BY <2>1, <2>2, <2>3 DEF Sound
<1>9. IsFiniteSet(D) /\ Cardinality(D) \in Nat
  BY <1>4, FS_Subset, FS_CardinalityType DEF ActiveSubs!LimitAssumption
<1>10. IsFiniteSet({c} \X D) /\ Cardinality({c} \X D) = Cardinality(D)
  BY <1>9, PairsCard
<1>11. /\ Cardinality(ActiveSubs!Made') = Cardinality(ActiveSubs!Made) + IF q.kind = "subscribe" THEN Cardinality(D) ELSE 0
       /\ Cardinality(ActiveSubs!Removed') = Cardinality(ActiveSubs!Removed) + IF q.kind = "subscribe" THEN 0 ELSE Cardinality(D)
  <2> HIDE DEF D
  <2>1. \A kinds : Cardinality(ActiveSubs!Unreported(kinds)')
          = Cardinality(ActiveSubs!Unreported(kinds)) + IF q.kind \in kinds THEN Cardinality(D) ELSE 0
    BY <1>1, <1>2, <1>4, PerformedCard
  <2> QED
    BY <2>1, <1>1 DEF ActiveSubs!Made, ActiveSubs!Removed, ActiveSubs!Kinds
<1>12. ASSUME NEW s \in Conns \X SubTopics
       PROVE  s \in ActiveSubs!Subscribed' <=>
                IF s \in {c} \X D THEN q.kind = "subscribe" ELSE s \in ActiveSubs!Subscribed
  <2>1. CASE s[1] # c
    BY <2>1, <1>5 DEF ActiveSubs!Subscribed
  <2>2. CASE s[1] = c
    BY <2>2, <1>3, <1>5 DEF ActiveSubs!Subscribed
  <2> QED
    BY <2>1, <2>2
<1>13. /\ ActiveSubs!Subscribed \subseteq Conns \X SubTopics /\ ActiveSubs!Subscribed' \subseteq Conns \X SubTopics
       /\ {c} \X D \subseteq Conns \X SubTopics
  BY <1>1, <1>4 DEF ActiveSubs!Subscribed
<1>14. IsFiniteSet(ActiveSubs!Subscribed) /\ Cardinality(ActiveSubs!Subscribed) \in Nat
  BY SubsFinite
<1>15. /\ q.kind = "subscribe" =>
            /\ ActiveSubs!Subscribed' = ActiveSubs!Subscribed \union ({c} \X D)
            /\ Cardinality(ActiveSubs!Subscribed') = Cardinality(ActiveSubs!Subscribed) + Cardinality(D)
       /\ q.kind # "subscribe" =>
            /\ ActiveSubs!Subscribed' = ActiveSubs!Subscribed \ ({c} \X D)
            /\ Cardinality(ActiveSubs!Subscribed') = Cardinality(ActiveSubs!Subscribed) - Cardinality(D)
  <2>1. CASE q.kind = "subscribe"
    <3>1. ActiveSubs!Subscribed \intersect ({c} \X D) = {}
      BY <1>3, <2>1 DEF ActiveSubs!Subscribed
    <3> HIDE DEF D
    <3>2. ActiveSubs!Subscribed' = ActiveSubs!Subscribed \union ({c} \X D)
      BY <1>12, <1>13, <2>1
    <3>3. Cardinality(ActiveSubs!Subscribed \union ({c} \X D))
            = Cardinality(ActiveSubs!Subscribed) + Cardinality({c} \X D)
      BY <3>1, <1>10, <1>14, DisjointCard
    <3> QED
      BY <2>1, <3>2, <3>3, <1>10
  <2>2. CASE q.kind # "subscribe"
    <3>0. D \subseteq subs[c]
      BY <1>3, <2>2
    <3> HIDE DEF D
    <3>1. {c} \X D \subseteq ActiveSubs!Subscribed
      BY <3>0, <1>1, <1>4 DEF ActiveSubs!Subscribed
    <3>2. ActiveSubs!Subscribed' = ActiveSubs!Subscribed \ ({c} \X D)
      BY <1>12, <1>13, <2>2
    <3> QED
      BY <2>2, <3>1, <3>2, <1>10, <1>14, WithoutCard
  <2> QED
    BY <2>1, <2>2
<1>16. Cardinality(ActiveSubs!Made) \in Nat /\ Cardinality(ActiveSubs!Removed) \in Nat /\ s_count \in Int
  BY SubsFinite DEF ActiveSubs!Made, ActiveSubs!Removed, SubsTyped
<1>17. ASSUME ~nan
       PROVE  ActiveSubs!CountExact' /\ ActiveSubs!CountCovers' /\ ActiveSubs!RefusedOnlyAtLimit'
  <2> USE <1>17
  <2> HIDE DEF D
  <2>1. ActiveSubs!CountCovers'
    BY <1>2, <1>9, <1>11, <1>14, <1>15, <1>16 DEF ActiveSubs!CountCovers
  <2>2. ActiveSubs!CountExact'
    BY <1>2, <1>9, <1>11, <1>14, <1>15, <1>16 DEF ActiveSubs!CountExact,
       ActiveSubs!NoneClosed
  <2> QED
    BY <2>1, <2>2, <1>2 DEF ActiveSubs!RefusedOnlyAtLimit
<1>18. ASSUME ~nan PROVE Bounded'
  <2> USE <1>18
  <2>1. AskedRequests' \subseteq AskedRequests
        /\ \A p \in AskedRequests' : request'[p] = request[p]
    <3> HIDE DEF D
    <3>1. request'[r].stage = "performed"
      BY <1>6, <1>1 DEF RequestTypes
    <3> QED
      BY <3>1, <1>6 DEF AskedRequests
  <2>2. Asked' \subseteq Asked
    BY <2>1 DEF Asked
  <2>3. q.kind = "subscribe" => {c} \X D \subseteq Asked
    <3>1. ASSUME q.kind = "subscribe" PROVE <<c, q.topic>> \in Asked
      BY <3>1, <1>1 DEF Asked, AskedRequests
    <3> HIDE DEF D
    <3>2. q.kind = "subscribe" => \A s \in {c} \X D : s = <<c, q.topic>>
      BY <1>4
    <3> QED
      BY <3>1, <3>2
  <2> HIDE DEF D, q
  <2>4. ActiveSubs!Subscribed' \union Asked' \subseteq ActiveSubs!Subscribed \union Asked
    BY <2>2, <2>3, <1>15
  <2> QED
    BY <2>4, BoundedLess
<1> QED
  BY <1>2, <1>7, <1>8, <1>17, <1>18

(* What a report no longer leaves unreported is what its request moved. *)
LEMMA ReportedCard ==
  ASSUME ActiveSubs!LimitAssumption, SubsTyped, NEW r \in Requests,
         request[r].stage = "performed",
         request' = [request EXCEPT ![r] = ActiveSubs!Idle], NEW kinds
  PROVE  Cardinality(ActiveSubs!Unreported(kinds)')
           = Cardinality(ActiveSubs!Unreported(kinds))
               - IF request[r].kind \in kinds THEN Cardinality(request[r].moved) ELSE 0
<1> DEFINE U == ActiveSubs!Unreported(kinds)
           less == IF request[r].kind \in kinds THEN request[r].moved ELSE {}
<1>1. /\ \A q \in Requests : q # r => request'[q] = request[q]
      /\ request'[r].stage = "idle" /\ request[r].moved \subseteq SubTopics
  BY DEF SubsTyped, RequestTypes, ActiveSubs!Idle
<1>2. ASSUME NEW m \in Requests \X SubTopics
      PROVE  m \in U' <=> m \in U /\ m \notin {r} \X less
  <2>1. CASE m[1] = r
    BY <1>1, <2>1 DEF ActiveSubs!Unreported
  <2>2. CASE m[1] # r
    BY <1>1, <2>2 DEF ActiveSubs!Unreported
  <2> QED
    BY <2>1, <2>2
<1>3. U' \subseteq Requests \X SubTopics /\ U \subseteq Requests \X SubTopics
  BY DEF ActiveSubs!Unreported
<1>4. U' = U \ ({r} \X less)
  <2> HIDE DEF U, less
  <2> QED
    BY <1>2, <1>3
<1>5. {r} \X less \subseteq U
  BY <1>1 DEF ActiveSubs!Unreported
<1>6. IsFiniteSet(less) /\ Cardinality({}) = 0
  BY <1>1, FS_Subset, FS_EmptySet DEF ActiveSubs!LimitAssumption
<1>7. IsFiniteSet(U) /\ Cardinality(U) \in Nat
  BY SubsFinite
<1>8. Cardinality(U \ ({r} \X less)) = Cardinality(U) - Cardinality(less)
  <2> HIDE DEF U, less
  <2>1. Cardinality({r} \X less) = Cardinality(less)
    BY <1>6, PairsCard
  <2>2. Cardinality(U \ ({r} \X less)) = Cardinality(U) - Cardinality({r} \X less)
    BY <1>5, <1>7, WithoutCard
  <2> QED
    BY <2>1, <2>2
<1> QED
  BY <1>4, <1>6, <1>8

(* A report moves the count by what is then no longer unreported. *)
LEMMA ReportStep ==
  ASSUME ActiveSubs!LimitAssumption, SubsIInv, NEW r \in Requests, ActiveSubs!Report(r)
  PROVE  SubsIInv'
<1> USE DEF SubsIInv, Counted
<1> DEFINE q == request[r]
           n == Cardinality(q.moved)
<1>1. /\ q.stage = "performed" /\ q.kind \in ActiveSubs!Kinds /\ q.moved \subseteq SubTopics
      /\ request' = [request EXCEPT ![r] = ActiveSubs!Idle]
      /\ refused' = FALSE /\ nan' = nan /\ status' = status /\ subs' = subs
      /\ s_count' = s_count + IF q.kind = "subscribe" THEN n ELSE -n
  BY DEF ActiveSubs!Report, ActiveSubs!Move, SubsTyped, RequestTypes
<1>2. n \in Nat
  BY <1>1, FS_Subset, FS_CardinalityType DEF ActiveSubs!LimitAssumption
<1>3. /\ \A p \in Requests : p # r => request'[p] = request[p]
      /\ request'[r] = ActiveSubs!Idle /\ ActiveSubs!Idle \in RequestTypes /\ ActiveSubs!Idle.stage = "idle"
      /\ request' \in [Requests -> RequestTypes]
  <2>1. ActiveSubs!Idle \in RequestTypes /\ ActiveSubs!Idle.stage = "idle"
    BY DEF RequestTypes, ActiveSubs!Idle, ActiveSubs!Kinds
  <2> QED
    BY <1>1, <2>1 DEF SubsTyped
<1>4. /\ Cardinality(ActiveSubs!Made') = Cardinality(ActiveSubs!Made) - IF q.kind = "subscribe" THEN n ELSE 0
      /\ Cardinality(ActiveSubs!Removed') = Cardinality(ActiveSubs!Removed) - IF q.kind = "subscribe" THEN 0 ELSE n
  <2>1. \A kinds : Cardinality(ActiveSubs!Unreported(kinds)')
          = Cardinality(ActiveSubs!Unreported(kinds)) - IF q.kind \in kinds THEN n ELSE 0
    BY <1>1, ReportedCard
  <2> QED
    BY <2>1, <1>1 DEF ActiveSubs!Made, ActiveSubs!Removed, ActiveSubs!Kinds
<1>5. ActiveSubs!Subscribed' = ActiveSubs!Subscribed
  BY <1>1 DEF ActiveSubs!Subscribed
<1>6. /\ Cardinality(ActiveSubs!Made) \in Nat /\ Cardinality(ActiveSubs!Removed) \in Nat /\ s_count \in Int
      /\ Cardinality(ActiveSubs!Subscribed) \in Nat
  BY SubsFinite DEF ActiveSubs!Made, ActiveSubs!Removed, SubsTyped
<1> HIDE DEF n
<1>7. SubsTyped'
  <2>1. s_count' \in Int
    BY <1>1, <1>2, <1>6
  <2> QED
    BY <2>1, <1>1, <1>3 DEF SubsTyped
<1>8. Sound'
  BY <1>1, <1>3 DEF Sound
<1>9. ASSUME ~nan
      PROVE  ActiveSubs!CountExact' /\ ActiveSubs!CountCovers' /\ ActiveSubs!RefusedOnlyAtLimit'
  <2> USE <1>9
  <2>1. ActiveSubs!CountCovers'
    BY <1>1, <1>2, <1>4, <1>5, <1>6 DEF ActiveSubs!CountCovers
  <2>2. ActiveSubs!CountExact'
    BY <1>1, <1>2, <1>4, <1>5, <1>6 DEF ActiveSubs!CountExact, ActiveSubs!NoneClosed
  <2> QED
    BY <2>1, <2>2, <1>1 DEF ActiveSubs!RefusedOnlyAtLimit
<1>10. ASSUME ~nan PROVE Bounded'
  <2> USE <1>10
  <2>1. AskedRequests' \subseteq AskedRequests
        /\ \A p \in AskedRequests' : request'[p] = request[p]
    BY <1>3 DEF AskedRequests
  <2>2. Asked' \subseteq Asked
    BY <2>1 DEF Asked
  <2> QED
    BY <2>2, <1>5, BoundedLess
<1> QED
  BY <1>1, <1>7, <1>8, <1>9, <1>10

(* A request that fails is under way no more, and the count is lost. *)
LEMMA FailStep ==
  ASSUME SubsIInv, NEW r \in Requests, ActiveSubs!Fail(r)
  PROVE  SubsIInv'
<1> USE DEF SubsIInv
<1>1. /\ request' = [request EXCEPT ![r] = ActiveSubs!Idle]
      /\ nan' = TRUE /\ refused' = FALSE
      /\ s_count' = s_count /\ status' = status /\ subs' = subs
  BY DEF ActiveSubs!Fail
<1>2. ActiveSubs!Idle \in RequestTypes /\ ActiveSubs!Idle.stage = "idle"
  BY DEF RequestTypes, ActiveSubs!Idle, ActiveSubs!Kinds
<1>3. SubsTyped'
  BY <1>1, <1>2 DEF SubsTyped
<1>4. Sound'
  BY <1>1, <1>2 DEF Sound, SubsTyped
<1> QED
  BY <1>1, <1>3, <1>4

(* A connection that opens or closes: its subscriptions go, if it had any, *)
(* and the count stays.                                                    *)
LEMMA ConnStep ==
  ASSUME ActiveSubs!LimitAssumption, ActiveSubs!NoPresubscriptions, SubsIInv,
         NEW c \in Conns,
         ActiveSubs!Connect(c) \/ ActiveSubs!ConnClosed(c)
  PROVE  SubsIInv'
<1> USE DEF SubsIInv, Counted
<1>1. PICK s \in {"open", "closed"} :
        /\ status' = [status EXCEPT ![c] = s]
        /\ status[c] = "new" \/ (status[c] = "open" /\ s = "closed")
  BY DEF ActiveSubs!Connect, ActiveSubs!ConnClosed
<1>2. /\ subs' = [subs EXCEPT ![c] = {}]
      /\ refused' = FALSE /\ s_count' = s_count /\ nan' = nan /\ request' = request
      /\ s = "open" => subs[c] = {}
  BY <1>1 DEF ActiveSubs!Connect, ActiveSubs!ConnClosed, ActiveSubs!NoPresubscriptions,
              Sound
<1>3. SubsTyped'
  BY <1>1, <1>2 DEF SubsTyped
<1>4. Sound'
  <2>1. \A d \in Conns : status'[d] = "new" => status[d] = "new"
    BY <1>1 DEF SubsTyped
  <2>2. \A d \in Conns : status'[d] # "open" => subs'[d] = {}
    BY <1>1, <1>2 DEF Sound, SubsTyped
  <2> QED
    BY <2>1, <2>2, <1>2 DEF Sound
<1>5. ActiveSubs!Subscribed' \subseteq ActiveSubs!Subscribed /\ (s = "open" => ActiveSubs!Subscribed' = ActiveSubs!Subscribed)
  BY <1>2 DEF ActiveSubs!Subscribed, SubsTyped
<1>6. ActiveSubs!Made' = ActiveSubs!Made /\ ActiveSubs!Removed' = ActiveSubs!Removed /\ Asked' = Asked
  BY <1>2 DEF ActiveSubs!Made, ActiveSubs!Removed, ActiveSubs!Unreported, Asked,
              AskedRequests
<1>7. /\ IsFiniteSet(ActiveSubs!Subscribed') /\ Cardinality(ActiveSubs!Subscribed') <= Cardinality(ActiveSubs!Subscribed)
      /\ Cardinality(ActiveSubs!Subscribed) \in Nat /\ Cardinality(ActiveSubs!Subscribed') \in Nat
      /\ Cardinality(ActiveSubs!Made) \in Nat /\ Cardinality(ActiveSubs!Removed) \in Nat /\ s_count \in Int
  <2>1. IsFiniteSet(ActiveSubs!Subscribed) /\ Cardinality(ActiveSubs!Subscribed) \in Nat
        /\ Cardinality(ActiveSubs!Made) \in Nat /\ Cardinality(ActiveSubs!Removed) \in Nat
    BY SubsFinite DEF ActiveSubs!Made, ActiveSubs!Removed
  <2>2. IsFiniteSet(ActiveSubs!Subscribed') /\ Cardinality(ActiveSubs!Subscribed') <= Cardinality(ActiveSubs!Subscribed)
    BY <2>1, <1>5, FS_Subset
  <2> QED
    BY <2>1, <2>2, FS_CardinalityType DEF SubsTyped
<1>8. ~nan => ActiveSubs!CountCovers'
  BY <1>2, <1>6, <1>7 DEF ActiveSubs!CountCovers
<1>9. ASSUME ~nan PROVE ActiveSubs!CountExact'
  <2>1. ActiveSubs!NoneClosed' => ActiveSubs!NoneClosed /\ s = "open"
    BY <1>1 DEF ActiveSubs!NoneClosed, SubsTyped
  <2> QED
    BY <2>1, <1>2, <1>5, <1>6, <1>9 DEF ActiveSubs!CountExact
<1>10. ~nan => ActiveSubs!RefusedOnlyAtLimit' /\ Bounded'
  BY <1>2, <1>5, <1>6, BoundedLess DEF ActiveSubs!RefusedOnlyAtLimit
<1> QED
  BY <1>2, <1>3, <1>4, <1>8, <1>9, <1>10

(* A subscription is refused while the count, and so what is subscribed    *)
(* or was until an unreported request, has reached the limit.              *)
LEMMA RefuseStep ==
  ASSUME ActiveSubs!LimitAssumption, SubsIInv, ~nan, s_count >= MaxSubscriptions, refused' = TRUE,
         UNCHANGED <<s_count, nan, status, subs, request>>
  PROVE  SubsIInv'
<1> USE DEF SubsIInv, Counted
<1>1. SubsTyped'
  BY DEF SubsTyped
<1>2. Sound'
  BY DEF Sound
<1>3. ActiveSubs!Subscribed' = ActiveSubs!Subscribed /\ ActiveSubs!Made' = ActiveSubs!Made /\ ActiveSubs!Removed' = ActiveSubs!Removed /\ Asked' = Asked
  BY DEF ActiveSubs!Subscribed, ActiveSubs!Made, ActiveSubs!Removed,
         ActiveSubs!Unreported, Asked, AskedRequests
<1>4. ActiveSubs!CountExact' /\ ActiveSubs!CountCovers' /\ Bounded'
  BY <1>3 DEF ActiveSubs!CountExact, ActiveSubs!CountCovers, Bounded, ActiveSubs!NoneClosed
<1>5. /\ Cardinality(ActiveSubs!Made) \in Nat /\ Cardinality(ActiveSubs!Removed) \in Nat /\ s_count \in Int
      /\ Cardinality(ActiveSubs!Subscribed) \in Nat /\ MaxSubscriptions \in Nat
  BY SubsFinite DEF ActiveSubs!Made, ActiveSubs!Removed, SubsTyped,
                    ActiveSubs!LimitAssumption
<1>6. ActiveSubs!RefusedOnlyAtLimit'
  BY <1>3, <1>5 DEF ActiveSubs!RefusedOnlyAtLimit, ActiveSubs!CountExact,
                    ActiveSubs!NoneClosed
<1> QED
  BY <1>1, <1>2, <1>4, <1>6

(* Every step preserves the invariant. *)
LEMMA SubsNext ==
  ASSUME ActiveSubs!LimitAssumption, ActiveSubs!NoPresubscriptions
  PROVE  SubsIInv /\ [ActiveSubs!Next]_ActiveSubs!vars => SubsIInv'
<1> SUFFICES ASSUME SubsIInv, [ActiveSubs!Next]_ActiveSubs!vars PROVE SubsIInv'
  OBVIOUS
<1>1. CASE UNCHANGED ActiveSubs!vars
  BY <1>1 DEF ActiveSubs!vars, SubsIInv, Counted, SubsTyped, Sound, ActiveSubs!CountExact,
              ActiveSubs!CountCovers, Bounded, ActiveSubs!NoneClosed,
       ActiveSubs!RefusedOnlyAtLimit, ActiveSubs!Subscribed, ActiveSubs!Made, ActiveSubs!Removed, ActiveSubs!Unreported, Asked, AskedRequests
<1>2. ASSUME NEW r \in Requests, NEW c \in Conns, NEW t \in SubTopics,
             ActiveSubs!Subscribe(r, c, t)
      PROVE  SubsIInv'
  <2>1. s_count \in Int /\ MaxSubscriptions \in Nat
    BY DEF SubsIInv, SubsTyped, ActiveSubs!LimitAssumption
  <2>2. CASE ActiveSubs!Refuses(c, t)
    BY <1>2, <2>2, RefuseStep DEF ActiveSubs!Subscribe, ActiveSubs!Refuses
  <2>3. CASE ~ActiveSubs!Refuses(c, t)
    <3>1. nan \/ s_count < MaxSubscriptions \/ t \in subs[c]
      BY <2>1, <2>3 DEF ActiveSubs!Refuses
    <3>2. refused' = FALSE /\ ActiveSubs!Ask(r, "subscribe", c, t)
      BY <1>2, <2>3 DEF ActiveSubs!Subscribe
    <3> QED
      BY <1>2, <3>1, <3>2, AskStep DEF ActiveSubs!Subscribe, ActiveSubs!Kinds
  <2> QED
    BY <2>2, <2>3
<1>3. ASSUME NEW r \in Requests, NEW c \in Conns, NEW t \in SubTopics,
             ActiveSubs!Unsubscribe(r, c, t)
      PROVE  SubsIInv'
  BY <1>3, AskStep DEF ActiveSubs!Unsubscribe, ActiveSubs!Kinds
<1>4. ASSUME NEW r \in Requests, NEW c \in Conns, ActiveSubs!UnsubscribeAll(r, c)
      PROVE  SubsIInv'
  BY <1>4, AskStep DEF ActiveSubs!UnsubscribeAll, ActiveSubs!Kinds
<1> QED
  BY <1>1, <1>2, <1>3, <1>4, ConnStep, PerformStep, ReportStep, FailStep DEF ActiveSubs!Next

(* The invariant holds throughout, where tokens subscribe to nothing. *)
LEMMA SubsInvariance ==
  ASSUME ActiveSubs!LimitAssumption
  PROVE  ActiveSubs!Spec => [](ActiveSubs!NoPresubscriptions => SubsIInv)
<1>1. ActiveSubs!Init => (ActiveSubs!NoPresubscriptions => SubsIInv)
  BY SubsInit
<1>2. /\ ActiveSubs!NoPresubscriptions => SubsIInv
      /\ [ActiveSubs!Next]_ActiveSubs!vars
      => (ActiveSubs!NoPresubscriptions => SubsIInv)'
  BY SubsNext DEF ActiveSubs!NoPresubscriptions
<1> QED
  BY <1>1, <1>2, PTL DEF ActiveSubs!Spec

(* Where tokens subscribe to nothing, no subscription escapes the count,   *)
(* it is exact while no connection has closed, and the limit is exceeded   *)
(* by less than the requests under way (limit_active_subscriptions), until *)
(* a request fails without a number.                                       *)
LEMMA SubscriptionsCorrect ==
  ASSUME ActiveSubs!LimitAssumption
  PROVE  ActiveSubs!Spec => []ActiveSubs!SubscriptionsCounted
<1>1. (ActiveSubs!NoPresubscriptions => SubsIInv) => ActiveSubs!SubscriptionsCounted
  <2> SUFFICES ASSUME SubsIInv
               PROVE  /\ ActiveSubs!TypeOK
                      /\ nan \/ (ActiveSubs!CountExact /\ ActiveSubs!CountCovers /\ ActiveSubs!ExcessBounded)
    BY DEF ActiveSubs!SubscriptionsCounted
  <2> USE DEF SubsIInv, Counted
  <2>1. ActiveSubs!TypeOK
    BY DEF SubsTyped, RequestTypes, ActiveSubs!TypeOK
  <2>2. ASSUME ~nan PROVE ActiveSubs!ExcessBounded
    <3>1. IsFiniteSet(ActiveSubs!Subscribed \union Asked)
      BY SubsFinite, AskedCard, FS_Union
    <3>2. /\ Cardinality(ActiveSubs!Subscribed) <= Cardinality(ActiveSubs!Subscribed \union Asked)
          /\ Cardinality(ActiveSubs!Subscribed \union Asked) \in Nat /\ Cardinality(ActiveSubs!Subscribed) \in Nat
          /\ Cardinality(Requests) \in Nat /\ MaxSubscriptions \in Nat
      BY <3>1, FS_Subset, FS_CardinalityType, SubsFinite DEF ActiveSubs!LimitAssumption
    <3> QED
      BY <2>2, <3>2 DEF Bounded, ActiveSubs!ExcessBounded
  <2> QED
    BY <2>1, <2>2
<1> QED
  BY <1>1, SubsInvariance, PTL

(* A subscription is refused only when as many as allowed are there, or    *)
(* were until an unsubscription that is not reported yet, unless some      *)
(* connection has closed.                                                  *)
LEMMA SubscriptionRefusals ==
  ASSUME ActiveSubs!LimitAssumption PROVE ActiveSubs!Spec => ActiveSubs!OnlyLimitRefuses
<1>1. (ActiveSubs!NoPresubscriptions => SubsIInv) => (ActiveSubs!NoPresubscriptions => ActiveSubs!RefusedOnlyAtLimit)
  BY DEF SubsIInv, Counted, Sound, ActiveSubs!RefusedOnlyAtLimit
<1> QED
  BY <1>1, SubsInvariance, PTL DEF ActiveSubs!OnlyLimitRefuses

HIDE ActiveSubsSets

---------------------------------------------------------------------------
(* The operators of FiniteSets that the module of this limit reads. *)
LEMMA ActiveConnsSets ==
  \A S : /\ ActiveConns!IsFiniteSet(S) <=> IsFiniteSet(S)
         /\ ActiveConns!Cardinality(S) = Cardinality(S)
BY DEF ActiveConns!IsFiniteSet, IsFiniteSet, ActiveConns!Cardinality, Cardinality

USE ActiveConnsSets

(* The count is the number of onclose listeners that have not been called, *)
(* and whatever is live has one.                                           *)
ConnectionsIInv ==
  /\ ActiveConns!TypeOK /\ ActiveConns!WithinLimit
  /\ c_count = Cardinality(watched)
  /\ ActiveConns!Live \subseteq watched
  /\ \A c \in watched : c_state[c] # "new"
  /\ socket \in [Callers -> Sockets]

(* With sockets of their own, the listeners are those of what is live. *)
Covered == ActiveConns!OwnSockets => watched = ActiveConns!Live

(* The invariant holds initially. *)
LEMMA ConnectionsInit ==
  ASSUME ActiveConns!ConnectionsAssumption
  PROVE  ActiveConns!Init => ConnectionsIInv
<1> SUFFICES ASSUME ActiveConns!Init PROVE ConnectionsIInv
  OBVIOUS
<1>1. {c \in Callers : c_state[c] = "open"} = {} /\ ActiveConns!Live = {}
  BY DEF ActiveConns!Init, ActiveConns!Live
<1>2. socket \in [Callers -> Sockets]
  BY DEF ActiveConns!Init, ActiveConns!ConnectionsAssumption
<1>3. ActiveConns!TypeOK /\ ActiveConns!WithinLimit
  BY <1>1, FS_EmptySet DEF ActiveConns!Init, ActiveConns!TypeOK, ActiveConns!WithinLimit,
                           ActiveConns!ConnectionsAssumption
<1> QED
  BY <1>1, <1>2, <1>3, FS_EmptySet DEF ActiveConns!Init, ConnectionsIInv

(* An authorization counts one listener more; what it lets in is within    *)
(* the limit because everything served is counted.                         *)
LEMMA AuthzStartStep ==
  ASSUME ActiveConns!ConnectionsAssumption, ConnectionsIInv, UNCHANGED socket,
         NEW c \in Callers, ActiveConns!AuthzStart(c)
  PROVE  ConnectionsIInv' /\ c_count' = Cardinality(watched')
<1> USE DEF ConnectionsIInv, ActiveConns!ConnectionsAssumption
<1>1. /\ c \notin watched /\ watched' = watched \union {c} /\ c_count' = c_count + 1
      /\ c_state' = [c_state EXCEPT ![c] = IF ActiveConns!Exceeds THEN "cancelled" ELSE "open"]
      /\ gone' = gone
  BY DEF ActiveConns!AuthzStart
<1>2. IsFiniteSet(watched) /\ IsFiniteSet(watched')
  BY <1>1, FS_Subset, FS_AddElement DEF ActiveConns!TypeOK
<1>3. c_count' = Cardinality(watched')
  BY <1>1, <1>2, FS_AddElement DEF ActiveConns!TypeOK
<1>4. ActiveConns!TypeOK'
  BY <1>1 DEF ActiveConns!TypeOK
<1>5. ActiveConns!Live' \subseteq watched' /\ \A d \in watched' : c_state'[d] # "new"
  BY <1>1 DEF ActiveConns!Live, ActiveConns!TypeOK
<1>6. ActiveConns!WithinLimit'
  <2> DEFINE served == {d \in Callers : c_state[d] = "open"}
  <2>1. CASE ActiveConns!Exceeds
    <3>1. served' = served
      BY <1>1, <2>1 DEF ActiveConns!TypeOK, ActiveConns!AuthzStart
    <3> QED
      BY <3>1 DEF ActiveConns!WithinLimit
  <2>2. CASE ~ActiveConns!Exceeds
    <3>1. served' \in SUBSET watched'
      BY <1>5 DEF ActiveConns!Live
    <3>2. Cardinality(served') <= Cardinality(watched') /\ IsFiniteSet(served')
      <4> HIDE DEF served
      <4> QED
        BY <3>1, <1>2, FS_Subset
    <3>3. c_count' <= MaxConnections
      BY <1>1, <2>2 DEF ActiveConns!Exceeds, ActiveConns!TypeOK
    <3> QED
      BY <3>2, <3>3, <1>2, <1>3, FS_CardinalityType DEF ActiveConns!WithinLimit
  <2> QED
    BY <2>1, <2>2
<1> QED
  BY <1>3, <1>4, <1>5, <1>6

(* The end of connections serves no more of them. *)
LEMMA FewerServed ==
  ASSUME ActiveConns!ConnectionsAssumption, ConnectionsIInv,
         \A c \in Callers : c_state'[c] = "open" => c_state[c] = "open"
  PROVE  ActiveConns!WithinLimit'
<1> DEFINE served == {c \in Callers : c_state[c] = "open"}
<1>1. served' \in SUBSET served /\ served \in SUBSET Callers
  OBVIOUS
<1>2. IsFiniteSet(served)
  <2> HIDE DEF served
  <2> QED
    BY <1>1, FS_Subset DEF ActiveConns!ConnectionsAssumption
<1>3. Cardinality(served') <= Cardinality(served) /\ IsFiniteSet(served')
  <2> HIDE DEF served
  <2> QED
    BY <1>1, <1>2, FS_Subset
<1>4. Cardinality(served) \in Nat /\ Cardinality(served') \in Nat
  BY <1>2, <1>3, FS_CardinalityType
<1> QED
  BY <1>3, <1>4 DEF ConnectionsIInv, ActiveConns!WithinLimit,
                    ActiveConns!ConnectionsAssumption

(* A request that ends leaves its listener. *)
LEMMA EndStep ==
  ASSUME ActiveConns!ConnectionsAssumption, ConnectionsIInv, UNCHANGED socket,
         NEW c \in Callers, ActiveConns!End(c)
  PROVE  ConnectionsIInv'
<1> USE DEF ConnectionsIInv
<1>1. ActiveConns!WithinLimit'
  BY FewerServed DEF ActiveConns!End, ActiveConns!TypeOK
<1>2. ActiveConns!TypeOK'
  BY DEF ActiveConns!End, ActiveConns!TypeOK
<1>3. c_count' = Cardinality(watched') /\ ActiveConns!Live' \subseteq watched'
  BY DEF ActiveConns!End, ActiveConns!Live, ActiveConns!TypeOK
<1>4. \A d \in watched' : c_state'[d] # "new"
  BY DEF ActiveConns!End, ActiveConns!TypeOK
<1> QED
  BY <1>1, <1>2, <1>3, <1>4

(* The close of a socket takes all its listeners out of the count, and all *)
(* that was live on it.                                                    *)
LEMMA OnCloseStep ==
  ASSUME ActiveConns!ConnectionsAssumption, ConnectionsIInv, UNCHANGED socket,
         NEW s \in Sockets, ActiveConns!OnClose(s)
  PROVE  ConnectionsIInv'
<1> USE DEF ConnectionsIInv, ActiveConns!ConnectionsAssumption
<1> DEFINE lost == {c \in watched : socket[c] = s}
<1>1. /\ gone' = gone \union {s} /\ c_count' = c_count - Cardinality(lost)
      /\ watched' = watched \ lost
      /\ c_state' = [c \in Callers |->
           IF c \in ActiveConns!Live /\ socket[c] = s THEN "ended" ELSE c_state[c]]
  BY DEF ActiveConns!OnClose
<1>2. lost \subseteq watched
  OBVIOUS
<1>3. IsFiniteSet(watched)
  BY FS_Subset DEF ActiveConns!TypeOK
<1>4. c_count' = Cardinality(watched') /\ c_count' \in Nat
  <2> HIDE DEF lost
  <2>1. watched \intersect lost = lost
    BY <1>2
  <2>2. IsFiniteSet(watched') /\ Cardinality(watched') = Cardinality(watched) - Cardinality(lost)
    BY <1>1, <1>3, <2>1, FS_Difference
  <2> QED
    BY <1>1, <2>2, FS_CardinalityType
<1>5. ActiveConns!WithinLimit'
  BY <1>1, FewerServed
<1>6. ActiveConns!TypeOK'
  BY <1>1, <1>4 DEF ActiveConns!TypeOK
<1>7. ActiveConns!Live' \subseteq watched'
  BY <1>1 DEF ActiveConns!Live, ActiveConns!TypeOK
<1>8. \A d \in watched' : c_state'[d] # "new"
  BY <1>1 DEF ActiveConns!TypeOK
<1> QED
  BY <1>4, <1>5, <1>6, <1>7, <1>8

(* Every step preserves the invariant. *)
LEMMA ConnectionsNext ==
  ASSUME ActiveConns!ConnectionsAssumption
  PROVE  ConnectionsIInv /\ [ActiveConns!Next]_ActiveConns!vars => ConnectionsIInv'
<1> SUFFICES ASSUME ConnectionsIInv, [ActiveConns!Next]_ActiveConns!vars
             PROVE ConnectionsIInv'
  OBVIOUS
<1>1. CASE UNCHANGED ActiveConns!vars
  BY <1>1 DEF ActiveConns!vars, ConnectionsIInv, ActiveConns!TypeOK,
              ActiveConns!WithinLimit, ActiveConns!Live
<1> QED
  BY <1>1, AuthzStartStep, EndStep, OnCloseStep DEF ActiveConns!Next

(* Without shared sockets no request ends before its listener is called.   *)
LEMMA ListenersLive ==
  ASSUME ActiveConns!ConnectionsAssumption
  PROVE  /\ ActiveConns!Init => Covered
         /\ ConnectionsIInv /\ Covered /\ [ActiveConns!Next]_ActiveConns!vars => Covered'
<1>1. ActiveConns!Init => Covered
  BY DEF ActiveConns!Init, ActiveConns!Live, Covered
<1> SUFFICES ASSUME ConnectionsIInv, Covered, [ActiveConns!Next]_ActiveConns!vars,
                    ActiveConns!OwnSockets' PROVE watched' = ActiveConns!Live'
  BY <1>1 DEF Covered
<1> USE DEF ConnectionsIInv, ActiveConns!TypeOK
<1>0. ActiveConns!OwnSockets /\ watched = ActiveConns!Live /\ UNCHANGED socket
  BY DEF ActiveConns!Next, ActiveConns!vars, ActiveConns!OwnSockets, Covered
<1>2. ASSUME NEW c \in Callers, ActiveConns!AuthzStart(c) PROVE watched' = ActiveConns!Live'
  BY <1>0, <1>2 DEF ActiveConns!AuthzStart, ActiveConns!Live
<1>3. ASSUME NEW c \in Callers, ActiveConns!End(c) PROVE FALSE
  <2>1. ActiveConns!Sharing(c) = {c}
    BY <1>0 DEF ActiveConns!Sharing, ActiveConns!OwnSockets
  <2>2. Cardinality({c}) = 1
    BY FS_Singleton
  <2> QED
    BY <1>3, <2>1, <2>2 DEF ActiveConns!End
<1>4. ASSUME NEW s \in Sockets, ActiveConns!OnClose(s) PROVE watched' = ActiveConns!Live'
  BY <1>0, <1>4 DEF ActiveConns!OnClose, ActiveConns!Live
<1>5. CASE UNCHANGED ActiveConns!vars
  BY <1>0, <1>5 DEF ActiveConns!vars, ActiveConns!Live
<1> QED
  BY <1>2, <1>3, <1>4, <1>5 DEF ActiveConns!Next

(* No more connections are served than the limit allows, nothing live      *)
(* escapes the count and nothing is left in it (limit_active_connections). *)
LEMMA ConnectionsCorrect ==
  ASSUME ActiveConns!ConnectionsAssumption
  PROVE  ActiveConns!Spec => []ActiveConns!ConnectionsCounted
<1>1. ConnectionsIInv => ActiveConns!ConnectionsCounted
  <2> SUFFICES ASSUME ConnectionsIInv PROVE ActiveConns!CountCovers
    BY DEF ConnectionsIInv, ActiveConns!ConnectionsCounted
  <2>1. IsFiniteSet(watched) /\ ActiveConns!Live \in SUBSET watched
    BY FS_Subset DEF ConnectionsIInv, ActiveConns!TypeOK, ActiveConns!ConnectionsAssumption
  <2>2. Cardinality(ActiveConns!Live) <= Cardinality(watched)
    BY <2>1, FS_Subset
  <2> QED
    BY <2>2, FS_EmptySet DEF ConnectionsIInv, ActiveConns!CountCovers
<1> QED
  BY <1>1, ConnectionsInit, ConnectionsNext, PTL DEF ActiveConns!Spec

(* With sockets of their own, a connection is cancelled only when more     *)
(* than the allowed number are live.                                       *)
LEMMA ConnectionRefusals ==
  ASSUME ActiveConns!ConnectionsAssumption
  PROVE  ActiveConns!Spec => ActiveConns!OnlyLimitRefuses
<1>1. ConnectionsIInv /\ Covered /\ [ActiveConns!Next]_ActiveConns!vars => [ActiveConns!CancelledAboveLimit]_ActiveConns!vars
  <2> SUFFICES ASSUME ConnectionsIInv, Covered, [ActiveConns!Next]_ActiveConns!vars,
                      ActiveConns!OwnSockets,
                      NEW c \in Callers, c_state[c] = "new", c_state'[c] = "cancelled"
               PROVE  Cardinality(ActiveConns!Live') > MaxConnections
    BY DEF ActiveConns!CancelledAboveLimit
  <2> USE DEF ConnectionsIInv, ActiveConns!TypeOK
  <2>0. UNCHANGED socket
    BY DEF ActiveConns!Next, ActiveConns!vars
  <2>1. PICK d \in Callers : ActiveConns!AuthzStart(d) \/ ActiveConns!End(d) \/ \E s \in Sockets : ActiveConns!OnClose(s)
    BY DEF ActiveConns!Next, ActiveConns!vars
  <2>2. ActiveConns!AuthzStart(d)
    BY <2>1 DEF ActiveConns!End, ActiveConns!OnClose
  <2>3. ActiveConns!Exceeds /\ c_count' = c_count + 1
    BY <2>2 DEF ActiveConns!AuthzStart
  <2>4. c_count' = Cardinality(watched')
    BY <2>0, <2>2, AuthzStartStep
  <2>5. watched' = ActiveConns!Live'
    BY <2>0, ListenersLive DEF Covered, ActiveConns!OwnSockets
  <2> QED
    BY <2>3, <2>4, <2>5 DEF ActiveConns!Exceeds, ActiveConns!ConnectionsAssumption
<1>2. ActiveConns!Init => ConnectionsIInv /\ Covered
  BY ConnectionsInit, ListenersLive
<1>3. ConnectionsIInv /\ Covered /\ [ActiveConns!Next]_ActiveConns!vars => ConnectionsIInv' /\ Covered'
  BY ConnectionsNext, ListenersLive
<1> QED
  BY <1>1, <1>2, <1>3, PTL DEF ActiveConns!Spec, ActiveConns!OnlyLimitRefuses

HIDE ActiveConnsSets

---------------------------------------------------------------------------
(* The operators of FiniteSets that the module of this limit reads. *)
LEMMA PerConnSets ==
  \A S : /\ PerConn!IsFiniteSet(S) <=> IsFiniteSet(S)
         /\ PerConn!Cardinality(S) = Cardinality(S)
BY DEF PerConn!IsFiniteSet, IsFiniteSet, PerConn!Cardinality, Cardinality

USE PerConnSets

Requested == {p \in Pubs : d_status[p] # "new"}
Taken == {p \in Pubs : d_status[p] \in {"passing", "failed", "done"}}

(* What passed was counted, and a publication failed only once more than   *)
(* the limit was counted.                                                  *)
PerConnIInv ==
  /\ PerConn!TypeOK /\ PerConn!DataWithinLimit /\ PerConn!MessagesWithinLimit
  /\ d_status \in [Pubs -> {"new", "passing", "refused", "failed", "done"}]
  /\ passed \in Nat /\ passed <= d_count
  /\ (\E p \in Pubs : d_status[p] = "failed") => d_count > MaxData

(* The publications of a connection are finitely many. *)
LEMMA RequestsFinite ==
  ASSUME PerConn!LimitConnAssumption
  PROVE  /\ IsFiniteSet(Requested) /\ IsFiniteSet(Taken)
         /\ Cardinality(Requested) \in Nat /\ Cardinality(Taken) \in Nat
         /\ Cardinality(Taken) <= Cardinality(Requested)
<1>1. Requested \in SUBSET Pubs /\ Taken \in SUBSET Requested
  BY DEF Requested, Taken
<1>2. IsFiniteSet(Requested)
  BY <1>1, FS_Subset DEF PerConn!LimitConnAssumption
<1>3. IsFiniteSet(Taken) /\ Cardinality(Taken) <= Cardinality(Requested)
  BY <1>1, <1>2, FS_Subset
<1> QED
  BY <1>2, <1>3, FS_CardinalityType

(* The invariant holds initially. *)
LEMMA PerConnInit == ASSUME PerConn!LimitConnAssumption PROVE PerConn!Init => PerConnIInv
<1> SUFFICES ASSUME PerConn!Init PROVE PerConnIInv
  OBVIOUS
<1>1. Requested = {} /\ Taken = {}
  BY DEF PerConn!Init, Requested, Taken
<1>2. Cardinality(Requested) = 0 /\ Cardinality(Taken) = 0
  BY <1>1, FS_EmptySet
<1>3. PerConn!TypeOK
  <2>1. ~\E p \in Pubs : d_status[p] \in {"refused", "failed"}
    BY DEF PerConn!Init
  <2>2. destroyed = (CloseConn /\ \E p \in Pubs : d_status[p] \in {"refused", "failed"})
    BY <2>1 DEF PerConn!Init
  <2>3. d_count \in 0..MaxReceived /\ messages = Cardinality(Requested)
    BY <1>2 DEF PerConn!Init, PerConn!LimitConnAssumption
  <2> QED
    BY <2>2, <2>3 DEF PerConn!TypeOK, Requested
<1>4. PerConn!DataWithinLimit /\ PerConn!MessagesWithinLimit
  BY <1>2 DEF PerConn!Init, PerConn!DataWithinLimit, PerConn!MessagesWithinLimit, Taken,
              PerConn!LimitConnAssumption
<1> QED
  BY <1>3, <1>4 DEF PerConn!Init, PerConnIInv

(* A request is one more message, and is taken within the limit only. *)
LEMMA RequestStep ==
  ASSUME PerConn!LimitConnAssumption, PerConnIInv, NEW p \in Pubs, PerConn!Request(p)
  PROVE  PerConnIInv'
<1> USE DEF PerConnIInv, PerConn!LimitConnAssumption
<1>1. PICK s \in {"refused", "passing"} :
        /\ d_status' = [d_status EXCEPT ![p] = s]
        /\ destroyed' = (destroyed \/ (CloseConn /\ s = "refused"))
        /\ s = "passing" => messages + 1 <= MaxMessages
  <2>1. messages \in Nat /\ destroyed \in BOOLEAN
    BY RequestsFinite DEF PerConn!TypeOK, Requested
  <2> QED
    BY <2>1 DEF PerConn!Request, PerConn!Refuse, PerConn!To, PerConn!TooMany
<1>2. /\ d_status[p] = "new" /\ messages' = messages + 1
      /\ d_count' = d_count /\ passed' = passed
  BY DEF PerConn!Request
<1>3. Requested' = Requested \union {p} /\ p \notin Requested
  BY <1>1, <1>2 DEF Requested
<1>4. Cardinality(Requested') = Cardinality(Requested) + 1
  BY <1>3, RequestsFinite, FS_AddElement
<1>5. messages' = Cardinality(Requested')
  BY <1>2, <1>4 DEF PerConn!TypeOK, Requested
<1>6. destroyed' = (CloseConn /\ \E q \in Pubs : d_status'[q] \in {"refused", "failed"})
  BY <1>1, <1>2 DEF PerConn!TypeOK
<1>7. PerConn!TypeOK'
  BY <1>2, <1>5, <1>6 DEF PerConn!TypeOK, Requested
<1>8. PerConn!MessagesWithinLimit'
  <2>1. CASE s = "refused"
    <3>1. Taken' = Taken
      BY <1>1, <1>2, <2>1 DEF Taken
    <3> QED
      BY <3>1 DEF PerConn!MessagesWithinLimit, Taken
  <2>2. CASE s = "passing"
    <3>1. Taken' = Taken \union {p} /\ p \notin Taken
      BY <1>1, <1>2, <2>2 DEF Taken
    <3>2. Cardinality(Taken') = Cardinality(Taken) + 1
      BY <3>1, RequestsFinite, FS_AddElement
    <3>3. Cardinality(Taken') <= MaxMessages
      BY <1>1, <2>2, <3>2, RequestsFinite DEF PerConn!TypeOK, Requested
    <3> QED
      BY <3>3 DEF PerConn!MessagesWithinLimit, Taken
  <2> QED
    BY <2>1, <2>2
<1>9. d_status' \in [Pubs -> {"new", "passing", "refused", "failed", "done"}]
  BY <1>1
<1>10. (\E q \in Pubs : d_status'[q] = "failed") => d_count' > MaxData
  BY <1>1, <1>2
<1> QED
  BY <1>2, <1>7, <1>8, <1>9, <1>10 DEF PerConn!DataWithinLimit

(* A publication that goes on or ends is counted as it was. *)
LEMMA SameMessages ==
  ASSUME PerConnIInv, NEW p \in Pubs, d_status[p] = "passing",
         NEW s \in {"passing", "failed", "done"}, d_status' = [d_status EXCEPT ![p] = s],
         messages' = messages, d_count' \in 0..MaxReceived,
         destroyed' = (destroyed \/ (CloseConn /\ s = "failed"))
  PROVE  PerConn!TypeOK' /\ PerConn!MessagesWithinLimit'
<1> USE DEF PerConnIInv
<1>1. Requested' = Requested /\ Taken' = Taken
  BY DEF Requested, Taken
<1>2. destroyed' = (CloseConn /\ \E q \in Pubs : d_status'[q] \in {"refused", "failed"})
  BY DEF PerConn!TypeOK
<1> QED
  BY <1>1, <1>2 DEF PerConn!TypeOK, PerConn!MessagesWithinLimit, Requested, Taken

(* A chunk is counted; it passes within the limit, or its publication fails. *)
LEMMA ChunkStep ==
  ASSUME PerConn!LimitConnAssumption, PerConnIInv, NEW p \in Pubs, PerConn!Chunk(p)
  PROVE  PerConnIInv'
<1> USE DEF PerConnIInv, PerConn!LimitConnAssumption
<1>1. PICK n \in 1..MaxChunk :
        /\ d_count + n <= MaxReceived /\ d_count' = d_count + n
        /\ \/ /\ d_count + n > MaxData /\ passed' = passed
              /\ d_status' = [d_status EXCEPT ![p] = "failed"]
              /\ destroyed' = (destroyed \/ CloseConn)
           \/ /\ d_count + n <= MaxData /\ passed' = passed + n
              /\ UNCHANGED <<d_status, destroyed>>
  BY DEF PerConn!Chunk, PerConn!Counted, PerConn!Refuse, PerConn!To
<1>2. d_status[p] = "passing" /\ messages' = messages
  BY DEF PerConn!Chunk
<1>3. n \in Nat /\ d_count \in Nat /\ d_count' \in 0..MaxReceived
  BY <1>1 DEF PerConn!TypeOK
<1>4. destroyed \in BOOLEAN
  BY DEF PerConn!TypeOK
<1>5. CASE /\ d_count + n > MaxData /\ passed' = passed
           /\ d_status' = [d_status EXCEPT ![p] = "failed"]
           /\ destroyed' = (destroyed \/ CloseConn)
  <2>1. PerConn!TypeOK' /\ PerConn!MessagesWithinLimit'
    BY <1>2, <1>3, <1>5, SameMessages
  <2>2. PerConn!DataWithinLimit' /\ passed' <= d_count' /\ d_count' > MaxData
    BY <1>1, <1>3, <1>5 DEF PerConn!DataWithinLimit
  <2> QED
    BY <2>1, <2>2, <1>5
<1>6. CASE /\ d_count + n <= MaxData /\ passed' = passed + n
           /\ UNCHANGED <<d_status, destroyed>>
  <2>1. d_status' = [d_status EXCEPT ![p] = "passing"]
    BY <1>2, <1>6
  <2>2. PerConn!TypeOK' /\ PerConn!MessagesWithinLimit'
    BY <1>2, <1>3, <1>4, <1>6, <2>1, SameMessages
  <2>3. PerConn!DataWithinLimit' /\ passed' <= d_count' /\ passed' \in Nat
    BY <1>1, <1>3, <1>6 DEF PerConn!DataWithinLimit
  <2>4. ~\E q \in Pubs : d_status[q] = "failed"
    BY <1>3, <1>6
  <2> QED
    BY <2>2, <2>3, <2>4, <1>6
<1> QED
  BY <1>1, <1>5, <1>6

(* A publication ends. *)
LEMMA EndsStep ==
  ASSUME PerConnIInv, NEW p \in Pubs, PerConn!End(p)
  PROVE  PerConnIInv'
<1> USE DEF PerConnIInv
<1>1. /\ d_status[p] = "passing" /\ d_status' = [d_status EXCEPT ![p] = "done"]
      /\ UNCHANGED <<messages, d_count, passed, destroyed>>
  BY DEF PerConn!End, PerConn!To
<1>2. destroyed \in BOOLEAN /\ d_count' \in 0..MaxReceived
  BY <1>1 DEF PerConn!TypeOK
<1>3. PerConn!TypeOK' /\ PerConn!MessagesWithinLimit'
  BY <1>1, <1>2, SameMessages
<1>4. (\E q \in Pubs : d_status'[q] = "failed") => \E q \in Pubs : d_status[q] = "failed"
  BY <1>1
<1> QED
  BY <1>1, <1>3, <1>4 DEF PerConn!DataWithinLimit

(* Every step preserves the invariant. *)
LEMMA PerConnNext ==
  ASSUME PerConn!LimitConnAssumption
  PROVE  PerConnIInv /\ [PerConn!Next]_PerConn!vars => PerConnIInv'
<1> SUFFICES ASSUME PerConnIInv, [PerConn!Next]_PerConn!vars PROVE PerConnIInv'
  OBVIOUS
<1>1. CASE UNCHANGED PerConn!vars
  BY <1>1 DEF PerConn!vars, PerConnIInv, PerConn!TypeOK, PerConn!DataWithinLimit,
              PerConn!MessagesWithinLimit
<1> QED
  BY <1>1, RequestStep, ChunkStep, EndsStep DEF PerConn!Next

(* The messages and the data that pass are within the limits, however the  *)
(* chunks of the publications are interleaved, and after the first that    *)
(* fails nothing passes any more (limit_conn.js).                          *)
LEMMA PublishedCorrect ==
  ASSUME PerConn!LimitConnAssumption PROVE PerConn!Spec => PerConn!PublishedWithinLimits
<1>1. PerConnIInv => PerConn!TypeOK /\ PerConn!DataWithinLimit /\ PerConn!MessagesWithinLimit
  BY DEF PerConnIInv
<1>2. PerConnIInv /\ [PerConn!Next]_PerConn!vars
        => [(\E p \in Pubs : d_status[p] = "failed") => passed' = passed]_PerConn!vars
  <2> SUFFICES ASSUME PerConnIInv, NEW p \in Pubs,
                      PerConn!Request(p) \/ PerConn!Chunk(p) \/ PerConn!End(p),
                      \E q \in Pubs : d_status[q] = "failed"
               PROVE  passed' = passed
    BY DEF PerConn!Next
  <2>1. d_count > MaxData /\ d_count \in Nat
    BY DEF PerConnIInv, PerConn!TypeOK
  <2>2. ASSUME NEW n \in 1..MaxChunk PROVE ~(d_count + n <= MaxData)
    BY <2>1 DEF PerConn!LimitConnAssumption
  <2> QED
    BY <2>2 DEF PerConn!Request, PerConn!Chunk, PerConn!End
<1> QED
  BY <1>1, <1>2, PerConnInit, PerConnNext, PTL
     DEF PerConn!Spec, PerConn!PublishedWithinLimits, PerConn!CutOffForGood

HIDE PerConnSets

---------------------------------------------------------------------------
(* A behaviour of all is one of each. *)
LEMMA EachLimit ==
  LimitsSpec => ActivePubs!Spec /\ ActiveSubs!Spec /\ ActiveConns!Spec /\ PerConn!Spec
<1>1. LimitsInit => ActivePubs!Init /\ ActiveSubs!Init /\ ActiveConns!Init /\ PerConn!Init
  BY DEF LimitsInit
<1>2. [LimitsNext]_limits_vars => [ActivePubs!Next]_ActivePubs!vars
  BY DEF LimitsNext, limits_vars, pubs_vars, ActivePubs!vars
<1>3. [LimitsNext]_limits_vars => [ActiveSubs!Next]_ActiveSubs!vars
  BY DEF LimitsNext, limits_vars, subs_vars, ActiveSubs!vars
<1>4. [LimitsNext]_limits_vars => [ActiveConns!Next]_ActiveConns!vars
  BY DEF LimitsNext, limits_vars, conns_vars, ActiveConns!vars
<1>5. [LimitsNext]_limits_vars => [PerConn!Next]_PerConn!vars
  BY DEF LimitsNext, limits_vars, conn_vars, PerConn!vars
<1> QED
  BY <1>1, <1>2, <1>3, <1>4, <1>5, PTL
     DEF LimitsSpec, ActivePubs!Spec, ActiveSubs!Spec, ActiveConns!Spec, PerConn!Spec

(* limit_active_publications: the count is that of the publications under  *)
(* way and within the limit, whatever calls the callbacks and however      *)
(* often.                                                                  *)
THEOREM PublicationsLimit == LimitsSpec => []PublicationsCounted
BY LimitsAssumption, EachLimit, PublicationsCorrect, PTL DEF PublicationsCounted

(* limit_active_subscriptions: where tokens subscribe to nothing, no       *)
(* subscription escapes the count, it is exact while no connection has     *)
(* closed, and the limit is exceeded by less than the requests under way,  *)
(* until a request fails without a number and the count is NaN.            *)
THEOREM SubscriptionsLimit == LimitsSpec => []SubscriptionsCounted
BY LimitsAssumption, EachLimit, SubscriptionsCorrect, PTL DEF SubscriptionsCounted

(* limit_active_connections: no more connections are served than the limit *)
(* allows, nothing live escapes the count and nothing is left in it,       *)
(* whatever sockets they share.                                            *)
THEOREM ConnectionsLimit == LimitsSpec => []ConnectionsCounted
BY LimitsAssumption, EachLimit, ConnectionsCorrect, PTL DEF ConnectionsCounted

(* What is refused is refused for the limit: a publication, a subscription *)
(* while no connection has closed, a connection with a socket of its own.  *)
THEOREM RefusalsAtLimit == LimitsSpec => OnlyLimitRefuses
BY LimitsAssumption, EachLimit, PublicationRefusals, SubscriptionRefusals,
   ConnectionRefusals, PTL DEF OnlyLimitRefuses

(* limit_conn: the messages and the data that pass are within the limits,  *)
(* however the chunks of the publications are interleaved, and after the   *)
(* first that fails nothing passes any more.                               *)
THEOREM PublishedLimit == LimitsSpec => PublishedWithinLimits
BY LimitsAssumption, EachLimit, PublishedCorrect, PTL DEF PublishedWithinLimits
=============================================================================
