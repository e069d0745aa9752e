------------------------- MODULE ConnectionsProofs -------------------------
(***************************************************************************)
(* Proofs about Connections, for any number of connections, URIs, tokens   *)
(* and revisions.  The invariant IInv is inductive (one lemma per action,  *)
(* NextStep); the safety properties follow from it.                        *)
(***************************************************************************)
EXTENDS Connections, TLAPS

USE ConnectionsAssumption DEF Revs, Changes, Phases

-----------------------------------------------------------------------------
(* Facts used by several steps                                             *)

\* A step that closes no stream and opens none.
Shrinks == /\ stream' \in [Conns -> {"open", "closing", "closed"}]
           /\ \A c \in Conns : stream'[c] = "open" => stream[c] = "open"
           /\ \A c \in Conns : stream'[c] = "closed" <=> stream[c] = "closed"

\* Calling dstroy destroys the streams it is called on and touches no other.
LEMMA DstroyedFacts ==
  ASSUME TypeOK, NEW S, stream' = Dstroyed(S)
  PROVE  Shrinks /\ \A c \in Conns : c \in S => stream'[c] # "open"
  BY DEF Dstroyed, TypeOK, Shrinks

\* A step that leaves the streams alone.
LEMMA UnchangedShrinks ==
  ASSUME TypeOK, UNCHANGED stream
  PROVE  Shrinks
  BY DEF TypeOK, Shrinks

\* A connection whose own state a step leaves alone keeps its phase facts.
LEMMA PhaseKept ==
  ASSUME NEW c \in Conns, PhaseFacts(c), Shrinks,
         pc'[c] = pc[c], tokens'[c] = tokens[c], handshakes'[c] = handshakes[c],
         idx'[c] = idx[c], timers'[c] = timers[c], c \in connids' <=> c \in connids
  PROVE  PhaseFacts(c)'
  BY DEF PhaseFacts, Shrinks

\* A step that leaves the handshakes and the keys alone.
LEMMA NotNewerKept ==
  ASSUME NotNewer, UNCHANGED <<handshakes, rev>>
  PROVE  NotNewer'
  BY DEF NotNewer, RevOf, UriOf

\* A step that leaves the index, hs_conns and the handshakes alone.
LEMMA IndexKept ==
  ASSUME IndexExact, UNCHANGED <<connids, connections, hs_conns, idx, handshakes>>
  PROVE  IndexExact'
  BY DEF IndexExact, UriOf

\* A step that closes no stream and adds no timer, conn or connid.
LEMMA NothingLeftKept ==
  ASSUME NothingLeftOfClosed, Shrinks, UNCHANGED <<connids, hs_conns, timers>>
  PROVE  NothingLeftOfClosed'
  BY DEF NothingLeftOfClosed, Shrinks

\* A step that leaves the keys, the index and the key reads alone, and
\* delivers no change.
LEMMA RevocationKept ==
  ASSUME TypeOK, RevocationNotMissed, Shrinks, changes \subseteq changes',
         UNCHANGED <<rev, connids, idx, got>>,
         \A c \in connids : handshakes'[c] = handshakes[c],
         \A c \in connids : pc[c] \in {"reading", "read"} => pc'[c] = pc[c]
  PROVE  RevocationNotMissed'
<1>1. \A c \in connids : \A k \in 1..idx[c] :
        RevOf(c, k)' = RevOf(c, k) /\ UriOf(c, k)' = UriOf(c, k)
  BY DEF RevOf, UriOf
<1>2. \A c \in connids : stream'[c] = "open" => stream[c] = "open"
  BY DEF Shrinks, TypeOK
<1>3. QED
  BY <1>1, <1>2 DEF RevocationNotMissed

\* A step that leaves the timers alone.
LEMMA ExpiryKept ==
  ASSUME TypeOK, ExpiryArmed, Shrinks, UNCHANGED <<connids, idx, handshakes, timers>>
  PROVE  ExpiryArmed'
  BY DEF ExpiryArmed, Shrinks, UriOf, TypeOK

\* A step that registers no connection after the sweep.
LEMMA SweptKept ==
  ASSUME TypeOK, SweptAllDestroyed, Shrinks, UNCHANGED <<swept, connids>>
  PROVE  SweptAllDestroyed'
  BY DEF SweptAllDestroyed, Shrinks, TypeOK

\* A step that leaves the authorizations alone.
LEMMA PendingKept ==
  ASSUME PendingExact, TypeOK, Shrinks, UNCHANGED pending,
         \A c \in Conns : pc[c] \in {"authz", "verify"} <=> pc'[c] \in {"authz", "verify"}
  PROVE  PendingExact'
  BY DEF PendingExact, Shrinks, TypeOK

\* A step that leaves the presence alone.
LEMMA OnlineKept ==
  ASSUME OnlineAreConnected, UNCHANGED <<online, connids, presence>>
  PROVE  OnlineAreConnected'
  BY DEF OnlineAreConnected

\* A step that leaves the close of the server and _connids alone.
LEMMA ClosedKept ==
  ASSUME ClosedMeansEmpty, CloseOrder, UNCHANGED closeVars, UNCHANGED connids
  PROVE  ClosedMeansEmpty' /\ CloseOrder'
  BY DEF ClosedMeansEmpty, CloseOrder, closeVars

\* What Append returns.
LEMMA AppendFacts ==
  ASSUME NEW S, NEW s \in Seq(S), NEW e \in S
  PROVE  /\ Append(s, e) \in Seq(S)
         /\ Len(Append(s, e)) = Len(s) + 1
         /\ \A k \in 1..Len(s) : Append(s, e)[k] = s[k]
         /\ Append(s, e)[Len(s) + 1] = e
  OBVIOUS

\* A server that is ready and has no connection satisfies the invariant.
LEMMA InitIInv == Init => IInv
<1> SUFFICES ASSUME Init PROVE IInv
  OBVIOUS
<1>1. TypeOK
  <2>1. handshakes \in [Conns -> Seq(Handshakes)]
    BY DEF Init
  <2>2. \A c \in Conns : Len(handshakes[c]) <= tokens[c] /\ idx[c] <= Len(handshakes[c])
    BY DEF Init
  <2>3. rev \in [Uris -> Revs] /\ tokens \in [Conns -> 0..MaxTokens]
    BY DEF Init
  <2>4. idx \in [Conns -> 0..MaxTokens] /\ got \in [Conns -> 0..MaxRev]
    BY DEF Init
  <2>5. /\ connections \in [Uris -> SUBSET (Conns \X (1..MaxTokens))]
        /\ hs_conns \in [Conns -> SUBSET (1..MaxTokens)]
        /\ timers \in [Conns -> SUBSET (1..MaxTokens)]
        /\ presence \in [Conns -> SUBSET Uris]
    BY DEF Init
  <2>6. pc \in [Conns -> Phases] /\ stream \in [Conns -> {"open", "closing", "closed"}]
    BY DEF Init
  <2>7. QED
    BY <2>1, <2>2, <2>3, <2>4, <2>5, <2>6 DEF Init, TypeOK
<1>2. \A c \in Conns : PhaseFacts(c)
  BY DEF Init, PhaseFacts
<1>3. NotNewer /\ CloseOrder
  BY DEF Init, NotNewer, CloseOrder
<1>4. IndexExact
  BY DEF Init, IndexExact
<1>5. QED
  BY <1>1, <1>2, <1>3, <1>4
     DEF Init, IInv, NothingLeftOfClosed, RevocationNotMissed, ExpiryArmed,
         SweptAllDestroyed, PendingExact, OnlineAreConnected, ClosedMeansEmpty

-----------------------------------------------------------------------------
(* One lemma per action                                                    *)

\* transport_authorize keeps the invariant.
LEMMA TransportAuthorizeStep ==
  ASSUME IInv, NEW c \in Conns, TransportAuthorize(c)
  PROVE  IInv'
<1> USE DEF TransportAuthorize, keyVars, regVars, authVars
<1>0. TypeOK /\ Shrinks
  BY UnchangedShrinks DEF IInv
<1>1. TypeOK'
  BY <1>0 DEF TypeOK, closeVars
<1>2. \A d \in Conns : PhaseFacts(d)'
  BY <1>0, PhaseKept DEF IInv, PhaseFacts, TypeOK
<1>3. NotNewer' /\ IndexExact' /\ NothingLeftOfClosed' /\ OnlineAreConnected'
  BY <1>0, NotNewerKept, IndexKept, NothingLeftKept, OnlineKept DEF IInv
<1>4. RevocationNotMissed' /\ ExpiryArmed'
  BY <1>0, RevocationKept, ExpiryKept DEF IInv, TypeOK
<1>5. SweptAllDestroyed' /\ ClosedMeansEmpty' /\ CloseOrder'
  BY <1>0, SweptKept, ClosedKept DEF IInv, closeVars
<1>6. PendingExact'
  BY <1>0 DEF IInv, PendingExact, TypeOK
<1>7. QED
  BY <1>1, <1>2, <1>3, <1>4, <1>5, <1>6 DEF IInv

\* A failed authorization keeps the invariant.
LEMMA RejectStep ==
  ASSUME IInv, NEW c \in Conns, pc[c] \in {"authz", "verify"}, Reject(c)
  PROVE  IInv'
<1> USE DEF Reject, Unpended, keyVars, regVars, authVars
<1>0. TypeOK /\ Shrinks
  BY DstroyedFacts DEF IInv
<1>1. TypeOK'
  BY <1>0 DEF TypeOK, closeVars, Shrinks
<1>2. \A d \in Conns : PhaseFacts(d)'
  BY <1>0, PhaseKept DEF IInv, PhaseFacts, TypeOK
<1>3. NotNewer' /\ IndexExact' /\ NothingLeftOfClosed' /\ OnlineAreConnected'
  BY <1>0, NotNewerKept, IndexKept, NothingLeftKept, OnlineKept DEF IInv
<1>4. RevocationNotMissed' /\ ExpiryArmed'
  BY <1>0, RevocationKept, ExpiryKept DEF IInv, TypeOK
<1>5. SweptAllDestroyed' /\ ClosedMeansEmpty' /\ CloseOrder'
  BY <1>0, SweptKept, ClosedKept DEF IInv, closeVars
<1>6. PendingExact'
  BY <1>0 DEF IInv, PendingExact, TypeOK, Shrinks
<1>7. QED
  BY <1>1, <1>2, <1>3, <1>4, <1>5, <1>6 DEF IInv

\* got_tokens keeps the invariant.
LEMMA GotTokensStep ==
  ASSUME IInv, NEW c \in Conns, NEW n \in 0..MaxTokens + 1, GotTokens(c, n)
  PROVE  IInv'
<1>1. CASE BadCount(n)
  BY <1>1, RejectStep DEF GotTokens
<1>2. CASE ~BadCount(n)
  <2> USE <1>2 DEF GotTokens, BadCount, keyVars, regVars
  <2>0. TypeOK /\ Shrinks
    BY UnchangedShrinks DEF IInv
  <2>a. n \in 1..MaxTokens /\ tokens[c] = 0 /\ c \notin connids /\ idx[c] = 0
    BY DEF IInv, PhaseFacts
  <2>1. TypeOK'
    <3>a. n \in 0..MaxTokens /\ n \in Nat
      BY <2>a
    <3>b. tokens \in [Conns -> 0..MaxTokens] /\ tokens' = [tokens EXCEPT ![c] = n]
      BY <2>0 DEF TypeOK
    <3>1. tokens' \in [Conns -> 0..MaxTokens]
      BY <3>a, <3>b
    <3>2. \A d \in Conns : Len(handshakes[d]) <= tokens'[d]
      <4>1. ASSUME NEW d \in Conns PROVE Len(handshakes[d]) \in Nat /\ Len(handshakes[d]) <= tokens[d]
        BY <2>0 DEF TypeOK
      <4>2. tokens'[c] = n /\ \A d \in Conns : d # c => tokens'[d] = tokens[d]
        BY <3>b
      <4>3. QED
        BY <2>a, <3>a, <4>1, <4>2
    <3>3. QED
      BY <2>0, <3>1, <3>2 DEF TypeOK, closeVars
  <2>2. \A d \in Conns : PhaseFacts(d)'
    <3>1. PhaseFacts(c)'
      BY <2>0, <2>a DEF IInv, PhaseFacts, TypeOK
    <3>2. ASSUME NEW d \in Conns, d # c PROVE PhaseFacts(d)'
      BY <2>0, <3>2, PhaseKept DEF IInv, TypeOK
    <3>3. QED
      BY <3>1, <3>2
  <2>3. NotNewer' /\ IndexExact' /\ NothingLeftOfClosed' /\ OnlineAreConnected'
    BY <2>0, NotNewerKept, IndexKept, NothingLeftKept, OnlineKept DEF IInv
  <2>4. RevocationNotMissed' /\ ExpiryArmed'
    BY <2>0, RevocationKept, ExpiryKept DEF IInv, TypeOK
  <2>5. SweptAllDestroyed' /\ ClosedMeansEmpty' /\ CloseOrder'
    BY <2>0, SweptKept, ClosedKept DEF IInv, closeVars
  <2>6. PendingExact'
    BY <2>0, PendingKept DEF IInv, TypeOK
  <2>7. QED
    BY <2>1, <2>2, <2>3, <2>4, <2>5, <2>6 DEF IInv
<1>3. QED
  BY <1>1, <1>2

\* The verification of a token keeps the invariant.
LEMMA VerifyTokenStep ==
  ASSUME IInv, NEW c \in Conns, NEW u \in Uris, VerifyToken(c, u)
  PROVE  IInv'
<1> USE DEF VerifyToken, keyVars, regVars
<1>0. TypeOK /\ Shrinks /\ PhaseFacts(c) /\ c \notin connids
  BY UnchangedShrinks DEF IInv, PhaseFacts
<1>a. PICK h \in Handshakes : h = [uri |-> u, rev |-> rev[u]]
  BY <1>0 DEF TypeOK, Handshakes
<1>b. handshakes[c] \in Seq(Handshakes)
  BY <1>0 DEF TypeOK
<1>c. /\ handshakes'[c] = Append(handshakes[c], h)
      /\ \A d \in Conns : d # c => handshakes'[d] = handshakes[d]
  BY <1>0, <1>a DEF TypeOK
<1>d. /\ handshakes'[c] \in Seq(Handshakes)
      /\ Len(handshakes'[c]) = Len(handshakes[c]) + 1
      /\ \A k \in 1..Len(handshakes[c]) : handshakes'[c][k] = handshakes[c][k]
      /\ handshakes'[c][Len(handshakes[c]) + 1] = h
  BY <1>a, <1>b, <1>c, AppendFacts
<1>e. handshakes' \in [Conns -> Seq(Handshakes)]
  BY <1>0, <1>c, <1>d DEF TypeOK
<1>1. TypeOK'
  <2>1. \A d \in Conns : Len(handshakes'[d]) <= tokens'[d] /\ idx'[d] <= Len(handshakes'[d])
    BY <1>0, <1>b, <1>c, <1>d DEF TypeOK
  <2>2. QED
    BY <1>0, <1>e, <2>1 DEF TypeOK, closeVars
<1>2. \A d \in Conns : PhaseFacts(d)'
  BY <1>0, <1>c, PhaseKept DEF IInv, PhaseFacts, TypeOK
<1>3. NotNewer'
  <2>1. \A k \in 1..Len(handshakes'[c]) : handshakes'[c][k].rev <= rev[handshakes'[c][k].uri]
    BY <1>0, <1>b, <1>d DEF IInv, NotNewer, RevOf, UriOf, TypeOK
  <2>2. QED
    BY <1>c, <2>1 DEF IInv, NotNewer, RevOf, UriOf
<1>4. IndexExact'
  BY <1>0, <1>c DEF IInv, IndexExact, UriOf
<1>5. NothingLeftOfClosed' /\ OnlineAreConnected'
  BY <1>0, NothingLeftKept, OnlineKept DEF IInv
<1>f. \A d \in connids : handshakes'[d] = handshakes[d]
  BY <1>0, <1>c DEF TypeOK
<1>6. RevocationNotMissed' /\ ExpiryArmed'
  <2>1. ExpiryArmed'
    BY <1>f DEF IInv, ExpiryArmed, UriOf
  <2>2. RevocationNotMissed'
    BY <1>0, <1>f, RevocationKept DEF IInv
  <2>3. QED
    BY <2>1, <2>2
<1>7. SweptAllDestroyed' /\ ClosedMeansEmpty' /\ CloseOrder'
  BY <1>0, SweptKept, ClosedKept DEF IInv, closeVars
<1>8. PendingExact'
  BY <1>0, PendingKept DEF IInv
<1>9. QED
  BY <1>1, <1>2, <1>3, <1>4, <1>5, <1>6, <1>7, <1>8 DEF IInv

\* The end of the authorization keeps the invariant.
LEMMA AuthzEndStep ==
  ASSUME IInv, NEW c \in Conns, AuthzEnd(c)
  PROVE  IInv'
<1>1. CASE DuplicateUri(c)
  BY <1>1, RejectStep DEF AuthzEnd
<1>2. CASE ~DuplicateUri(c)
  <2> USE <1>2 DEF AuthzEnd, Unpended, keyVars, regVars, authVars
  <2>0. TypeOK /\ Shrinks
    BY UnchangedShrinks DEF IInv
  <2>1. TypeOK'
    BY <2>0 DEF TypeOK, closeVars
  <2>2. \A d \in Conns : PhaseFacts(d)'
    BY <2>0, PhaseKept DEF IInv, PhaseFacts, TypeOK
  <2>3. NotNewer' /\ IndexExact' /\ NothingLeftOfClosed' /\ OnlineAreConnected'
    BY <2>0, NotNewerKept, IndexKept, NothingLeftKept, OnlineKept DEF IInv
  <2>4. RevocationNotMissed' /\ ExpiryArmed'
    BY <2>0, RevocationKept, ExpiryKept DEF IInv, TypeOK
  <2>5. SweptAllDestroyed' /\ ClosedMeansEmpty' /\ CloseOrder'
    BY <2>0, SweptKept, ClosedKept DEF IInv, closeVars
  <2>6. PendingExact'
    BY <2>0 DEF IInv, PendingExact, TypeOK
  <2>7. QED
    BY <2>1, <2>2, <2>3, <2>4, <2>5, <2>6 DEF IInv
<1>3. QED
  BY <1>1, <1>2

\* The URI and the revision of a verified handshake.
LEMMA HandshakeType ==
  ASSUME TypeOK, NEW c \in Conns, NEW k \in 1..Len(handshakes[c])
  PROVE  UriOf(c, k) \in Uris /\ RevOf(c, k) \in Revs
<1>1. handshakes[c] \in Seq(Handshakes)
  BY DEF TypeOK
<1>2. handshakes[c][k] \in Handshakes
  BY <1>1
<1>3. QED
  BY <1>2 DEF UriOf, RevOf, Handshakes

\* Processing the next handshake of a connection that has not closed, from
\* transport_connected (the first) or from got_pub_key (the others).
LEMMA ProcessHandshakeStep ==
  ASSUME IInv, NEW c \in Conns, NEW k \in 1..MaxTokens,
         k = idx[c] + 1, k <= Len(handshakes[c]),
         stream[c] # "closed", swept => stream[c] # "open", ~server_closed,
         \/ pc[c] = "authorized"
         \/ pc[c] = "read" /\ c \in connids /\ got[c] = RevOf(c, idx[c]),
         ProcessHandshake(c, k), connids' = connids \cup {c},
         got' = [got EXCEPT ![c] = 0] \/ UNCHANGED got,
         UNCHANGED <<keyVars, closeVars, pending, online, authVars, stream>>
  PROVE  IInv'
<1> USE DEF keyVars, authVars
<1>0. TypeOK /\ Shrinks /\ PhaseFacts(c)
  BY UnchangedShrinks DEF IInv
<1>a. PICK u \in Uris : u = UriOf(c, k)
  BY <1>0, HandshakeType
<1>b. /\ presence' = [presence EXCEPT ![c] = @ \cup ({u} \cap Presence)]
      /\ hs_conns' = [hs_conns EXCEPT ![c] = @ \cup {k}]
      /\ timers' = [timers EXCEPT ![c] = IF u \in Expiring THEN @ \cup {k} ELSE @]
      /\ connections' = [connections EXCEPT ![u] = @ \cup {<<c, k>>}]
      /\ idx' = [idx EXCEPT ![c] = k]
      /\ pc' = [pc EXCEPT ![c] = "reading"]
  BY <1>a DEF ProcessHandshake
<1>c. \A d \in Conns : \A j \in Nat : UriOf(d, j)' = UriOf(d, j) /\ RevOf(d, j)' = RevOf(d, j)
  BY DEF UriOf, RevOf
<1>d. /\ idx'[c] = k /\ pc'[c] = "reading"
      /\ \A d \in Conns : d # c => idx'[d] = idx[d] /\ pc'[d] = pc[d] /\ timers'[d] = timers[d]
                                   /\ hs_conns'[d] = hs_conns[d] /\ presence'[d] = presence[d]
                                   /\ got'[d] = got[d]
  BY <1>0, <1>b DEF TypeOK
<1>1. TypeOK'
  <2>1. presence' \in [Conns -> SUBSET Uris] /\ hs_conns' \in [Conns -> SUBSET (1..MaxTokens)]
    BY <1>0, <1>b DEF TypeOK
  <2>2. timers' \in [Conns -> SUBSET (1..MaxTokens)] /\ got' \in [Conns -> 0..MaxRev]
    BY <1>0, <1>b DEF TypeOK
  <2>3. connections' \in [Uris -> SUBSET (Conns \X (1..MaxTokens))]
    BY <1>0, <1>b DEF TypeOK
  <2>4. idx' \in [Conns -> 0..MaxTokens] /\ pc' \in [Conns -> Phases]
    BY <1>0, <1>b DEF TypeOK
  <2>5. \A d \in Conns : idx'[d] <= Len(handshakes[d])
    BY <1>0, <1>d DEF TypeOK
  <2>6. QED
    BY <1>0, <2>1, <2>2, <2>3, <2>4, <2>5 DEF TypeOK, closeVars
<1>2. \A d \in Conns : PhaseFacts(d)'
  <2>1. PhaseFacts(c)'
    BY <1>0, <1>d DEF PhaseFacts
  <2>2. ASSUME NEW d \in Conns, d # c PROVE PhaseFacts(d)'
    BY <1>0, <1>d, <2>2, PhaseKept DEF IInv
  <2>3. QED
    BY <2>1, <2>2
<1>3. NotNewer' /\ CloseOrder'
  BY NotNewerKept DEF IInv, CloseOrder, closeVars
<1>4. IndexExact'
  <2>1. ASSUME NEW v \in Uris
        PROVE  connections'[v] = {x \in Conns \X (1..MaxTokens) : /\ x[1] \in connids'
                                                                  /\ x[2] \in 1..idx'[x[1]]
                                                                  /\ UriOf(x[1], x[2])' = v}
    <3>1. connections[v] = {x \in Conns \X (1..MaxTokens) : /\ x[1] \in connids
                                                           /\ x[2] \in 1..idx[x[1]]
                                                           /\ UriOf(x[1], x[2]) = v}
      BY DEF IInv, IndexExact
    <3>2. connections'[v] = connections[v] \cup {x \in {<<c, k>>} : v = u}
      BY <1>0, <1>b DEF TypeOK
    <3>3. ASSUME NEW d \in Conns, NEW j \in 1..MaxTokens
          PROVE  <<d, j>> \in connections'[v] <=>
                   d \in connids' /\ j \in 1..idx'[d] /\ UriOf(d, j)' = v
      <4>1. <<d, j>> \in connections[v] <=> d \in connids /\ j \in 1..idx[d] /\ UriOf(d, j) = v
        BY <3>1
      <4>2. idx[c] \in Nat /\ (c \notin connids => idx[c] = 0)
        BY <1>0 DEF PhaseFacts, TypeOK
      <4>3. CASE d # c
        BY <1>c, <1>d, <3>2, <4>1, <4>3
      <4>4. CASE d = c /\ j = k
        BY <1>a, <1>c, <1>d, <3>2, <4>1, <4>2, <4>4
      <4>5. CASE d = c /\ j # k
        BY <1>c, <1>d, <3>2, <4>1, <4>2, <4>5
      <4>6. QED
        BY <4>3, <4>4, <4>5
    <3>4. connections'[v] \subseteq Conns \X (1..MaxTokens)
      BY <1>1 DEF TypeOK
    <3>5. QED
      BY <3>3, <3>4
  <2>2. \A d \in Conns : hs_conns'[d] = IF d \in connids' THEN 1..idx'[d] ELSE {}
    <3>1. hs_conns'[c] = 1..k
      <4>1. hs_conns[c] = 1..idx[c] /\ idx[c] \in Nat
        <5>1. idx[c] \in Nat /\ (c \notin connids => idx[c] = 0)
          BY <1>0 DEF PhaseFacts, TypeOK
        <5>2. hs_conns[c] = IF c \in connids THEN 1..idx[c] ELSE {}
          BY DEF IInv, IndexExact
        <5>3. QED
          BY <5>1, <5>2
      <4>2. QED
        BY <1>0, <1>b, <4>1 DEF TypeOK
    <3>2. QED
      BY <1>d, <3>1 DEF IInv, IndexExact
  <2>3. QED
    BY <2>1, <2>2 DEF IndexExact
<1>5. NothingLeftOfClosed'
  BY <1>d DEF IInv, NothingLeftOfClosed
<1>6. RevocationNotMissed'
  <2> SUFFICES ASSUME NEW d \in connids', NEW j \in 1..idx'[d], stream[d] = "open"
               PROVE  \/ RevOf(d, j) = rev[UriOf(d, j)]
                      \/ \E e \in changes : e.uri = UriOf(d, j) /\ e.rev # RevOf(d, j)
                      \/ j = idx'[d] /\ pc'[d] = "reading"
                      \/ j = idx'[d] /\ pc'[d] = "read" /\ got'[d] # RevOf(d, j)
    <3>1. \A d \in connids' : d \in Conns /\ \A j \in 1..idx'[d] : j \in Nat
      BY <1>0, <1>1 DEF TypeOK
    <3>2. \A d \in connids' : \A j \in 1..idx'[d] :
            UriOf(d, j)' = UriOf(d, j) /\ RevOf(d, j)' = RevOf(d, j)
      BY <1>c, <3>1
    <3>3. QED
      BY <3>2 DEF RevocationNotMissed
  <2>1. CASE d # c
    BY <1>0, <1>d, <2>1 DEF IInv, RevocationNotMissed, TypeOK
  <2>2. CASE d = c /\ j = k
    BY <1>d, <2>2
  <2>3. CASE d = c /\ j # k
    <3>1. j \in 1..idx[c] /\ c \in connids /\ pc[c] = "read" /\ got[c] = RevOf(c, idx[c])
      BY <1>0, <1>d, <2>3 DEF PhaseFacts, TypeOK
    <3>2. QED
      BY <2>3, <3>1 DEF IInv, RevocationNotMissed
  <2>4. QED
    BY <2>1, <2>2, <2>3
<1>7. ExpiryArmed'
  <2>a. \A d \in connids' : \A j \in 1..idx'[d] : UriOf(d, j)' = UriOf(d, j)
    <3>1. \A d \in connids' : d \in Conns /\ idx'[d] \in Nat
      BY <1>1 DEF TypeOK
    <3>2. QED
      BY <1>c, <3>1
  <2> SUFFICES ASSUME NEW d \in connids', NEW j \in 1..idx'[d], stream[d] = "open",
                      UriOf(d, j) \in Expiring
               PROVE  j \in timers'[d]
    BY <2>a DEF ExpiryArmed
  <2>1. CASE d # c
    BY <1>0, <1>d, <2>1 DEF IInv, ExpiryArmed, TypeOK
  <2>2. CASE d = c /\ j = k
    BY <1>0, <1>a, <1>b, <2>2 DEF TypeOK
  <2>3. CASE d = c /\ j # k
    <3>1. j \in 1..idx[c] /\ c \in connids
      BY <1>0, <1>d, <2>3 DEF PhaseFacts, TypeOK
    <3>2. j \in timers[c]
      BY <2>3, <3>1 DEF IInv, ExpiryArmed
    <3>3. QED
      BY <1>0, <1>b, <2>3, <3>2 DEF TypeOK
  <2>4. QED
    BY <2>1, <2>2, <2>3
<1>8. SweptAllDestroyed' /\ ClosedMeansEmpty'
  BY DEF IInv, SweptAllDestroyed, ClosedMeansEmpty, closeVars
<1>9. PendingExact'
  BY <1>0, <1>d DEF IInv, PendingExact, TypeOK
<1>10. OnlineAreConnected'
  <2>1. \A d \in Conns : presence[d] \subseteq presence'[d]
    BY <1>0, <1>b DEF TypeOK
  <2>2. QED
    BY <1>0, <2>1 DEF IInv, OnlineAreConnected, TypeOK
<1>11. QED
  BY <1>1, <1>2, <1>3, <1>4, <1>5, <1>6, <1>7, <1>8, <1>9, <1>10 DEF IInv

\* The connection stops and is perhaps destroyed: the cases of
\* transport_connected, got_pub_key and the client's handshake in which no
\* callback is left.
LEMMA StopStep ==
  ASSUME IInv, NEW c \in Conns, NEW p \in {"stopped", "serving"},
         pc[c] \in {"authorized", "read"}, p = "serving" => pc[c] = "read" /\ stream[c] # "closed",
         pc[c] = "read" /\ stream'[c] = "open" => got[c] = RevOf(c, idx[c]),
         pc' = [pc EXCEPT ![c] = p], Shrinks,
         got' = [got EXCEPT ![c] = 0] \/ UNCHANGED got,
         UNCHANGED <<keyVars, closeVars, pending, regVars, authVars, idx>>
  PROVE  IInv'
<1> USE DEF keyVars, regVars, authVars
<1>0. TypeOK /\ PhaseFacts(c)
  BY DEF IInv
<1>1. TypeOK'
  <2>1. got' \in [Conns -> 0..MaxRev]
    <3>1. got \in [Conns -> 0..MaxRev] /\ 0 \in 0..MaxRev
      BY <1>0 DEF TypeOK
    <3>2. CASE got' = [got EXCEPT ![c] = 0]
      BY <3>1, <3>2
    <3>3. CASE UNCHANGED got
      BY <3>1, <3>3
    <3>4. QED
      BY <3>2, <3>3
  <2>2. pc' \in [Conns -> Phases]
    BY <1>0 DEF TypeOK
  <2>3. QED
    BY <1>0, <2>1, <2>2 DEF TypeOK, closeVars, Shrinks
<1>2. \A d \in Conns : PhaseFacts(d)'
  <2>1. PhaseFacts(c)'
    BY <1>0 DEF PhaseFacts, TypeOK, Shrinks
  <2>2. ASSUME NEW d \in Conns, d # c PROVE PhaseFacts(d)'
    BY <1>0, <2>2, PhaseKept DEF IInv, TypeOK
  <2>3. QED
    BY <2>1, <2>2
<1>3. NotNewer' /\ IndexExact' /\ NothingLeftOfClosed' /\ OnlineAreConnected'
  BY NotNewerKept, IndexKept, NothingLeftKept, OnlineKept DEF IInv
<1>4. ExpiryArmed'
  BY <1>0, ExpiryKept DEF IInv
<1>5. RevocationNotMissed'
  <2>1. \A d \in connids : \A j \in 1..idx[d] : UriOf(d, j)' = UriOf(d, j) /\ RevOf(d, j)' = RevOf(d, j)
    BY DEF UriOf, RevOf
  <2>2. \A d \in connids : stream'[d] = "open" => stream[d] = "open"
    BY <1>0 DEF Shrinks, TypeOK
  <2> SUFFICES ASSUME NEW d \in connids, NEW j \in 1..idx[d], stream'[d] = "open"
               PROVE  \/ RevOf(d, j) = rev[UriOf(d, j)]
                      \/ \E e \in changes : e.uri = UriOf(d, j) /\ e.rev # RevOf(d, j)
                      \/ j = idx[d] /\ pc'[d] = "reading"
                      \/ j = idx[d] /\ pc'[d] = "read" /\ got'[d] # RevOf(d, j)
    BY <2>1 DEF RevocationNotMissed
  <2>3. CASE d # c
    <3>1. d \in Conns /\ pc'[d] = pc[d] /\ got'[d] = got[d]
      BY <1>0, <2>3 DEF TypeOK
    <3>2. QED
      BY <2>2, <3>1 DEF IInv, RevocationNotMissed
  <2>4. CASE d = c
    <3>1. pc[c] = "read" /\ got[c] = RevOf(c, idx[c])
      BY <1>0, <2>4 DEF PhaseFacts
    <3>2. QED
      BY <2>2, <2>4, <3>1 DEF IInv, RevocationNotMissed
  <2>5. QED
    BY <2>3, <2>4
<1>6. SweptAllDestroyed' /\ ClosedMeansEmpty' /\ CloseOrder'
  BY <1>0, SweptKept, ClosedKept DEF IInv, closeVars
<1>7. PendingExact'
  BY <1>0, PendingKept DEF IInv, TypeOK
<1>8. QED
  BY <1>1, <1>2, <1>3, <1>4, <1>5, <1>6, <1>7 DEF IInv

\* transport_connected keeps the invariant.
LEMMA TransportConnectedStep ==
  ASSUME IInv, NEW c \in Conns, TransportConnected(c)
  PROVE  IInv'
<1>0. TypeOK /\ PhaseFacts(c)
  BY DEF IInv
<1>1. CASE Refusing
  <2>1. Shrinks
    BY <1>0, <1>1, DstroyedFacts DEF TransportConnected
  <2>2. QED
    BY <1>1, <2>1, StopStep DEF TransportConnected, Stop, regVars
<1>2. CASE ~Refusing /\ IsClosed(c)
  <2>1. Shrinks
    BY <1>0, <1>2, UnchangedShrinks DEF TransportConnected
  <2>2. QED
    BY <1>2, <2>1, StopStep DEF TransportConnected, Stop, regVars
<1>3. CASE ~Refusing /\ ~IsClosed(c)
  <2>1. ~closing /\ ~swept /\ ~server_closed
    BY <1>3 DEF Refusing, IInv, CloseOrder, ClosedMeansEmpty
  <2>2. pc[c] = "authorized" /\ idx[c] = 0 /\ 1 <= Len(handshakes[c]) /\ 1 \in 1..MaxTokens
    BY <1>0 DEF TransportConnected, PhaseFacts, TypeOK
  <2>3. QED
    BY <1>3, <2>1, <2>2, ProcessHandshakeStep DEF TransportConnected, IsClosed
<1>4. QED
  BY <1>1, <1>2, <1>3

\* The read of a key keeps the invariant: it is the current key that is read.
LEMMA ReadPubKeyStep ==
  ASSUME IInv, NEW c \in Conns, ReadPubKey(c)
  PROVE  IInv'
<1> USE DEF ReadPubKey, keyVars, regVars, authVars
<1>0. TypeOK /\ Shrinks /\ PhaseFacts(c)
  BY UnchangedShrinks DEF IInv
<1>a. idx[c] \in 1..Len(handshakes[c])
  BY <1>0 DEF PhaseFacts, TypeOK
<1>b. rev[UriOf(c, idx[c])] \in Revs
  BY <1>0, <1>a, HandshakeType DEF TypeOK
<1>1. TypeOK'
  <2>1. got' \in [Conns -> 0..MaxRev]
    <3>1. got \in [Conns -> 0..MaxRev] /\ got' = [got EXCEPT ![c] = rev[UriOf(c, idx[c])]]
      BY <1>0 DEF TypeOK
    <3>2. rev[UriOf(c, idx[c])] \in 0..MaxRev
      BY <1>b
    <3>3. QED
      BY <3>1, <3>2
  <2>2. pc' \in [Conns -> Phases]
    BY <1>0 DEF TypeOK
  <2>3. QED
    BY <1>0, <2>1, <2>2 DEF TypeOK, closeVars
<1>2. \A d \in Conns : PhaseFacts(d)'
  <2>1. PhaseFacts(c)'
    BY <1>0 DEF PhaseFacts, TypeOK
  <2>2. ASSUME NEW d \in Conns, d # c PROVE PhaseFacts(d)'
    BY <1>0, <2>2, PhaseKept DEF IInv, TypeOK
  <2>3. QED
    BY <2>1, <2>2
<1>3. NotNewer' /\ IndexExact' /\ NothingLeftOfClosed' /\ OnlineAreConnected'
  BY <1>0, NotNewerKept, IndexKept, NothingLeftKept, OnlineKept DEF IInv
<1>4. ExpiryArmed'
  BY <1>0, ExpiryKept DEF IInv
<1>5. RevocationNotMissed'
  <2>1. \A d \in connids : \A j \in 1..idx[d] : UriOf(d, j)' = UriOf(d, j) /\ RevOf(d, j)' = RevOf(d, j)
    BY DEF UriOf, RevOf
  <2> SUFFICES ASSUME NEW d \in connids, NEW j \in 1..idx[d], stream[d] = "open"
               PROVE  \/ RevOf(d, j) = rev[UriOf(d, j)]
                      \/ \E e \in changes : e.uri = UriOf(d, j) /\ e.rev # RevOf(d, j)
                      \/ j = idx[d] /\ pc'[d] = "reading"
                      \/ j = idx[d] /\ pc'[d] = "read" /\ got'[d] # RevOf(d, j)
    BY <2>1 DEF RevocationNotMissed
  <2>2. CASE d # c
    <3>1. d \in Conns /\ pc'[d] = pc[d] /\ got'[d] = got[d]
      BY <1>0, <2>2 DEF TypeOK
    <3>2. QED
      BY <3>1 DEF IInv, RevocationNotMissed
  <2>3. CASE d = c /\ j # idx[c]
    BY <2>3 DEF IInv, RevocationNotMissed
  <2>4. CASE d = c /\ j = idx[c]
    <3>1. pc'[c] = "read" /\ got'[c] = rev[UriOf(c, idx[c])]
      BY <1>0 DEF TypeOK
    <3>2. QED
      BY <2>4, <3>1
  <2>5. QED
    BY <2>2, <2>3, <2>4
<1>6. SweptAllDestroyed' /\ ClosedMeansEmpty' /\ CloseOrder'
  BY <1>0, SweptKept, ClosedKept DEF IInv, closeVars
<1>7. PendingExact'
  BY <1>0, PendingKept DEF IInv, TypeOK
<1>8. QED
  BY <1>1, <1>2, <1>3, <1>4, <1>5, <1>6, <1>7 DEF IInv

\* got_pub_key keeps the invariant, with one case per outcome.
LEMMA GotPubKeyStep ==
  ASSUME IInv, NEW c \in Conns, NEW err \in BOOLEAN, GotPubKey(c, err)
  PROVE  IInv'
<1>0. TypeOK /\ PhaseFacts(c) /\ pc[c] = "read"
  BY DEF IInv, GotPubKey
<1>1. CASE err \/ ~RevisionUnchanged(c)
  <2>1. Shrinks /\ stream'[c] # "open"
    BY <1>0, <1>1, DstroyedFacts DEF GotPubKey
  <2>2. QED
    BY <1>0, <1>1, <2>1, StopStep DEF GotPubKey, Stop, regVars
<1>2. CASE ~err /\ RevisionUnchanged(c) /\ IsClosed(c)
  <2>1. Shrinks
    BY <1>0, <1>2, UnchangedShrinks DEF GotPubKey
  <2>2. QED
    BY <1>0, <1>2, <2>1, StopStep DEF GotPubKey, Stop, regVars, RevisionUnchanged
<1>3. CASE ~err /\ RevisionUnchanged(c) /\ ~IsClosed(c) /\ idx[c] < Len(handshakes[c])
  <2>1. c \in connids /\ connids \cup {c} = connids
    BY <1>0, <1>3 DEF PhaseFacts, IsClosed
  <2>2. ~server_closed /\ (swept => stream[c] # "open")
    BY <2>1 DEF IInv, ClosedMeansEmpty, SweptAllDestroyed
  <2>3. idx[c] + 1 \in 1..MaxTokens /\ idx[c] + 1 <= Len(handshakes[c])
    BY <1>0, <1>3 DEF TypeOK
  <2>4. /\ ProcessHandshake(c, idx[c] + 1)
        /\ got' = [got EXCEPT ![c] = 0]
        /\ connids' = connids \cup {c}
        /\ UNCHANGED <<keyVars, closeVars, pending, online, authVars, stream>>
    BY <1>3, <2>1 DEF GotPubKey
  <2>5. QED
    BY <1>0, <1>3, <2>1, <2>2, <2>3, <2>4, ProcessHandshakeStep DEF IsClosed, RevisionUnchanged
<1>4. CASE ~err /\ RevisionUnchanged(c) /\ ~IsClosed(c) /\ ~(idx[c] < Len(handshakes[c]))
  <2>1. Shrinks
    BY <1>0, <1>4, UnchangedShrinks DEF GotPubKey
  <2>2. QED
    BY <1>0, <1>4, <2>1, StopStep DEF GotPubKey, regVars, RevisionUnchanged, IsClosed
<1>5. QED
  BY <1>1, <1>2, <1>3, <1>4

\* The client's handshake keeps the invariant.
LEMMA ClientHandshakeStep ==
  ASSUME IInv, NEW c \in Conns, NEW ok \in BOOLEAN, ClientHandshake(c, ok)
  PROVE  IInv'
<1> USE DEF ClientHandshake, keyVars, authVars
<1>0. TypeOK /\ PhaseFacts(c) /\ pc[c] = "serving" /\ c \in connids
  BY DEF IInv, PhaseFacts
<1>a. Shrinks
  BY <1>0, DstroyedFacts, UnchangedShrinks
<1>1. TypeOK'
  <2>1. pc' \in [Conns -> Phases]
    BY <1>0 DEF TypeOK
  <2>2. online' \subseteq Conns \X Uris
    <3>1. {c} \X presence[c] \subseteq Conns \X Uris
      BY <1>0 DEF TypeOK
    <3>2. online \subseteq Conns \X Uris
      BY <1>0 DEF TypeOK
    <3>3. online' = online \/ online' = online \cup ({c} \X presence[c])
      OBVIOUS
    <3>4. QED
      BY <3>1, <3>2, <3>3
  <2>3. QED
    BY <1>0, <1>a, <2>1, <2>2 DEF TypeOK, closeVars, Shrinks
<1>2. \A d \in Conns : PhaseFacts(d)'
  <2>1. PhaseFacts(c)'
    BY <1>0, <1>a DEF PhaseFacts, TypeOK, Shrinks
  <2>2. ASSUME NEW d \in Conns, d # c PROVE PhaseFacts(d)'
    BY <1>0, <1>a, <2>2, PhaseKept DEF IInv, TypeOK
  <2>3. QED
    BY <2>1, <2>2
<1>3. NotNewer' /\ IndexExact' /\ NothingLeftOfClosed'
  BY <1>a, NotNewerKept, IndexKept, NothingLeftKept DEF IInv
<1>4. RevocationNotMissed' /\ ExpiryArmed'
  BY <1>0, <1>a, RevocationKept, ExpiryKept DEF IInv, TypeOK
<1>5. SweptAllDestroyed' /\ ClosedMeansEmpty' /\ CloseOrder'
  BY <1>0, <1>a, SweptKept, ClosedKept DEF IInv, closeVars
<1>6. PendingExact'
  BY <1>0, <1>a, PendingKept DEF IInv, TypeOK
<1>7. OnlineAreConnected'
  BY <1>0 DEF IInv, OnlineAreConnected
<1>8. QED
  BY <1>1, <1>2, <1>3, <1>4, <1>5, <1>6, <1>7 DEF IInv

\* An expiry keeps the invariant: its timer is gone, and so is the stream.
LEMMA ExpireStep ==
  ASSUME IInv, NEW c \in Conns, NEW k \in timers[c], Expire(c, k)
  PROVE  IInv'
<1> USE DEF Expire, keyVars, authVars
<1>0. TypeOK /\ PhaseFacts(c) /\ c \in connids
  BY DEF IInv, PhaseFacts
<1>a. Shrinks /\ stream'[c] # "open"
  BY <1>0, DstroyedFacts
<1>b. /\ timers' = [timers EXCEPT ![c] = @ \ {k}]
      /\ \A d \in Conns : d # c => timers'[d] = timers[d]
  BY <1>0 DEF TypeOK
<1>1. TypeOK'
  BY <1>0, <1>a DEF TypeOK, closeVars, Shrinks
<1>2. \A d \in Conns : PhaseFacts(d)'
  <2>1. PhaseFacts(c)'
    BY <1>0, <1>a DEF PhaseFacts, Shrinks
  <2>2. ASSUME NEW d \in Conns, d # c PROVE PhaseFacts(d)'
    BY <1>a, <1>b, <2>2, PhaseKept DEF IInv
  <2>3. QED
    BY <2>1, <2>2
<1>3. NotNewer' /\ IndexExact' /\ OnlineAreConnected'
  BY NotNewerKept, IndexKept, OnlineKept DEF IInv
<1>4. NothingLeftOfClosed'
  BY <1>0, <1>a, <1>b DEF IInv, NothingLeftOfClosed, PhaseFacts, Shrinks
<1>5. RevocationNotMissed'
  BY <1>0, <1>a, RevocationKept DEF IInv
<1>6. ExpiryArmed'
  <2>1. \A d \in connids : \A j \in 1..idx[d] : UriOf(d, j)' = UriOf(d, j)
    BY DEF UriOf
  <2>2. \A d \in connids : stream'[d] = "open" => d # c /\ stream[d] = "open" /\ timers'[d] = timers[d]
    BY <1>0, <1>a, <1>b DEF Shrinks, TypeOK
  <2>3. QED
    BY <2>1, <2>2 DEF IInv, ExpiryArmed
<1>7. SweptAllDestroyed' /\ ClosedMeansEmpty' /\ CloseOrder'
  BY <1>0, <1>a, SweptKept, ClosedKept DEF IInv, closeVars
<1>8. PendingExact'
  BY <1>0, <1>a, PendingKept DEF IInv
<1>9. QED
  BY <1>1, <1>2, <1>3, <1>4, <1>5, <1>6, <1>7, <1>8 DEF IInv

\* A new key keeps the invariant: its change event is still to come.
LEMMA AddPubKeyStep ==
  ASSUME IInv, NEW u \in Uris, AddPubKey(u)
  PROVE  IInv'
<1> USE DEF AddPubKey, regVars, authVars
<1>0. TypeOK /\ Shrinks
  BY UnchangedShrinks DEF IInv
<1>a. /\ rev[u] \in Nat /\ rev[u] + 1 \in Revs
      /\ rev'[u] = rev[u] + 1
      /\ \A v \in Uris : v # u => rev'[v] = rev[v]
  BY <1>0 DEF TypeOK
<1>b. \A d \in Conns : \A j \in 1..Len(handshakes[d]) : UriOf(d, j) \in Uris /\ RevOf(d, j) \in Nat
  BY <1>0, HandshakeType
<1>c. \A d \in Conns : \A j \in Nat : UriOf(d, j)' = UriOf(d, j) /\ RevOf(d, j)' = RevOf(d, j)
  BY DEF UriOf, RevOf
<1>1. TypeOK'
  <2>1. rev' \in [Uris -> Revs] /\ changes' \subseteq Changes
    BY <1>0, <1>a DEF TypeOK
  <2>2. QED
    BY <1>0, <2>1 DEF TypeOK, closeVars
<1>2. \A d \in Conns : PhaseFacts(d)'
  BY <1>0, PhaseKept DEF IInv
<1>3. NotNewer'
  <2>1. ASSUME NEW d \in Conns, NEW j \in 1..Len(handshakes[d])
        PROVE  RevOf(d, j) <= rev'[UriOf(d, j)]
    <3>1. RevOf(d, j) <= rev[UriOf(d, j)] /\ UriOf(d, j) \in Uris /\ RevOf(d, j) \in Nat
      BY <1>b DEF IInv, NotNewer
    <3>2. CASE UriOf(d, j) = u
      BY <1>a, <3>1, <3>2
    <3>3. CASE UriOf(d, j) # u
      BY <1>a, <3>1, <3>3
    <3>4. QED
      BY <3>2, <3>3
  <2>2. \A d \in Conns : Len(handshakes[d]) \in Nat
    BY <1>0 DEF TypeOK
  <2>3. QED
    BY <1>c, <2>1, <2>2 DEF NotNewer
<1>4. IndexExact' /\ NothingLeftOfClosed' /\ OnlineAreConnected' /\ ExpiryArmed'
  BY <1>0, IndexKept, NothingLeftKept, OnlineKept, ExpiryKept DEF IInv
<1>5. RevocationNotMissed'
  <2>1. \A d \in connids : d \in Conns /\ \A j \in 1..idx[d] : j \in 1..Len(handshakes[d]) /\ j \in Nat
    BY <1>0 DEF TypeOK
  <2> SUFFICES ASSUME NEW d \in connids, NEW j \in 1..idx[d], stream[d] = "open"
               PROVE  \/ RevOf(d, j) = rev'[UriOf(d, j)]
                      \/ \E e \in changes' : e.uri = UriOf(d, j) /\ e.rev # RevOf(d, j)
                      \/ j = idx[d] /\ pc[d] = "reading"
                      \/ j = idx[d] /\ pc[d] = "read" /\ got[d] # RevOf(d, j)
    BY <1>c, <2>1 DEF RevocationNotMissed
  <2>2. \/ RevOf(d, j) = rev[UriOf(d, j)]
        \/ \E e \in changes : e.uri = UriOf(d, j) /\ e.rev # RevOf(d, j)
        \/ j = idx[d] /\ pc[d] = "reading"
        \/ j = idx[d] /\ pc[d] = "read" /\ got[d] # RevOf(d, j)
    BY DEF IInv, RevocationNotMissed
  <2>3. ASSUME RevOf(d, j) = rev[UriOf(d, j)], UriOf(d, j) = u
        PROVE  \E e \in changes' : e.uri = UriOf(d, j) /\ e.rev # RevOf(d, j)
    <3>1. [uri |-> u, rev |-> rev[u] + 1] \in changes'
      OBVIOUS
    <3>2. rev[u] + 1 # RevOf(d, j)
      BY <1>a, <2>3
    <3>3. QED
      BY <2>3, <3>1, <3>2
  <2>4. ASSUME RevOf(d, j) = rev[UriOf(d, j)], UriOf(d, j) # u
        PROVE  RevOf(d, j) = rev'[UriOf(d, j)]
    BY <1>a, <1>b, <2>1, <2>4
  <2>5. changes \subseteq changes'
    OBVIOUS
  <2>6. QED
    BY <2>2, <2>3, <2>4, <2>5
<1>6. SweptAllDestroyed' /\ ClosedMeansEmpty' /\ CloseOrder'
  BY <1>0, SweptKept, ClosedKept DEF IInv, closeVars
<1>7. PendingExact'
  BY <1>0, PendingKept DEF IInv
<1>8. QED
  BY <1>1, <1>2, <1>3, <1>4, <1>5, <1>6, <1>7 DEF IInv

\* change keeps the invariant: what it destroys is what is outdated.
LEMMA KeyChangeStep ==
  ASSUME IInv, NEW e \in changes, KeyChange(e)
  PROVE  IInv'
<1> USE DEF KeyChange, regVars, authVars
<1>0. TypeOK
  BY DEF IInv
<1>a. Shrinks /\ \A d \in Conns : d \in {x[1] : x \in Outdated(e)} => stream'[d] # "open"
  BY <1>0, DstroyedFacts
<1>1. TypeOK'
  BY <1>0, <1>a DEF TypeOK, closeVars, Shrinks
<1>2. \A d \in Conns : PhaseFacts(d)'
  BY <1>a, PhaseKept DEF IInv
<1>3. NotNewer' /\ IndexExact' /\ NothingLeftOfClosed' /\ OnlineAreConnected' /\ ExpiryArmed'
  BY <1>0, <1>a, NotNewerKept, IndexKept, NothingLeftKept, OnlineKept, ExpiryKept DEF IInv
<1>4. RevocationNotMissed'
  <2>1. \A d \in connids : d \in Conns /\ (stream'[d] = "open" => stream[d] = "open")
    BY <1>0, <1>a DEF Shrinks, TypeOK
  <2>2. \A d \in connids : \A j \in 1..idx[d] : UriOf(d, j)' = UriOf(d, j) /\ RevOf(d, j)' = RevOf(d, j)
    BY DEF UriOf, RevOf
  <2> SUFFICES ASSUME NEW d \in connids, NEW j \in 1..idx[d], stream'[d] = "open"
               PROVE  \/ RevOf(d, j) = rev[UriOf(d, j)]
                      \/ \E f \in changes' : f.uri = UriOf(d, j) /\ f.rev # RevOf(d, j)
                      \/ j = idx[d] /\ pc[d] = "reading"
                      \/ j = idx[d] /\ pc[d] = "read" /\ got[d] # RevOf(d, j)
    BY <2>2 DEF RevocationNotMissed
  <2>3. \/ RevOf(d, j) = rev[UriOf(d, j)]
        \/ \E f \in changes : f.uri = UriOf(d, j) /\ f.rev # RevOf(d, j)
        \/ j = idx[d] /\ pc[d] = "reading"
        \/ j = idx[d] /\ pc[d] = "read" /\ got[d] # RevOf(d, j)
    BY <2>1 DEF IInv, RevocationNotMissed
  \* The event itself is no such notification: it would have destroyed d,
  \* which it finds in the index.
  <2>4. ~(e.uri = UriOf(d, j) /\ e.rev # RevOf(d, j))
    <3> SUFFICES ASSUME e.uri = UriOf(d, j), e.rev # RevOf(d, j)
                 PROVE  FALSE
      OBVIOUS
    <3>1. d \in Conns /\ j \in 1..Len(handshakes[d]) /\ j \in 1..MaxTokens
      BY <1>0, <2>1 DEF TypeOK
    <3>2. e.uri \in Uris
      BY <1>0, <3>1, HandshakeType
    <3>3. connections[e.uri] = {x \in Conns \X (1..MaxTokens) : /\ x[1] \in connids
                                                               /\ x[2] \in 1..idx[x[1]]
                                                               /\ UriOf(x[1], x[2]) = e.uri}
      BY <3>2 DEF IInv, IndexExact
    <3>4. <<d, j>> \in connections[e.uri]
      BY <3>1, <3>3
    <3>5. <<d, j>> \in Outdated(e)
      BY <3>4 DEF Outdated
    <3>6. d \in {x[1] : x \in Outdated(e)}
      BY <3>5
    <3>7. QED
      BY <1>a, <3>1, <3>6
  <2>5. QED
    BY <2>3, <2>4
<1>5. SweptAllDestroyed' /\ ClosedMeansEmpty' /\ CloseOrder'
  BY <1>0, <1>a, SweptKept, ClosedKept DEF IInv, closeVars
<1>6. PendingExact'
  BY <1>0, <1>a, PendingKept DEF IInv
<1>7. QED
  BY <1>1, <1>2, <1>3, <1>4, <1>5, <1>6 DEF IInv

\* conn_closed takes exactly the conns of its connection out of the index.
LEMMA UnindexedExact ==
  ASSUME TypeOK, IndexExact, NEW c \in connids, NEW u \in Uris
  PROVE  Unindexed(c)[u] = {x \in Conns \X (1..MaxTokens) : /\ x[1] \in connids \ {c}
                                                           /\ x[2] \in 1..idx[x[1]]
                                                           /\ UriOf(x[1], x[2]) = u}
<1>1. connections[u] = {x \in Conns \X (1..MaxTokens) : /\ x[1] \in connids
                                                       /\ x[2] \in 1..idx[x[1]]
                                                       /\ UriOf(x[1], x[2]) = u}
  BY DEF IndexExact
<1>2. c \in Conns /\ hs_conns[c] = 1..idx[c]
  BY DEF IndexExact, TypeOK
<1>3. Unindexed(c)[u] = {x \in connections[u] : ~(x[1] = c /\ x[2] \in 1..idx[c])}
  BY <1>2 DEF Unindexed
<1>4. QED
  BY <1>1, <1>3

\* conn_closed keeps the invariant.
LEMMA StreamCloseStep ==
  ASSUME IInv, NEW c \in Conns, StreamClose(c)
  PROVE  IInv'
<1>0. TypeOK /\ PhaseFacts(c) /\ stream' = [stream EXCEPT ![c] = "closed"]
  BY DEF IInv, StreamClose
<1>a. /\ stream' \in [Conns -> {"open", "closing", "closed"}]
      /\ stream'[c] = "closed"
      /\ \A d \in Conns : d # c => stream'[d] = stream[d]
  BY <1>0 DEF TypeOK
<1>b. UNCHANGED <<rev, changes, closing, swept, transports_closed, pending, pc,
                  tokens, handshakes, idx, got, presence>>
  BY DEF StreamClose, ConnClosed, Withdrawn, keyVars, authVars, regVars
\* In both cases the connection is in none of the lists afterwards, and the
\* others are where they were.
<1>c. /\ connids' = connids \ {c}
      /\ timers' = [timers EXCEPT ![c] = {}]
      /\ hs_conns' = [hs_conns EXCEPT ![c] = {}]
      /\ connections' = IF c \in connids THEN Unindexed(c) ELSE connections
      /\ online' \subseteq online
      /\ \A x \in online' : x[1] = c => x[2] \notin presence[c]
  <2>1. CASE c \in connids
    <3>1. /\ connids' = connids \ {c}
          /\ timers' = [timers EXCEPT ![c] = {}]
          /\ hs_conns' = [hs_conns EXCEPT ![c] = {}]
          /\ connections' = Unindexed(c)
          /\ online' = online \ ({c} \X presence[c])
      BY <2>1 DEF StreamClose, ConnClosed, Withdrawn
    <3>2. online \subseteq Conns \X Uris
      BY <1>0 DEF TypeOK
    <3>3. \A x \in online' : x[1] = c => x[2] \notin presence[c]
      BY <3>1, <3>2
    <3>4. QED
      BY <2>1, <3>1, <3>3
  <2>2. CASE c \notin connids
    <3>1. timers[c] = {} /\ hs_conns[c] = {}
      BY <1>0, <2>2 DEF PhaseFacts, IInv, IndexExact
    <3>2. \A x \in online : x[1] # c
      BY <2>2 DEF IInv, OnlineAreConnected
    <3>3. QED
      BY <1>0, <2>2, <3>1, <3>2 DEF StreamClose, regVars, TypeOK
  <2>3. QED
    BY <2>1, <2>2
<1>d. /\ timers' \in [Conns -> SUBSET (1..MaxTokens)]
      /\ hs_conns' \in [Conns -> SUBSET (1..MaxTokens)]
      /\ timers'[c] = {} /\ hs_conns'[c] = {}
      /\ \A d \in Conns : d # c => timers'[d] = timers[d] /\ hs_conns'[d] = hs_conns[d]
  BY <1>0, <1>c DEF TypeOK
<1>e. \/ UNCHANGED <<server_closed, close_events>>
      \/ /\ transports_closed /\ c \in connids /\ connids' = {}
         /\ server_closed' = TRUE /\ close_events' = close_events + 1
  BY DEF StreamClose, ConnClosed, Check
<1>f. \A d \in Conns : \A j \in Nat : UriOf(d, j)' = UriOf(d, j) /\ RevOf(d, j)' = RevOf(d, j)
  BY <1>b DEF UriOf, RevOf
<1>1. TypeOK'
  <2>1. connections' \in [Uris -> SUBSET (Conns \X (1..MaxTokens))]
    BY <1>0, <1>c DEF TypeOK, Unindexed
  <2>2. empty_once' \in BOOLEAN
    BY <1>0 DEF TypeOK, StreamClose, ConnClosed
  <2>3. server_closed' \in BOOLEAN /\ close_events' \in Nat
    <3>1. server_closed \in BOOLEAN /\ close_events \in Nat
      BY <1>0 DEF TypeOK
    <3>2. server_closed' = server_closed \/ server_closed' = TRUE
      BY <1>e
    <3>3. close_events' = close_events \/ close_events' = close_events + 1
      BY <1>e
    <3>4. server_closed' \in BOOLEAN
      BY <3>1, <3>2, Zenon
    <3>5. close_events' \in Nat
      BY <3>1, <3>3
    <3>6. QED
      BY <3>4, <3>5
  <2>4. QED
    BY <1>0, <1>a, <1>b, <1>c, <1>d, <2>1, <2>2, <2>3 DEF TypeOK
<1>2. \A d \in Conns : PhaseFacts(d)'
  <2>1. PhaseFacts(c)'
    BY <1>0, <1>a, <1>b, <1>c, <1>d DEF PhaseFacts
  <2>2. ASSUME NEW d \in Conns, d # c PROVE PhaseFacts(d)'
    BY <1>a, <1>b, <1>c, <1>d, <2>2 DEF IInv, PhaseFacts
  <2>3. QED
    BY <2>1, <2>2
<1>3. NotNewer' /\ CloseOrder'
  BY <1>b, NotNewerKept DEF IInv, CloseOrder
<1>4. IndexExact'
  <2>1. ASSUME NEW u \in Uris
        PROVE  connections'[u] = {x \in Conns \X (1..MaxTokens) : /\ x[1] \in connids'
                                                                  /\ x[2] \in 1..idx'[x[1]]
                                                                  /\ UriOf(x[1], x[2])' = u}
    <3>1. connections'[u] = {x \in Conns \X (1..MaxTokens) : /\ x[1] \in connids \ {c}
                                                             /\ x[2] \in 1..idx[x[1]]
                                                             /\ UriOf(x[1], x[2]) = u}
      <4>1. CASE c \in connids
        BY <1>0, <1>c, <4>1, UnindexedExact DEF IInv
      <4>2. CASE c \notin connids
        <5>1. connids \ {c} = connids
          BY <4>2
        <5>2. QED
          BY <1>c, <4>2, <5>1 DEF IInv, IndexExact
      <4>3. QED
        BY <4>1, <4>2
    <3>2. QED
      BY <1>b, <1>c, <1>f, <3>1
  <2>2. \A d \in Conns : hs_conns'[d] = IF d \in connids' THEN 1..idx'[d] ELSE {}
    BY <1>b, <1>c, <1>d DEF IInv, IndexExact
  <2>3. QED
    BY <2>1, <2>2 DEF IndexExact
<1>5. NothingLeftOfClosed'
  BY <1>a, <1>c, <1>d DEF IInv, NothingLeftOfClosed
<1>6. RevocationNotMissed' /\ ExpiryArmed'
  <2>1. \A d \in connids' : d \in connids /\ d \in Conns /\ d # c
    BY <1>0, <1>c DEF TypeOK
  <2>2. \A d \in connids' : stream'[d] = stream[d] /\ timers'[d] = timers[d]
    BY <1>a, <1>d, <2>1
  <2>3. \A d \in connids' : \A j \in 1..idx[d] : UriOf(d, j)' = UriOf(d, j) /\ RevOf(d, j)' = RevOf(d, j)
    BY <1>b DEF UriOf, RevOf
  <2>4. ExpiryArmed'
    BY <1>b, <2>1, <2>2, <2>3 DEF IInv, ExpiryArmed
  <2>5. RevocationNotMissed'
    BY <1>b, <2>1, <2>2, <2>3 DEF IInv, RevocationNotMissed
  <2>6. QED
    BY <2>4, <2>5
<1>7. SweptAllDestroyed'
  BY <1>0, <1>a, <1>b, <1>c DEF IInv, SweptAllDestroyed, TypeOK
<1>8. PendingExact'
  BY <1>a, <1>b DEF IInv, PendingExact
<1>9. OnlineAreConnected'
  BY <1>b, <1>c DEF IInv, OnlineAreConnected
<1>10. ClosedMeansEmpty'
  <2>1. ClosedMeansEmpty
    BY DEF IInv
  <2>2. CASE UNCHANGED <<server_closed, close_events>>
    BY <1>b, <1>c, <2>1, <2>2 DEF ClosedMeansEmpty
  <2>3. CASE transports_closed /\ c \in connids /\ connids' = {}
             /\ server_closed' = TRUE /\ close_events' = close_events + 1
    <3>1. ~server_closed /\ close_events = 0
      BY <1>0, <2>1, <2>3 DEF ClosedMeansEmpty, TypeOK
    <3>2. QED
      BY <1>b, <2>3, <3>1 DEF ClosedMeansEmpty
  <2>4. QED
    BY <1>e, <2>2, <2>3
<1>11. QED
  BY <1>1, <1>2, <1>3, <1>4, <1>5, <1>6, <1>7, <1>8, <1>9, <1>10 DEF IInv

\* close keeps the invariant.
LEMMA CloseStep == ASSUME IInv, Close PROVE IInv'
<1> USE DEF Close, keyVars, regVars, authVars
<1>0. TypeOK /\ Shrinks
  BY UnchangedShrinks DEF IInv
<1>1. TypeOK'
  BY <1>0 DEF TypeOK
<1>2. \A d \in Conns : PhaseFacts(d)'
  BY <1>0, PhaseKept DEF IInv
<1>3. NotNewer' /\ IndexExact' /\ NothingLeftOfClosed' /\ OnlineAreConnected'
  BY <1>0, NotNewerKept, IndexKept, NothingLeftKept, OnlineKept DEF IInv
<1>4. RevocationNotMissed' /\ ExpiryArmed' /\ PendingExact'
  BY <1>0, RevocationKept, ExpiryKept, PendingKept DEF IInv
<1>5. SweptAllDestroyed' /\ ClosedMeansEmpty' /\ CloseOrder'
  BY <1>0, SweptKept DEF IInv, ClosedMeansEmpty, CloseOrder
<1>6. QED
  BY <1>1, <1>2, <1>3, <1>4, <1>5 DEF IInv

\* The sweep keeps the invariant.
LEMMA CloseTransportsStep == ASSUME IInv, CloseTransports PROVE IInv'
<1> USE DEF CloseTransports, keyVars, regVars, authVars
<1>0. TypeOK
  BY DEF IInv
<1>a. Shrinks /\ \A d \in Conns : d \in pending \/ d \in connids => stream'[d] # "open"
  BY <1>0, DstroyedFacts DEF SweepTargets
<1>1. TypeOK'
  BY <1>0, <1>a DEF TypeOK, Shrinks
<1>2. \A d \in Conns : PhaseFacts(d)'
  BY <1>a, PhaseKept DEF IInv
<1>3. NotNewer' /\ IndexExact' /\ NothingLeftOfClosed' /\ OnlineAreConnected'
  BY <1>a, NotNewerKept, IndexKept, NothingLeftKept, OnlineKept DEF IInv
<1>4. RevocationNotMissed' /\ ExpiryArmed'
  BY <1>0, <1>a, RevocationKept, ExpiryKept DEF IInv
<1>5. SweptAllDestroyed'
  BY <1>0, <1>a DEF SweptAllDestroyed, TypeOK
<1>6. ClosedMeansEmpty' /\ CloseOrder'
  BY DEF IInv, ClosedMeansEmpty, CloseOrder
<1>7. PendingExact'
  BY <1>0, <1>a DEF IInv, PendingExact, Shrinks, TypeOK
<1>8. QED
  BY <1>1, <1>2, <1>3, <1>4, <1>5, <1>6, <1>7 DEF IInv

\* The close of the last transport keeps the invariant.
LEMMA TransportsClosedStep == ASSUME IInv, TransportsClosed PROVE IInv'
<1> USE DEF TransportsClosed, keyVars, regVars, authVars
<1>0. TypeOK /\ Shrinks /\ ClosedMeansEmpty
  BY UnchangedShrinks DEF IInv
<1>a. ~server_closed /\ close_events = 0
  BY <1>0 DEF ClosedMeansEmpty
<1>b. \/ server_closed' = FALSE /\ close_events' = 0
      \/ server_closed' = TRUE /\ close_events' = 1 /\ connids = {}
  BY <1>0, <1>a DEF Check, TypeOK
<1>1. TypeOK'
  <2>1. server_closed' \in BOOLEAN
    BY <1>b, Zenon
  <2>2. close_events' \in Nat
    BY <1>b
  <2>3. QED
    BY <1>0, <2>1, <2>2 DEF TypeOK
<1>2. \A d \in Conns : PhaseFacts(d)'
  BY <1>0, PhaseKept DEF IInv
<1>3. NotNewer' /\ IndexExact' /\ NothingLeftOfClosed' /\ OnlineAreConnected'
  BY <1>0, NotNewerKept, IndexKept, NothingLeftKept, OnlineKept DEF IInv
<1>4. RevocationNotMissed' /\ ExpiryArmed' /\ PendingExact'
  BY <1>0, RevocationKept, ExpiryKept, PendingKept DEF IInv
<1>5. SweptAllDestroyed' /\ CloseOrder'
  BY <1>0, SweptKept DEF IInv, CloseOrder
<1>6. ClosedMeansEmpty'
  BY <1>b DEF ClosedMeansEmpty
<1>7. QED
  BY <1>1, <1>2, <1>3, <1>4, <1>5, <1>6 DEF IInv

\* So does a step that changes nothing.
LEMMA StutterStep == ASSUME IInv, UNCHANGED vars PROVE IInv'
<1> USE DEF vars, keyVars, regVars, authVars
<1>0. TypeOK /\ Shrinks
  BY UnchangedShrinks DEF IInv
<1>1. TypeOK'
  BY <1>0 DEF TypeOK, closeVars
<1>2. \A d \in Conns : PhaseFacts(d)'
  BY <1>0, PhaseKept DEF IInv
<1>3. NotNewer' /\ IndexExact' /\ NothingLeftOfClosed' /\ OnlineAreConnected'
  BY <1>0, NotNewerKept, IndexKept, NothingLeftKept, OnlineKept DEF IInv
<1>4. RevocationNotMissed' /\ ExpiryArmed' /\ PendingExact'
  BY <1>0, RevocationKept, ExpiryKept, PendingKept DEF IInv
<1>5. SweptAllDestroyed' /\ ClosedMeansEmpty' /\ CloseOrder'
  BY <1>0, SweptKept, ClosedKept DEF IInv, closeVars
<1>6. QED
  BY <1>1, <1>2, <1>3, <1>4, <1>5 DEF IInv

-----------------------------------------------------------------------------
(* Theorems                                                                *)

\* Every step keeps the invariant.
LEMMA NextStep == IInv /\ [Next]_vars => IInv'
<1> SUFFICES ASSUME IInv, [Next]_vars PROVE IInv'
  OBVIOUS
<1>1. ASSUME NEW c \in Conns, TransportAuthorize(c) PROVE IInv'
  BY <1>1, TransportAuthorizeStep
<1>2. ASSUME NEW c \in Conns, GotTokensError(c) PROVE IInv'
  BY <1>2, RejectStep DEF GotTokensError
<1>3. ASSUME NEW c \in Conns, NEW n \in 0..MaxTokens + 1, GotTokens(c, n) PROVE IInv'
  BY <1>3, GotTokensStep
<1>4. ASSUME NEW c \in Conns, NEW u \in Uris, VerifyToken(c, u) PROVE IInv'
  BY <1>4, VerifyTokenStep
<1>5. ASSUME NEW c \in Conns, VerifyError(c) PROVE IInv'
  BY <1>5, RejectStep DEF VerifyError
<1>6. ASSUME NEW c \in Conns, AuthzEnd(c) PROVE IInv'
  BY <1>6, AuthzEndStep
<1>7. ASSUME NEW c \in Conns, TransportConnected(c) PROVE IInv'
  BY <1>7, TransportConnectedStep
<1>8. ASSUME NEW c \in Conns, ReadPubKey(c) PROVE IInv'
  BY <1>8, ReadPubKeyStep
<1>9. ASSUME NEW c \in Conns, NEW err \in BOOLEAN, GotPubKey(c, err) PROVE IInv'
  BY <1>9, GotPubKeyStep
<1>10. ASSUME NEW c \in Conns, NEW ok \in BOOLEAN, ClientHandshake(c, ok) PROVE IInv'
  BY <1>10, ClientHandshakeStep
<1>11. ASSUME NEW c \in Conns, NEW k \in timers[c], Expire(c, k) PROVE IInv'
  BY <1>11, ExpireStep
<1>12. ASSUME NEW c \in Conns, StreamClose(c) PROVE IInv'
  BY <1>12, StreamCloseStep
<1>13. ASSUME NEW u \in Uris, AddPubKey(u) PROVE IInv'
  BY <1>13, AddPubKeyStep
<1>14. ASSUME NEW e \in changes, KeyChange(e) PROVE IInv'
  BY <1>14, KeyChangeStep
<1>15. CASE Close
  BY <1>15, CloseStep
<1>16. CASE CloseTransports
  BY <1>16, CloseTransportsStep
<1>17. CASE TransportsClosed
  BY <1>17, TransportsClosedStep
<1>18. CASE UNCHANGED vars
  BY <1>18, StutterStep
<1>19. QED
  BY <1>1, <1>2, <1>3, <1>4, <1>5, <1>6, <1>7, <1>8, <1>9, <1>10, <1>11, <1>12,
     <1>13, <1>14, <1>15, <1>16, <1>17, <1>18 DEF Next

\* The invariant holds in every reachable state of every instance.
THEOREM Invariance == Spec => []IInv
  BY InitIInv, NextStep, PTL DEF Spec

\* The variables keep their types; no client gets further with more than
\* max_tokens tokens.
THEOREM TypeCorrect == Spec => []TypeOK
<1>1. IInv => TypeOK
  BY DEF IInv
<1>2. QED
  BY <1>1, Invariance, PTL

\* The index by URI holds exactly the processed handshakes of the connections
\* that have not closed.
THEOREM IndexCorrect == Spec => []IndexExact
<1>1. IInv => IndexExact
  BY DEF IInv
<1>2. QED
  BY <1>1, Invariance, PTL

\* A closed connection is in no list and has no timer.
THEOREM ClosedCorrect == Spec => []NothingLeftOfClosed
<1>1. IInv => NothingLeftOfClosed
  BY DEF IInv
<1>2. QED
  BY <1>1, Invariance, PTL

\* No change of a public key is missed between the verification of a token
\* and the moment its URI is watched.
THEOREM RevocationCorrect == Spec => []RevocationNotMissed
<1>1. IInv => RevocationNotMissed
  BY DEF IInv
<1>2. QED
  BY <1>1, Invariance, PTL

\* Every expiring token of a live connection has its timer.
THEOREM ExpiryCorrect == Spec => []ExpiryArmed
<1>1. IInv => ExpiryArmed
  BY DEF IInv
<1>2. QED
  BY <1>1, Invariance, PTL

\* After close has gone over the connections none is open.
THEOREM SweepCorrect == Spec => []SweptAllDestroyed
<1>1. IInv => SweptAllDestroyed
  BY DEF IInv
<1>2. QED
  BY <1>1, Invariance, PTL

\* close reaches every connection that is being authorized.
THEOREM PendingCorrect == Spec => []PendingExact
<1>1. IInv => PendingExact
  BY DEF IInv
<1>2. QED
  BY <1>1, Invariance, PTL

\* Whoever is announced online is connected.
THEOREM PresenceCorrect == Spec => []OnlineAreConnected
<1>1. IInv => OnlineAreConnected
  BY DEF IInv
<1>2. QED
  BY <1>1, Invariance, PTL

\* 'close' is emitted once, with all transports closed and no connection left.
THEOREM CloseCorrect == Spec => []ClosedMeansEmpty
<1>1. IInv => ClosedMeansEmpty
  BY DEF IInv
<1>2. QED
  BY <1>1, Invariance, PTL
=============================================================================
