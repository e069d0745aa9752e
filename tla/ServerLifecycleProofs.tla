------------------------ MODULE ServerLifecycleProofs ------------------------
(* The server closes once and completely, calls back when it has closed and *)
(* never says it is ready after it was asked to close; for every number of  *)
(* transports, connections and callers and every combination of faults.     *)
EXTENDS ServerLifecycle, TLAPS

Rest == {"none", "stopping", "authz_err"}

(* Transports start one after the other, before the server is up. *)
StartInOrder ==
  /\ phase \in {"authorizing", "dead"} => \A t \in Transports : status[t] = "idle"
  /\ \A t \in Transports : status[t] = "starting" =>
       /\ phase = "starting"
       /\ \A u \in Transports : u # t => status[u] # "starting"
       /\ \A u \in Transports : u > t => status[u] = "idle"

(* _close begins when the server is up, and closed is said at its end. *)
CloseInOrder ==
  /\ ready => phase = "up" /\ ~start_err
  /\ stage # "none" => phase = "up"
  /\ stage \notin Rest => \A t \in Transports : status[t] # "up"
  /\ server_closed => stage = "wait"

(* Who closes has called close; without one the start has failed. *)
Owned ==
  /\ closing /\ phase # "up" => close_cb # nobody
  /\ close_cb # nobody => closing
  /\ owner # nobody => closing
  /\ stage # "none" /\ ~start_err => owner # nobody
  /\ server_closed /\ owner # nobody => connids = {}

(* Those who wait have called, and nobody waits for a closed server. *)
Answers ==
  /\ waiters \cup Only(owner) \cup Only(close_cb) \subseteq asked
  /\ server_closed => waiters = {}
  /\ \A k \in Callers : k \notin asked => calls[k] = 0

IInv == /\ TypeOK /\ StartInOrder /\ CloseInOrder /\ Owned /\ Answers
        /\ ClosedMeansStopped /\ CalledMeansClosed

(* Calling back keeps the counts of calls numbers. *)
LEMMA CalledType ==
  ASSUME NEW S, calls \in [Callers -> Nat]
  PROVE  Called(S) \in [Callers -> Nat]
  BY DEF Called

(* The invariant holds in the initial state. *)
LEMMA InitIInv == Init => IInv
<1> SUFFICES ASSUME Init PROVE IInv
  OBVIOUS
<1> USE LifecycleAssumption DEF Init, Transports
<1>1. TypeOK
  <2>1. status \in [Transports -> TransportStates]
    BY DEF TransportStates
  <2>2. calls \in [Callers -> Nat]
    OBVIOUS
  <2>3. waiters \subseteq Callers /\ asked \subseteq Callers /\ connids \subseteq Conns
        /\ doomed \subseteq connids
    OBVIOUS
  <2>4. /\ start_err \in BOOLEAN /\ ready \in BOOLEAN /\ closing \in BOOLEAN
        /\ server_closed \in BOOLEAN /\ empty_once \in BOOLEAN
    OBVIOUS
  <2>5. ready_events \in 0..1 /\ close_events \in Nat
    OBVIOUS
  <2>6. /\ phase \in {"authorizing", "starting", "started", "up", "dead"}
        /\ close_cb \in Callers \cup {nobody} /\ owner \in Callers \cup {nobody}
        /\ stage \in {"none", "stopping", "authz_err", "transports", "transports_err", "wait"}
    OBVIOUS
  <2> QED
    BY <2>1, <2>2, <2>3, <2>4, <2>5, <2>6 DEF TypeOK
<1>2. StartInOrder /\ CloseInOrder
  BY DEF StartInOrder, CloseInOrder, Rest
<1>3. Owned
  BY DEF Owned
<1>4. Answers
  BY DEF Answers, Only
<1>5. ClosedMeansStopped /\ CalledMeansClosed
  BY DEF ClosedMeansStopped, CalledMeansClosed
<1> QED
  BY <1>1, <1>2, <1>3, <1>4, <1>5 DEF IInv

(* Every step keeps the types; calling back is the only one that counts.   *)
LEMMA NextTypeOK == IInv /\ [Next]_vars => TypeOK'
<1> SUFFICES ASSUME IInv, [Next]_vars PROVE TypeOK'
  OBVIOUS
<1> USE LifecycleAssumption DEF IInv, Transports, TypeOK, TransportStates, Only
<1>1. ASSUME NEW err \in BOOLEAN, Authorize(err) PROVE TypeOK'
  BY <1>1 DEF Authorize, closeVars
<1>2. ASSUME NEW err \in BOOLEAN, AuthzClosed(err) PROVE TypeOK'
  <2>1. Called(Only(owner)) \in [Callers -> Nat]
    BY CalledType
  <2>2. calls' \in [Callers -> Nat]
    BY <1>2, <2>1 DEF AuthzClosed
  <2> QED
    BY <1>2, <2>2 DEF AuthzClosed, Cont, SweepTargets
<1>3. ASSUME NEW t \in Transports, TransportReady(t) PROVE TypeOK'
  BY <1>3 DEF TransportReady, closeVars
<1>4. ASSUME NEW t \in Transports, TransportError(t) PROVE TypeOK'
  BY <1>4 DEF TransportError, closeVars
<1>5. ASSUME NEW t \in Transports, ListenError(t) PROVE TypeOK'
  BY <1>5 DEF ListenError, closeVars
<1>6. ASSUME NEW t \in Transports, TransportClosed(t) PROVE TypeOK'
  <2>1. Called(waiters \cup Only(owner)) \in [Callers -> Nat]
    BY CalledType
  <2>2. calls' \in [Callers -> Nat]
    BY <1>6, <2>1 DEF TransportClosed, Check
  <2>3. server_closed' \in BOOLEAN
    BY <1>6 DEF TransportClosed, Check
  <2>4. close_events' \in Nat
    BY <1>6 DEF TransportClosed, Check
  <2>5. waiters' \subseteq Callers
    BY <1>6 DEF TransportClosed, Check
  <2> QED
    BY <1>6, <2>2, <2>3, <2>4, <2>5 DEF TransportClosed
<1>7. ASSUME NEW t \in Transports, TransportCloseError(t) PROVE TypeOK'
  BY <1>7, CalledType DEF TransportCloseError
<1>8. ASSUME NEW k \in Callers \cup {nobody}, Started(k) PROVE TypeOK'
  BY <1>8 DEF Started, BeginClose, MustClose
<1>9. ASSUME NEW k \in Callers, Close(k) PROVE TypeOK'
  BY <1>9, CalledType DEF Close, BeginClose, startVars
<1>10. CASE ContinueAuthz
  BY <1>10 DEF ContinueAuthz, Cont, SweepTargets
<1>11. CASE NothingToClose
  <2>1. Called(waiters \cup Only(owner)) \in [Callers -> Nat]
    BY CalledType
  <2>2. calls' \in [Callers -> Nat]
    BY <1>11, <2>1 DEF NothingToClose, Check
  <2>3. server_closed' \in BOOLEAN
    BY <1>11 DEF NothingToClose, Check
  <2>4. close_events' \in Nat
    BY <1>11 DEF NothingToClose, Check
  <2>5. waiters' \subseteq Callers
    BY <1>11 DEF NothingToClose, Check
  <2> QED
    BY <1>11, <2>2, <2>3, <2>4, <2>5 DEF NothingToClose, startVars
<1>12. CASE ContinueTransports
  <2>1. Called(waiters \cup Only(owner)) \in [Callers -> Nat]
    BY CalledType
  <2>2. calls' \in [Callers -> Nat]
    BY <1>12, <2>1 DEF ContinueTransports, Check
  <2>3. server_closed' \in BOOLEAN
    BY <1>12 DEF ContinueTransports, Check
  <2>4. close_events' \in Nat
    BY <1>12 DEF ContinueTransports, Check
  <2>5. waiters' \subseteq Callers
    BY <1>12 DEF ContinueTransports, Check
  <2> QED
    BY <1>12, <2>2, <2>3, <2>4, <2>5 DEF ContinueTransports, startVars
<1>13. ASSUME NEW c \in Conns, Connect(c) PROVE TypeOK'
  BY <1>13 DEF Connect, Accepting, closeVars, startVars
<1>14. ASSUME NEW c \in Conns, Disconnect(c) PROVE TypeOK'
  <2>1. Called(waiters \cup Only(owner)) \in [Callers -> Nat]
    BY CalledType
  <2>2. calls' \in [Callers -> Nat]
    BY <1>14, <2>1 DEF Disconnect, Check
  <2>3. server_closed' \in BOOLEAN
    BY <1>14 DEF Disconnect, Check
  <2>4. close_events' \in Nat
    BY <1>14 DEF Disconnect, Check
  <2>5. waiters' \subseteq Callers
    BY <1>14 DEF Disconnect, Check
  <2> QED
    BY <1>14, <2>2, <2>3, <2>4, <2>5 DEF Disconnect, startVars
<1>15. CASE UNCHANGED vars
  BY <1>15 DEF vars, startVars, closeVars
<1> QED
  BY <1>1, <1>2, <1>3, <1>4, <1>5, <1>6, <1>7, <1>8, <1>9, <1>10, <1>11, <1>12, <1>13, <1>14, <1>15 DEF Next

(* Only the start of a transport touches the order of the starts.          *)
LEMMA NextStartInOrder == IInv /\ [Next]_vars => StartInOrder'
<1> SUFFICES ASSUME IInv, [Next]_vars PROVE StartInOrder'
  OBVIOUS
<1> USE LifecycleAssumption DEF IInv, Transports, TypeOK, StartInOrder, TransportStates
<1>1. ASSUME NEW err \in BOOLEAN, Authorize(err) PROVE StartInOrder'
  BY <1>1 DEF Authorize, closeVars
<1>2. ASSUME NEW err \in BOOLEAN, AuthzClosed(err) PROVE StartInOrder'
  BY <1>2 DEF AuthzClosed, Cont, Called, Only, SweepTargets
<1>3. ASSUME NEW t \in Transports, TransportReady(t) PROVE StartInOrder'
  BY <1>3 DEF TransportReady, closeVars
<1>4. ASSUME NEW t \in Transports, TransportError(t) PROVE StartInOrder'
  BY <1>4 DEF TransportError, closeVars
<1>5. ASSUME NEW t \in Transports, ListenError(t) PROVE StartInOrder'
  BY <1>5 DEF ListenError, closeVars
<1>6. ASSUME NEW t \in Transports, TransportClosed(t) PROVE StartInOrder'
  BY <1>6 DEF TransportClosed, Check, Called, AllClosed, Only
<1>7. ASSUME NEW t \in Transports, TransportCloseError(t) PROVE StartInOrder'
  BY <1>7 DEF TransportCloseError, Called, Only
<1>8. ASSUME NEW k \in Callers \cup {nobody}, Started(k) PROVE StartInOrder'
  BY <1>8 DEF Started, BeginClose, MustClose, Only
<1>9. ASSUME NEW k \in Callers, Close(k) PROVE StartInOrder'
  BY <1>9 DEF Close, BeginClose, Called, startVars
<1>10. CASE ContinueAuthz
  BY <1>10 DEF ContinueAuthz, Cont, SweepTargets
<1>11. CASE NothingToClose
  BY <1>11 DEF NothingToClose, Check, Called, Only, startVars
<1>12. CASE ContinueTransports
  BY <1>12 DEF ContinueTransports, Check, Called, Only, startVars
<1>13. ASSUME NEW c \in Conns, Connect(c) PROVE StartInOrder'
  BY <1>13 DEF Connect, Accepting, closeVars, startVars
<1>14. ASSUME NEW c \in Conns, Disconnect(c) PROVE StartInOrder'
  BY <1>14 DEF Disconnect, Check, Called, Only, startVars
<1>15. CASE UNCHANGED vars
  BY <1>15 DEF vars, startVars, closeVars
<1> QED
  BY <1>1, <1>2, <1>3, <1>4, <1>5, <1>6, <1>7, <1>8, <1>9, <1>10, <1>11, <1>12, <1>13, <1>14, <1>15 DEF Next

(* A transport comes up before the server does, so before _close begins.   *)
LEMMA NextCloseInOrder == IInv /\ [Next]_vars => CloseInOrder'
<1> SUFFICES ASSUME IInv, [Next]_vars PROVE CloseInOrder'
  OBVIOUS
<1> USE LifecycleAssumption DEF IInv, Transports, TypeOK, StartInOrder, CloseInOrder, Owned, Rest, TransportStates, AllClosed
<1>1. ASSUME NEW err \in BOOLEAN, Authorize(err) PROVE CloseInOrder'
  BY <1>1 DEF Authorize, closeVars
<1>2. ASSUME NEW err \in BOOLEAN, AuthzClosed(err) PROVE CloseInOrder'
  BY <1>2 DEF AuthzClosed, Cont, Called, Only, SweepTargets
<1>3. ASSUME NEW t \in Transports, TransportReady(t) PROVE CloseInOrder'
  BY <1>3 DEF TransportReady, closeVars
<1>4. ASSUME NEW t \in Transports, TransportError(t) PROVE CloseInOrder'
  BY <1>4 DEF TransportError, closeVars
<1>5. ASSUME NEW t \in Transports, ListenError(t) PROVE CloseInOrder'
  BY <1>5 DEF ListenError, closeVars
<1>6. ASSUME NEW t \in Transports, TransportClosed(t) PROVE CloseInOrder'
  BY <1>6 DEF TransportClosed, Check, Called, Only
<1>7. ASSUME NEW t \in Transports, TransportCloseError(t) PROVE CloseInOrder'
  BY <1>7 DEF TransportCloseError, Called, Only
<1>8. ASSUME NEW k \in Callers \cup {nobody}, Started(k) PROVE CloseInOrder'
  BY <1>8 DEF Started, BeginClose, MustClose, Only
<1>9. ASSUME NEW k \in Callers, Close(k) PROVE CloseInOrder'
  <2>1. CASE closing
    BY <1>9, <2>1 DEF Close, startVars
  <2>2. CASE ~closing /\ ready
    BY <1>9, <2>2 DEF Close, BeginClose, startVars
  <2>3. CASE ~closing /\ ~ready
    BY <1>9, <2>3 DEF Close, startVars
  <2> QED
    BY <2>1, <2>2, <2>3
<1>10. CASE ContinueAuthz
  BY <1>10 DEF ContinueAuthz, Cont, SweepTargets
<1>11. CASE NothingToClose
  BY <1>11 DEF NothingToClose, Check, Called, Only, startVars
<1>12. CASE ContinueTransports
  BY <1>12 DEF ContinueTransports, Check, Called, Only, startVars
<1>13. ASSUME NEW c \in Conns, Connect(c) PROVE CloseInOrder'
  BY <1>13 DEF Connect, Accepting, closeVars, startVars
<1>14. ASSUME NEW c \in Conns, Disconnect(c) PROVE CloseInOrder'
  BY <1>14 DEF Disconnect, Check, Called, Only, startVars
<1>15. CASE UNCHANGED vars
  BY <1>15 DEF vars, startVars, closeVars
<1> QED
  BY <1>1, <1>2, <1>3, <1>4, <1>5, <1>6, <1>7, <1>8, <1>9, <1>10, <1>11, <1>12, <1>13, <1>14, <1>15 DEF Next

(* After a close was called no connection is registered (Accepting).       *)
LEMMA NextOwned == IInv /\ [Next]_vars => Owned'
<1> SUFFICES ASSUME IInv, [Next]_vars PROVE Owned'
  OBVIOUS
<1> USE LifecycleAssumption DEF IInv, Transports, TypeOK, StartInOrder, CloseInOrder, Owned, Only, Rest
<1>1. ASSUME NEW err \in BOOLEAN, Authorize(err) PROVE Owned'
  BY <1>1 DEF Authorize, closeVars
<1>2. ASSUME NEW err \in BOOLEAN, AuthzClosed(err) PROVE Owned'
  BY <1>2 DEF AuthzClosed, Cont, Called, SweepTargets
<1>3. ASSUME NEW t \in Transports, TransportReady(t) PROVE Owned'
  BY <1>3 DEF TransportReady, closeVars
<1>4. ASSUME NEW t \in Transports, TransportError(t) PROVE Owned'
  BY <1>4 DEF TransportError, closeVars
<1>5. ASSUME NEW t \in Transports, ListenError(t) PROVE Owned'
  BY <1>5 DEF ListenError, closeVars
<1>6. ASSUME NEW t \in Transports, TransportClosed(t) PROVE Owned'
  BY <1>6 DEF TransportClosed, Check, Called, AllClosed
<1>7. ASSUME NEW t \in Transports, TransportCloseError(t) PROVE Owned'
  BY <1>7 DEF TransportCloseError, Called
<1>8. ASSUME NEW k \in Callers \cup {nobody}, Started(k) PROVE Owned'
  BY <1>8 DEF Started, BeginClose, MustClose
<1>9. ASSUME NEW k \in Callers, Close(k) PROVE Owned'
  <2>1. CASE closing
    BY <1>9, <2>1 DEF Close, startVars
  <2>2. CASE ~closing /\ ready
    BY <1>9, <2>2 DEF Close, BeginClose, startVars
  <2>3. CASE ~closing /\ ~ready
    BY <1>9, <2>3 DEF Close, startVars
  <2> QED
    BY <2>1, <2>2, <2>3
<1>10. CASE ContinueAuthz
  BY <1>10 DEF ContinueAuthz, Cont, SweepTargets
<1>11. CASE NothingToClose
  BY <1>11 DEF NothingToClose, Check, Called, startVars
<1>12. CASE ContinueTransports
  BY <1>12 DEF ContinueTransports, Check, Called, startVars
<1>13. ASSUME NEW c \in Conns, Connect(c) PROVE Owned'
  BY <1>13 DEF Connect, Accepting, closeVars, startVars
<1>14. ASSUME NEW c \in Conns, Disconnect(c) PROVE Owned'
  BY <1>14 DEF Disconnect, Check, Called, startVars
<1>15. CASE UNCHANGED vars
  BY <1>15 DEF vars, startVars, closeVars
<1> QED
  BY <1>1, <1>2, <1>3, <1>4, <1>5, <1>6, <1>7, <1>8, <1>9, <1>10, <1>11, <1>12, <1>13, <1>14, <1>15 DEF Next

(* Callers are called once: Check empties the list of those who wait.      *)
LEMMA NextAnswers == IInv /\ [Next]_vars => Answers'
<1> SUFFICES ASSUME IInv, [Next]_vars PROVE Answers'
  OBVIOUS
<1> USE LifecycleAssumption DEF IInv, Transports, TypeOK, CloseInOrder, Owned, Answers, Only, Rest
<1>1. ASSUME NEW err \in BOOLEAN, Authorize(err) PROVE Answers'
  BY <1>1 DEF Authorize, closeVars
<1>2. ASSUME NEW err \in BOOLEAN, AuthzClosed(err) PROVE Answers'
  BY <1>2 DEF AuthzClosed, Cont, Called, SweepTargets
<1>3. ASSUME NEW t \in Transports, TransportReady(t) PROVE Answers'
  BY <1>3 DEF TransportReady, closeVars
<1>4. ASSUME NEW t \in Transports, TransportError(t) PROVE Answers'
  BY <1>4 DEF TransportError, closeVars
<1>5. ASSUME NEW t \in Transports, ListenError(t) PROVE Answers'
  BY <1>5 DEF ListenError, closeVars
<1>6. ASSUME NEW t \in Transports, TransportClosed(t) PROVE Answers'
  BY <1>6 DEF TransportClosed, Check, Called, AllClosed
<1>7. ASSUME NEW t \in Transports, TransportCloseError(t) PROVE Answers'
  BY <1>7 DEF TransportCloseError, Called
<1>8. ASSUME NEW k \in Callers \cup {nobody}, Started(k) PROVE Answers'
  BY <1>8 DEF Started, BeginClose, MustClose
<1>9. ASSUME NEW k \in Callers, Close(k) PROVE Answers'
  BY <1>9 DEF Close, BeginClose, Called, startVars
<1>10. CASE ContinueAuthz
  BY <1>10 DEF ContinueAuthz, Cont, SweepTargets
<1>11. CASE NothingToClose
  BY <1>11 DEF NothingToClose, Check, Called, startVars
<1>12. CASE ContinueTransports
  BY <1>12 DEF ContinueTransports, Check, Called, startVars
<1>13. ASSUME NEW c \in Conns, Connect(c) PROVE Answers'
  BY <1>13 DEF Connect, Accepting, closeVars, startVars
<1>14. ASSUME NEW c \in Conns, Disconnect(c) PROVE Answers'
  BY <1>14 DEF Disconnect, Check, Called, startVars
<1>15. CASE UNCHANGED vars
  BY <1>15 DEF vars, startVars, closeVars
<1> QED
  BY <1>1, <1>2, <1>3, <1>4, <1>5, <1>6, <1>7, <1>8, <1>9, <1>10, <1>11, <1>12, <1>13, <1>14, <1>15 DEF Next

(* A closed server stays closed, without transports and connections.       *)
LEMMA NextClosedMeansStopped == IInv /\ [Next]_vars => ClosedMeansStopped'
<1> SUFFICES ASSUME IInv, [Next]_vars PROVE ClosedMeansStopped'
  OBVIOUS
<1> USE LifecycleAssumption DEF IInv, Transports, TypeOK, StartInOrder, CloseInOrder, Owned, ClosedMeansStopped, Rest
<1>1. ASSUME NEW err \in BOOLEAN, Authorize(err) PROVE ClosedMeansStopped'
  BY <1>1 DEF Authorize, closeVars
<1>2. ASSUME NEW err \in BOOLEAN, AuthzClosed(err) PROVE ClosedMeansStopped'
  BY <1>2 DEF AuthzClosed, Cont, Called, Only, SweepTargets
<1>3. ASSUME NEW t \in Transports, TransportReady(t) PROVE ClosedMeansStopped'
  BY <1>3 DEF TransportReady, closeVars
<1>4. ASSUME NEW t \in Transports, TransportError(t) PROVE ClosedMeansStopped'
  BY <1>4 DEF TransportError, closeVars
<1>5. ASSUME NEW t \in Transports, ListenError(t) PROVE ClosedMeansStopped'
  BY <1>5 DEF ListenError, closeVars
<1>6. ASSUME NEW t \in Transports, TransportClosed(t) PROVE ClosedMeansStopped'
  BY <1>6 DEF TransportClosed, Check, Called, AllClosed, Only
<1>7. ASSUME NEW t \in Transports, TransportCloseError(t) PROVE ClosedMeansStopped'
  BY <1>7 DEF TransportCloseError, Called, Only
<1>8. ASSUME NEW k \in Callers \cup {nobody}, Started(k) PROVE ClosedMeansStopped'
  BY <1>8 DEF Started, BeginClose, MustClose, Only
<1>9. ASSUME NEW k \in Callers, Close(k) PROVE ClosedMeansStopped'
  BY <1>9 DEF Close, BeginClose, Called, startVars
<1>10. CASE ContinueAuthz
  BY <1>10 DEF ContinueAuthz, Cont, SweepTargets
<1>11. CASE NothingToClose
  BY <1>11 DEF NothingToClose, Check, Called, Only, startVars
<1>12. CASE ContinueTransports
  BY <1>12 DEF ContinueTransports, Check, Called, Only, startVars
<1>13. ASSUME NEW c \in Conns, Connect(c) PROVE ClosedMeansStopped'
  BY <1>13 DEF Connect, Accepting, closeVars, startVars
<1>14. ASSUME NEW c \in Conns, Disconnect(c) PROVE ClosedMeansStopped'
  BY <1>14 DEF Disconnect, Check, Called, Only, startVars
<1>15. CASE UNCHANGED vars
  BY <1>15 DEF vars, startVars, closeVars
<1> QED
  BY <1>1, <1>2, <1>3, <1>4, <1>5, <1>6, <1>7, <1>8, <1>9, <1>10, <1>11, <1>12, <1>13, <1>14, <1>15 DEF Next

(* Check is what calls back, unless the keystore or a transport fails.     *)
LEMMA NextCalledMeansClosed == IInv /\ [Next]_vars => CalledMeansClosed'
<1> SUFFICES ASSUME IInv, [Next]_vars PROVE CalledMeansClosed'
  OBVIOUS
<1> USE LifecycleAssumption DEF IInv, Transports, TypeOK, CloseInOrder, Owned, Answers, CalledMeansClosed, Only, Rest
<1>1. ASSUME NEW err \in BOOLEAN, Authorize(err) PROVE CalledMeansClosed'
  BY <1>1 DEF Authorize, closeVars
<1>2. ASSUME NEW err \in BOOLEAN, AuthzClosed(err) PROVE CalledMeansClosed'
  BY <1>2 DEF AuthzClosed, Cont, Called, SweepTargets
<1>3. ASSUME NEW t \in Transports, TransportReady(t) PROVE CalledMeansClosed'
  BY <1>3 DEF TransportReady, closeVars
<1>4. ASSUME NEW t \in Transports, TransportError(t) PROVE CalledMeansClosed'
  BY <1>4 DEF TransportError, closeVars
<1>5. ASSUME NEW t \in Transports, ListenError(t) PROVE CalledMeansClosed'
  BY <1>5 DEF ListenError, closeVars
<1>6. ASSUME NEW t \in Transports, TransportClosed(t) PROVE CalledMeansClosed'
  BY <1>6 DEF TransportClosed, Check, Called, AllClosed
<1>7. ASSUME NEW t \in Transports, TransportCloseError(t) PROVE CalledMeansClosed'
  BY <1>7 DEF TransportCloseError, Called
<1>8. ASSUME NEW k \in Callers \cup {nobody}, Started(k) PROVE CalledMeansClosed'
  BY <1>8 DEF Started, BeginClose, MustClose
<1>9. ASSUME NEW k \in Callers, Close(k) PROVE CalledMeansClosed'
  BY <1>9 DEF Close, BeginClose, Called, startVars
<1>10. CASE ContinueAuthz
  BY <1>10 DEF ContinueAuthz, Cont, SweepTargets
<1>11. CASE NothingToClose
  BY <1>11 DEF NothingToClose, Check, Called, startVars
<1>12. CASE ContinueTransports
  BY <1>12 DEF ContinueTransports, Check, Called, startVars
<1>13. ASSUME NEW c \in Conns, Connect(c) PROVE CalledMeansClosed'
  BY <1>13 DEF Connect, Accepting, closeVars, startVars
<1>14. ASSUME NEW c \in Conns, Disconnect(c) PROVE CalledMeansClosed'
  BY <1>14 DEF Disconnect, Check, Called, startVars
<1>15. CASE UNCHANGED vars
  BY <1>15 DEF vars, startVars, closeVars
<1> QED
  BY <1>1, <1>2, <1>3, <1>4, <1>5, <1>6, <1>7, <1>8, <1>9, <1>10, <1>11, <1>12, <1>13, <1>14, <1>15 DEF Next

(* The inductive invariant of the life of a server. *)
THEOREM LifecycleInvariance == Spec => []IInv
<1>1. IInv /\ [Next]_vars => IInv'
  BY NextTypeOK, NextStartInOrder, NextCloseInOrder, NextOwned, NextAnswers,
     NextClosedMeansStopped, NextCalledMeansClosed DEF IInv
<1> QED
  BY <1>1, InitIInv, PTL DEF Spec

(* The fields of the server keep their types. *)
THEOREM LifecycleTypes == Spec => []TypeOK
<1>1. IInv => TypeOK
  BY DEF IInv
<1> QED
  BY <1>1, LifecycleInvariance, PTL

(* 'close' means that no transport is up and, where the start did not      *)
(* fail, that no connection is left and that it is emitted once.           *)
THEOREM LifecycleClosed == Spec => []ClosedMeansStopped
<1>1. IInv => ClosedMeansStopped
  BY DEF IInv
<1> QED
  BY <1>1, LifecycleInvariance, PTL

(* close calls back once, and not before the server has closed. *)
THEOREM LifecycleCalled == Spec => []CalledMeansClosed
<1>1. IInv => CalledMeansClosed
  BY DEF IInv
<1> QED
  BY <1>1, LifecycleInvariance, PTL

(* A server that was asked to close never says it is ready. *)
THEOREM LifecycleNotReady == Spec => NoReadyAfterClose
<1>1. IInv /\ [Next]_vars => [ready_events' # ready_events => ~closing]_vars
  <2> SUFFICES ASSUME IInv, [Next]_vars, ready_events' # ready_events
               PROVE  ~closing
    BY DEF vars
  <2>1. PICK k \in Callers \cup {nobody} : Started(k)
    <3> USE DEF Authorize, AuthzClosed, Cont, TransportReady, TransportError,
                ListenError, TransportClosed, TransportCloseError, Close, ContinueAuthz,
                NothingToClose, ContinueTransports, Connect, Disconnect, startVars
    <3> QED
      BY DEF Next, vars
  <2>2. ready_events' # ready_events =>
          ~MustClose(IF k # nobody /\ ~closing THEN k ELSE close_cb)
    BY <2>1 DEF Started
  <2>3. phase = "started"
    BY <2>1 DEF Started
  <2> QED
    BY <2>2, <2>3 DEF IInv, Owned, MustClose
<1> QED
  BY <1>1, LifecycleInvariance, PTL DEF Spec, NoReadyAfterClose
=============================================================================
