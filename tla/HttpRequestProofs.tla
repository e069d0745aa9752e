--------------------------- MODULE HttpRequestProofs ---------------------------
(* The response to a request of the http transport ends once, and its timers *)
(* stop with it: for any kinds of requests and any number of topics,         *)
(* whenever messages come.                                                   *)
EXTENDS HttpRequest, TLAPS

(* A request that has not been looked at has done nothing. *)
Untouched ==
  stage = "new" =>
    ~closed /\ ends = 0 /\ left = "none" /\ ~sse /\ kill = "none" /\ news = {}

(* A request that is not served has no connection. *)
Unserved == kind = "other" => left = "none" /\ stage \in {"new", "over"}

(* An event stream has its head, and listens for the close of the response *)
(* while it is kept alive.                                                 *)
Streaming ==
  /\ stage = "streaming" => head # NoCode
  /\ sse => watching /\ stage = "streaming"

(* The response of a socket that has gone is closed, or will hear of it. *)
CloseHeard ==
  socket = "gone" => "res" \in news \/ (closed /\ kill # "armed")

IInv ==
  /\ TypeOK /\ EndedOnce /\ TimersOnlyWhileOpen
  /\ Untouched /\ Unserved /\ Streaming /\ CloseHeard

(* What done does: it ends the response only if it is not closed, and it   *)
(* leaves a head that is written.                                          *)
DoneEffect ==
  /\ sse' = FALSE /\ ticks' \in BOOLEAN /\ implicit' = implicit
  /\ head' \in Codes /\ (head # NoCode => head' # NoCode)
  /\ code' \in Codes
  /\ \/ UNCHANGED <<ends, closed, kill>>
     \/ ~closed /\ closed' = TRUE /\ ends' = ends + 1 /\ kill' \in {kill, "armed"}

(* The invariant holds initially. *)
LEMMA InitIInv == Init => IInv
<1> SUFFICES ASSUME Init PROVE IInv
  OBVIOUS
<1>1. TypeOK
  <2>1. kind \in Kinds /\ stage \in Stages /\ topics \in 0..NTopics
    BY HttpAssumption DEF Init, Stages
  <2>2. {closed, implicit, sse, watching, ticks, attended} \subseteq BOOLEAN
    BY DEF Init
  <2>3. {head, code} \subseteq Codes /\ ends \in Nat
    BY DEF Init, Codes
  <2>4. /\ kill \in {"none", "armed", "cleared"} /\ socket \in {"open", "gone"}
        /\ news \subseteq {"req", "res"} /\ body \in {"flowing", "ended"}
        /\ left \in {"none", "open", "destroyed", "closed"}
    BY DEF Init
  <2> QED
    BY <2>1, <2>2, <2>3, <2>4 DEF TypeOK
<1> QED
  BY <1>1 DEF Init, IInv, EndedOnce, TimersOnlyWhileOpen, Untouched, Unserved,
     Streaming, CloseHeard

(* What a step that calls done does besides: only a new request is one that *)
(* is not served.                                                           *)
Besides ==
  /\ UNCHANGED <<kind, socket, body, watching, attended>>
  /\ topics' \in 0..NTopics
  /\ news' \subseteq {"req", "res"}
  /\ "res" \in news => "res" \in news'
  /\ stage' \in Stages \ {"new"}
  /\ stage' = "streaming" => stage = "streaming"
  /\ left' \in {"none", "open", "destroyed", "closed"}
  /\ kind = "other" => stage = "new" /\ stage' = "over" /\ left' = "none"

(* Whoever calls done, the invariant stays. *)
LEMMA DoneStep == IInv /\ DoneEffect /\ Besides => IInv'
<1> SUFFICES ASSUME IInv, DoneEffect, Besides PROVE IInv'
  OBVIOUS
<1> USE DEF Besides
<1>1. /\ sse' = FALSE /\ ticks' \in BOOLEAN /\ implicit' = implicit
      /\ head' \in Codes /\ (head # NoCode => head' # NoCode) /\ code' \in Codes
  BY DEF DoneEffect
<1>2. \/ UNCHANGED <<ends, closed, kill>>
      \/ ~closed /\ closed' = TRUE /\ ends' = ends + 1 /\ kill' \in {kill, "armed"}
  BY DEF DoneEffect
<1>3. TypeOK'
  <2>1. {closed', implicit', sse', watching', ticks', attended'} \subseteq BOOLEAN
    BY <1>1, <1>2 DEF IInv, TypeOK
  <2>2. {head', code'} \subseteq Codes /\ ends' \in Nat
    BY <1>1, <1>2 DEF IInv, TypeOK
  <2>3. kill' \in {"none", "armed", "cleared"}
    BY <1>2 DEF IInv, TypeOK
  <2> QED
    BY <2>1, <2>2, <2>3 DEF IInv, TypeOK
<1>4. EndedOnce'
  <2>1. ends \in Nat
    BY DEF IInv, TypeOK
  <2>2. CASE UNCHANGED <<ends, closed>>
    BY <2>2 DEF IInv, EndedOnce
  <2>3. CASE ~closed /\ closed' = TRUE /\ ends' = ends + 1
    <3>1. ends = 0
      BY <2>1, <2>3 DEF IInv, EndedOnce, Untouched
    <3> QED
      BY <2>3, <3>1 DEF EndedOnce
  <2> QED
    BY <1>2, <2>2, <2>3
<1>5. CloseHeard'
  BY <1>2 DEF IInv, CloseHeard
<1>6. TimersOnlyWhileOpen'
  BY <1>1, <1>2, <1>5 DEF IInv, TimersOnlyWhileOpen, CloseHeard
<1>7. Untouched' /\ Unserved' /\ Streaming'
  BY <1>1 DEF IInv, Untouched, Unserved, Streaming
<1> QED
  BY <1>3, <1>4, <1>5, <1>6, <1>7 DEF IInv

(* Every step keeps the invariant. *)
LEMMA NextIInv == IInv /\ [Next]_vars => IInv'
<1> SUFFICES ASSUME IInv, [Next]_vars PROVE IInv'
  OBVIOUS
<1> USE HttpAssumption
<1>t. TypeOK
  BY DEF IInv
<1>k. /\ left # "none" => kind # "other" /\ stage # "new"
      /\ stage \notin {"new", "over"} => kind # "other"
  BY DEF IInv, Untouched, Unserved
<1>1. ASSUME NEW c \in {404, 405}, NotServed(c) PROVE IInv'
  <2>1. Done(c, FALSE)
    BY <1>1 DEF NotServed
  <2>2. DoneEffect
    BY <2>1, <1>t DEF Done, Scheduled, Succeeds, Throws, HasData,
       EndResponse, DoneEffect, TypeOK, Codes, NoCode
  <2>3. Besides
    BY <1>1, <1>t, <1>k DEF NotServed, Besides, Still, client, TypeOK, Stages
  <2> QED
    BY <2>2, <2>3, DoneStep
<1>2. CASE AuthorizeDestroyed
  <2>1. Done(503, FALSE)
    BY <1>2 DEF AuthorizeDestroyed
  <2>2. DoneEffect
    BY <2>1, <1>t DEF Done, Scheduled, Succeeds, Throws, HasData,
       EndResponse, DoneEffect, TypeOK, Codes, NoCode
  <2>3. Besides
    BY <1>2, <1>t, <1>k DEF AuthorizeDestroyed, Besides, Still, client,
       TypeOK, Stages
  <2> QED
    BY <2>2, <2>3, DoneStep
<1>3. CASE Rejected
  <2>1. Done(401, FALSE)
    BY <1>3 DEF Rejected
  <2>2. DoneEffect
    BY <2>1, <1>t DEF Done, Scheduled, Succeeds, Throws, HasData,
       EndResponse, DoneEffect, TypeOK, Codes, NoCode
  <2>3. Besides
    BY <1>3, <1>t, <1>k DEF Rejected, Besides, Still, client, TypeOK, Stages
  <2> QED
    BY <2>2, <2>3, DoneStep
<1>4. CASE Invalid
  <2>1. Done(400, FALSE)
    BY <1>4 DEF Invalid
  <2>2. DoneEffect
    BY <2>1, <1>t DEF Done, Scheduled, Succeeds, Throws, HasData,
       EndResponse, DoneEffect, TypeOK, Codes, NoCode
  <2>3. Besides
    BY <1>4, <1>t, <1>k DEF Invalid, Besides, Still, client, TypeOK, Stages
  <2> QED
    BY <2>2, <2>3, DoneStep
<1>5. CASE ClientError
  <2>1. Done(500, FALSE)
    BY <1>5 DEF ClientError
  <2>2. DoneEffect
    BY <2>1, <1>t DEF Done, Scheduled, Succeeds, Throws, HasData,
       EndResponse, DoneEffect, TypeOK, Codes, NoCode
  <2>3. Besides
    BY <1>5, <1>t, <1>k DEF ClientError, Besides, Still, client, TypeOK, Stages
  <2> QED
    BY <2>2, <2>3, DoneStep
<1>6. CASE Published
  <2>1. Done(200, FALSE)
    BY <1>6 DEF Published
  <2>2. DoneEffect
    BY <2>1, <1>t DEF Done, Scheduled, Succeeds, Throws, HasData,
       EndResponse, DoneEffect, TypeOK, Codes, NoCode
  <2>3. Besides
    BY <1>6, <1>t, <1>k DEF Published, Besides, Still, client, TypeOK, Stages
  <2> QED
    BY <2>2, <2>3, DoneStep
<1>7. CASE PublishError
  <2>1. Done(500, FALSE)
    BY <1>7 DEF PublishError
  <2>2. DoneEffect
    BY <2>1, <1>t DEF Done, Scheduled, Succeeds, Throws, HasData,
       EndResponse, DoneEffect, TypeOK, Codes, NoCode
  <2>3. Besides
    BY <1>7, <1>t, <1>k DEF PublishError, Besides, Still, client, TypeOK, Stages
  <2> QED
    BY <2>2, <2>3, DoneStep
<1>8. CASE SubscribeError
  <2>1. Done(500, FALSE)
    BY <1>8 DEF SubscribeError
  <2>2. DoneEffect
    BY <2>1, <1>t DEF Done, Scheduled, Succeeds, Throws, HasData,
       EndResponse, DoneEffect, TypeOK, Codes, NoCode
  <2>3. Besides
    BY <1>8, <1>t, <1>k DEF SubscribeError, Besides, Still, client, TypeOK,
       Stages
  <2> QED
    BY <2>2, <2>3, DoneStep
<1>9. CASE LeftClose
  <2>1. Done(503, FALSE)
    BY <1>9 DEF LeftClose
  <2>2. DoneEffect
    BY <2>1, <1>t DEF Done, Scheduled, Succeeds, Throws, HasData,
       EndResponse, DoneEffect, TypeOK, Codes, NoCode
  <2>3. Besides
    BY <1>9, <1>t, <1>k DEF LeftClose, Besides, Still, client, TypeOK, Stages
  <2> QED
    BY <2>2, <2>3, DoneStep
<1>10. CASE ServerDestroy
  <2>1. Done(503, FALSE)
    BY <1>10 DEF ServerDestroy
  <2>2. DoneEffect
    BY <2>1, <1>t DEF Done, Scheduled, Succeeds, Throws, HasData,
       EndResponse, DoneEffect, TypeOK, Codes, NoCode
  <2>3. Besides
    BY <1>10, <1>t, <1>k DEF ServerDestroy, Besides, Still, client, TypeOK,
       Stages
  <2> QED
    BY <2>2, <2>3, DoneStep
<1>11. CASE Preflight
  BY <1>11 DEF Preflight, Still, client, IInv, EndedOnce, TimersOnlyWhileOpen,
     Untouched, Unserved, Streaming, CloseHeard, TypeOK, Stages, Codes
<1>12. CASE Request
  BY <1>12 DEF Request, Still, client, response, IInv, EndedOnce,
     TimersOnlyWhileOpen, Untouched, Unserved, Streaming, CloseHeard, TypeOK,
     Stages, Codes
<1>13. CASE Authorized
  BY <1>13 DEF Authorized, client, response, IInv, EndedOnce,
     TimersOnlyWhileOpen, Untouched, Unserved, Streaming, CloseHeard, TypeOK,
     Stages, Codes
<1>14. CASE Ready
  BY <1>14 DEF Ready, Still, client, response, IInv, EndedOnce,
     TimersOnlyWhileOpen, Untouched, Unserved, Streaming, CloseHeard, TypeOK,
     Stages, Codes
<1>15. CASE BodyEnd
  BY <1>15 DEF BodyEnd, response, pair, IInv, EndedOnce, TimersOnlyWhileOpen,
     Untouched, Unserved, Streaming, CloseHeard, TypeOK, Stages, Codes
<1>16. CASE Subscribed
  BY <1>16 DEF Subscribed, response, client, pair, IInv, EndedOnce,
     TimersOnlyWhileOpen, Untouched, Unserved, Streaming, CloseHeard, TypeOK,
     Stages, Codes
<1>17. CASE SocketClose
  BY <1>17 DEF SocketClose, response, pair, IInv, EndedOnce,
     TimersOnlyWhileOpen, Untouched, Unserved, Streaming, CloseHeard, TypeOK,
     Stages, Codes
<1>18. CASE ResponseClose
  <2>1. TypeOK'
    BY <1>18, <1>t DEF ResponseClose, vars, TypeOK
  <2>2. EndedOnce' /\ Untouched' /\ Unserved'
    BY <1>18, <1>k DEF ResponseClose, vars, IInv, EndedOnce, Untouched,
       Unserved
  <2>3. TimersOnlyWhileOpen'
    BY <1>18, <1>t DEF ResponseClose, vars, IInv, TimersOnlyWhileOpen,
       Streaming, TypeOK
  <2>4. Streaming' /\ CloseHeard'
    BY <1>18 DEF ResponseClose, vars, IInv, Streaming, CloseHeard,
       TimersOnlyWhileOpen
  <2> QED
    BY <2>1, <2>2, <2>3, <2>4 DEF IInv
<1>19. CASE Kill
  BY <1>19 DEF Kill, pair, IInv, EndedOnce, TimersOnlyWhileOpen, Untouched,
     Unserved, Streaming, CloseHeard, TypeOK, Stages, Codes
<1>20. CASE Tick
  <2>1. TypeOK'
    BY <1>20, <1>t DEF Tick, response, client, TypeOK
  <2>2. EndedOnce' /\ Untouched' /\ Unserved'
    BY <1>20, <1>k DEF Tick, response, client, IInv, EndedOnce, Untouched,
       Unserved
  <2>3. TimersOnlyWhileOpen'
    BY <1>20, <1>t DEF Tick, response, client, IInv, TimersOnlyWhileOpen,
       Streaming, TypeOK
  <2>4. Streaming' /\ CloseHeard'
    BY <1>20 DEF Tick, response, client, IInv, Streaming, CloseHeard,
       TimersOnlyWhileOpen
  <2> QED
    BY <2>1, <2>2, <2>3, <2>4 DEF IInv
<1>21. CASE SubscribedAll
  <2>1. CASE Succeeds
    BY <1>21, <2>1 DEF SubscribedAll, Succeeds, client, NoCode, IInv,
       EndedOnce, TimersOnlyWhileOpen, Untouched, Unserved, Streaming,
       CloseHeard, TypeOK, Stages, Codes
  <2>2. CASE ~Succeeds
    <3>1. Done(200, TRUE)
      BY <1>21, <2>2 DEF SubscribedAll
    <3>2. DoneEffect
      BY <3>1, <1>t DEF Done, Scheduled, Succeeds, Throws, HasData,
         EndResponse, DoneEffect, TypeOK, Codes, NoCode
    <3>3. Besides
      BY <1>21, <2>2, <1>t, <1>k DEF SubscribedAll, Besides, client, TypeOK,
         Stages
    <3> QED
      BY <3>2, <3>3, DoneStep
  <2> QED
    BY <2>1, <2>2
<1>22. CASE Message
  <2>1. CASE ends > 0
    <3>1. Done(500, FALSE)
      BY <1>22, <2>1 DEF Message
    <3>2. DoneEffect
      BY <3>1, <1>t DEF Done, Scheduled, Succeeds, Throws, HasData,
         EndResponse, DoneEffect, TypeOK, Codes, NoCode
    <3>3. Besides
      BY <1>22, <2>1, <1>t, <1>k DEF Message, Besides, Still, client, TypeOK,
         Stages
    <3> QED
      BY <3>2, <3>3, DoneStep
  <2>2. CASE ~(ends > 0)
    BY <1>22, <2>2 DEF Message, Still, client, IInv, EndedOnce,
       TimersOnlyWhileOpen, Untouched, Unserved, Streaming, CloseHeard,
       TypeOK, Stages, Codes
  <2> QED
    BY <2>1, <2>2
<1>23. CASE RequestError
  <2>1. CASE left = "open"
    <3>1. Done(500, FALSE)
      BY <1>23, <2>1 DEF RequestError
    <3>2. DoneEffect
      BY <3>1, <1>t DEF Done, Scheduled, Succeeds, Throws, HasData,
         EndResponse, DoneEffect, TypeOK, Codes, NoCode
    <3>3. Besides
      BY <1>23, <2>1, <1>t, <1>k DEF RequestError, Besides, TypeOK, Stages
    <3> QED
      BY <3>2, <3>3, DoneStep
  <2>2. CASE left # "open"
    BY <1>23, <2>2 DEF RequestError, response, IInv, EndedOnce,
       TimersOnlyWhileOpen, Untouched, Unserved, Streaming, CloseHeard,
       TypeOK, Stages, Codes
  <2> QED
    BY <2>1, <2>2
<1>24. CASE UNCHANGED vars
  BY <1>24 DEF vars, response, pair, client, IInv, EndedOnce,
     TimersOnlyWhileOpen, Untouched, Unserved, Streaming, CloseHeard, TypeOK,
     Stages, Codes
<1> QED
  BY <1>1, <1>2, <1>3, <1>4, <1>5, <1>6, <1>7, <1>8, <1>9, <1>10, <1>11, <1>12,
     <1>13, <1>14, <1>15, <1>16, <1>17, <1>18, <1>19, <1>20, <1>21, <1>22,
     <1>23, <1>24 DEF Next

(* The inductive invariant of a request. *)
THEOREM RequestInvariance == Spec => []IInv
  BY InitIInv, NextIInv, PTL DEF Spec

(* However many actors call done, and in whatever order, the response ends *)
(* once (http.js 231-310).                                                 *)
THEOREM RequestEndedOnce == Spec => []EndedOnce
<1>1. IInv => EndedOnce
  BY DEF IInv
<1> QED
  BY <1>1, RequestInvariance, PTL

(* The interval of keep-alive comments and the timeout after a 503 do not  *)
(* outlive the response (http.js 216-262, 532-548).                        *)
THEOREM RequestTimers == Spec => []TimersOnlyWhileOpen
<1>1. IInv => TimersOnlyWhileOpen
  BY DEF IInv
<1> QED
  BY <1>1, RequestInvariance, PTL
=============================================================================
