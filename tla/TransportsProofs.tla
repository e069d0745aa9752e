-------------------------- MODULE TransportsProofs --------------------------
(***************************************************************************)
(* Proofs about the transports: the pair of in-memory streams keeps its    *)
(* back-pressure and its callbacks and is a channel, for every mark and    *)
(* any number of chunks and errors; the streams of HTTP/2 are counted and  *)
(* their ends told, for any sessions, streams and limit, with and without  *)
(* an await before the duplex is made.                                     *)
(*                                                                         *)
(* Each is proved correct by itself; the specification that holds both     *)
(* implies the one of each.                                                *)
(***************************************************************************)
EXTENDS Transports, FiniteSetTheorems, TLAPS

MarkIsHeld == \A s \in Sides : Len(buf[s]) = Mark => s \in held

(* Each side is the other of the other, and there are no more. *)
LEMMA TwoSides ==
  /\ Other \in [Sides -> Sides]
  /\ \A s \in Sides : Other[s] # s /\ Other[Other[s]] = s
  /\ \A s, x \in Sides : x = s \/ x = Other[s]
  BY DEF Sides, Other

(* The parts of the invariant, one by one. *)
LEMMA IInvParts ==
  IInv <=> /\ TypeOK /\ OneCallback /\ BackPressure /\ ErrorsCrossOnce
           /\ InTransit /\ EndLast /\ MarkIsHeld
  BY DEF IInv, MarkIsHeld

(* Taking the first of a queue, and adding a last. *)
LEMMA QueueFacts ==
  ASSUME NEW q \in Seq(Nat), q # <<>>
  PROVE  /\ Len(q) \in Nat /\ Len(q) > 0
         /\ Head(q) \in Nat /\ Head(q) = q[1]
         /\ Tail(q) \in Seq(Nat) /\ Len(Tail(q)) = Len(q) - 1
         /\ \A i \in 1..Len(q) - 1 : Tail(q)[i] = q[i + 1]
  OBVIOUS

(* What pushing to the end of a queue does. *)
LEMMA PushFacts ==
  ASSUME NEW q \in Seq(Nat), NEW e \in Nat
  PROVE  /\ Append(q, e) \in Seq(Nat) /\ Len(Append(q, e)) = Len(q) + 1 /\ Len(q) \in Nat
         /\ Append(q, e)[Len(q) + 1] = e
         /\ \A i \in 1..Len(q) : Append(q, e)[i] = q[i]
  OBVIOUS

(* What is on its way to x depends on four values only. *)
LEMMA SameTransit ==
  ASSUME NEW x \in Sides, InTransitTo(x),
         got'[x] = got[x], buf'[x] = buf[x],
         out'[Other[x]] = out[Other[x]], sent'[Other[x]] = sent[Other[x]]
  PROVE  InTransitTo(x)'
  BY DEF InTransitTo

(* The invariant holds in the initial state. *)
LEMMA InitIInv == Init => IInv
<1> SUFFICES ASSUME Init PROVE IInv
  OBVIOUS
<1> USE InMemAssumption, TwoSides DEF Init
<1>1. TypeOK
  <2>1. /\ sent \in [Sides -> Nat] /\ ticks \in [Sides -> Nat]
        /\ raised \in [Sides -> Nat] /\ crossing \in [Sides -> Nat] /\ heard \in [Sides -> Nat]
    OBVIOUS
  <2>2. /\ out \in [Sides -> Seq(Nat)] /\ buf \in [Sides -> Seq(Nat)]
        /\ got \in [Sides -> Seq(Nat)]
    OBVIOUS
  <2>3. /\ fin \in [Sides -> {"open", "ending", "final"}]
        /\ eof \in [Sides -> {"open", "pushed", "end"}]
        /\ life \in [Sides -> {"up", "destroyed", "closed"}]
    OBVIOUS
  <2> QED
    BY <2>1, <2>2, <2>3 DEF TypeOK
<1>2. OneCallback /\ BackPressure /\ ErrorsCrossOnce /\ MarkIsHeld
  BY DEF OneCallback, BackPressure, ErrorsCrossOnce, MarkIsHeld
<1>3. InTransit /\ EndLast
  BY DEF InTransit, InTransitTo, EndLast, EndLastOf
<1> QED
  BY <1>1, <1>2, <1>3, IInvParts

(* Every action keeps the types.                                           *)
LEMMA NextTypeOK == IInv /\ [Next]_vars => TypeOK'
<1> SUFFICES ASSUME TypeOK, [Next]_vars PROVE TypeOK'
  BY IInvParts
<1> USE TwoSides
<1>t1. sent \in [Sides -> Nat]
  BY DEF TypeOK
<1>t2. out \in [Sides -> Seq(Nat)]
  BY DEF TypeOK
<1>t3. buf \in [Sides -> Seq(Nat)]
  BY DEF TypeOK
<1>t4. got \in [Sides -> Seq(Nat)]
  BY DEF TypeOK
<1>t5. ticks \in [Sides -> Nat]
  BY DEF TypeOK
<1>t6. raised \in [Sides -> Nat] /\ crossing \in [Sides -> Nat] /\ heard \in [Sides -> Nat]
  BY DEF TypeOK
<1>t7. writing \subseteq Sides /\ held \subseteq Sides /\ asked \subseteq Sides
  BY DEF TypeOK
<1>1. ASSUME NEW s \in Sides, Write(s) PROVE TypeOK'
  <2>1. sent' \in [Sides -> Nat]
    BY <1>1, <1>t1 DEF Write
  <2>2. Append(out[s], sent[s] + 1) \in Seq(Nat)
    BY <1>t1, <1>t2, PushFacts
  <2>3. out' \in [Sides -> Seq(Nat)]
    BY <1>1, <2>2, <1>t2 DEF Write
  <2> QED
    BY <1>1, <2>1, <2>3 DEF TypeOK, Write, ends, errors
<1>2. ASSUME NEW s \in Sides, End(s) PROVE TypeOK'
  BY <1>2 DEF End, TypeOK, ends, errors
<1>3. ASSUME NEW s \in Sides, WriteCall(s) PROVE TypeOK'
  <2>1. Tail(out[s]) \in Seq(Nat) /\ Head(out[s]) \in Nat
    BY <1>3, <1>t2, QueueFacts DEF WriteCall
  <2>2. Pushed(s) \in Seq(Nat)
    BY <2>1, <1>t3, PushFacts DEF Pushed
  <2>3. out' \in [Sides -> Seq(Nat)] /\ buf' \in [Sides -> Seq(Nat)]
    BY <1>3, <2>1, <2>2, <1>t2, <1>t3 DEF WriteCall
  <2>4. ticks' \in [Sides -> Nat]
    BY <1>3, <1>t5 DEF WriteCall
  <2>5. writing' \subseteq Sides /\ held' \subseteq Sides /\ asked' \subseteq Sides
    BY <1>3, <1>t7 DEF WriteCall
  <2> QED
    BY <1>3, <2>3, <2>4, <2>5 DEF TypeOK, WriteCall, ends, errors
<1>4. ASSUME NEW s \in Sides, WriteBack(s) PROVE TypeOK'
  <2>1. ticks' \in [Sides -> Nat]
    BY <1>4, <1>t5 DEF WriteBack
  <2> QED
    BY <1>4, <2>1 DEF TypeOK, WriteBack, ends, errors
<1>5. ASSUME NEW s \in Sides, ReadCall(s) PROVE TypeOK'
  <2>1. ticks' \in [Sides -> Nat]
    BY <1>5, <1>t5 DEF ReadCall
  <2>2. held' \subseteq Sides /\ asked' \subseteq Sides
    BY <1>5, <1>t7 DEF ReadCall
  <2> QED
    BY <1>5, <2>1, <2>2 DEF TypeOK, ReadCall, ends, errors
<1>6. ASSUME NEW s \in Sides, Read(s) PROVE TypeOK'
  <2>1. Tail(buf[s]) \in Seq(Nat) /\ Append(got[s], Head(buf[s])) \in Seq(Nat)
    BY <1>6, <1>t3, <1>t4, QueueFacts, PushFacts DEF Read
  <2>2. got' \in [Sides -> Seq(Nat)] /\ buf' \in [Sides -> Seq(Nat)]
    BY <1>6, <2>1, <1>t3, <1>t4 DEF Read
  <2> QED
    BY <1>6, <2>2 DEF TypeOK, Read, ends, errors
<1>7. ASSUME NEW s \in Sides, Final(s) PROVE TypeOK'
  BY <1>7 DEF Final, TypeOK, ends, errors
<1>8. ASSUME NEW s \in Sides, EndRead(s) PROVE TypeOK'
  BY <1>8 DEF EndRead, TypeOK, errors, ends
<1>9. ASSUME NEW s \in Sides, Close(s) PROVE TypeOK'
  BY <1>9 DEF Close, Destroyed, TypeOK, flow, errors
<1>10. ASSUME NEW s \in Sides, Raise(s) PROVE TypeOK'
  <2>1. raised' \in [Sides -> Nat] /\ crossing' \in [Sides -> Nat]
    BY <1>10, <1>t6 DEF Raise
  <2> QED
    BY <1>10, <2>1 DEF TypeOK, Raise, flow, ends
<1>11. ASSUME NEW s \in Sides, Hear(s) PROVE TypeOK'
  <2>1. crossing' \in [Sides -> Nat] /\ heard' \in [Sides -> Nat]
    BY <1>11, <1>t6 DEF Hear
  <2> QED
    BY <1>11, <2>1 DEF TypeOK, Hear, flow, ends
<1>12. CASE DestroyLeft
  BY <1>12 DEF DestroyLeft, Destroyed, TypeOK, flow, errors
<1>13. CASE DestroyRight(TRUE)
  BY <1>13 DEF DestroyRight, Destroyed, TypeOK, flow, errors
<1>14. CASE DestroyRight(FALSE)
  BY <1>14 DEF DestroyRight, Destroyed, TypeOK, flow, errors
<1>15. CASE WaitEnds
  BY <1>15 DEF WaitEnds, Destroyed, TypeOK, flow, errors
<1>16. CASE UNCHANGED vars
  BY <1>16 DEF TypeOK, vars, flow, ends, errors
<1> QED
  BY <1>1, <1>2, <1>3, <1>4, <1>5, <1>6, <1>7, <1>8, <1>9, <1>10, <1>11, <1>12, <1>13,
     <1>14, <1>15, <1>16 DEF Next

(* A callback moves from the held ones to the ticks and from there back.   *)
LEMMA NextOneCallback == IInv /\ [Next]_vars => OneCallback'
<1> SUFFICES ASSUME ticks \in [Sides -> Nat], OneCallback, [Next]_vars PROVE OneCallback'
  BY IInvParts DEF TypeOK
<1> USE InMemAssumption, TwoSides DEF Up, OneCallback
<1>1. ASSUME NEW s \in Sides, Write(s) PROVE OneCallback'
  BY <1>1 DEF Write, ends, errors
<1>2. ASSUME NEW s \in Sides, End(s) PROVE OneCallback'
  BY <1>2 DEF End, ends, errors
<1>3. ASSUME NEW s \in Sides, WriteCall(s) PROVE OneCallback'
  <2> SUFFICES ASSUME NEW x \in Sides
               PROVE ticks'[x] + (IF Other[x] \in held' THEN 1 ELSE 0) = IF x \in writing' THEN 1 ELSE 0
    BY DEF OneCallback
  <2>1. ticks[s] = 0 /\ Other[s] \notin held
    BY <1>3 DEF WriteCall
  <2>2. CASE x = s
    <3>1. CASE Len(Pushed(s)) < Mark
      BY <1>3, <2>1, <2>2, <3>1 DEF WriteCall
    <3>2. CASE ~(Len(Pushed(s)) < Mark)
      BY <1>3, <2>1, <2>2, <3>2 DEF WriteCall
    <3> QED
      BY <3>1, <3>2
  <2>3. CASE x # s
    <3>1. Other[x] # Other[s]
      BY <2>3
    <3>2. ticks'[x] = ticks[x] /\ (Other[x] \in held' <=> Other[x] \in held)
          /\ (x \in writing' <=> x \in writing)
      BY <1>3, <2>3, <3>1 DEF WriteCall
    <3> QED
      BY <3>2
  <2> QED
    BY <2>2, <2>3
<1>4. ASSUME NEW s \in Sides, WriteBack(s) PROVE OneCallback'
  <2> SUFFICES ASSUME NEW x \in Sides
               PROVE ticks'[x] + (IF Other[x] \in held' THEN 1 ELSE 0) = IF x \in writing' THEN 1 ELSE 0
    BY DEF OneCallback
  <2>1. ticks[s] = 1 /\ Other[s] \notin held
    BY <1>4 DEF WriteBack
  <2>2. CASE x = s
    BY <1>4, <2>1, <2>2 DEF WriteBack
  <2>3. CASE x # s
    BY <1>4, <2>3 DEF WriteBack
  <2> QED
    BY <2>2, <2>3
<1>5. ASSUME NEW s \in Sides, ReadCall(s) PROVE OneCallback'
  <2> SUFFICES ASSUME NEW x \in Sides
               PROVE ticks'[x] + (IF Other[x] \in held' THEN 1 ELSE 0) = IF x \in writing' THEN 1 ELSE 0
    BY DEF OneCallback
  <2>1. CASE x = Other[s]
    <3>1. Other[x] = s
      BY <2>1
    <3> QED
      BY <1>5, <2>1, <3>1 DEF ReadCall
  <2>2. CASE x # Other[s]
    <3>1. Other[x] # s
      BY <2>2
    <3>2. ticks'[x] = ticks[x] /\ (Other[x] \in held' <=> Other[x] \in held)
      BY <1>5, <2>2, <3>1 DEF ReadCall
    <3> QED
      BY <1>5, <3>2 DEF ReadCall
  <2> QED
    BY <2>1, <2>2
<1>6. ASSUME NEW s \in Sides, Read(s) PROVE OneCallback'
  BY <1>6 DEF Read, ends, errors
<1>7. ASSUME NEW s \in Sides, Final(s) PROVE OneCallback'
  BY <1>7 DEF Final, ends, errors
<1>8. ASSUME NEW s \in Sides, EndRead(s) PROVE OneCallback'
  BY <1>8 DEF EndRead, errors, ends
<1>9. ASSUME NEW s \in Sides, Close(s) PROVE OneCallback'
  BY <1>9 DEF Close, Destroyed, flow, errors
<1>10. ASSUME NEW s \in Sides, Raise(s) PROVE OneCallback'
  BY <1>10 DEF Raise, flow, ends
<1>11. ASSUME NEW s \in Sides, Hear(s) PROVE OneCallback'
  BY <1>11 DEF Hear, flow, ends
<1>12. CASE DestroyLeft
  BY <1>12 DEF DestroyLeft, Destroyed, flow, errors
<1>13. CASE DestroyRight(TRUE)
  BY <1>13 DEF DestroyRight, Destroyed, flow, errors
<1>14. CASE DestroyRight(FALSE)
  BY <1>14 DEF DestroyRight, Destroyed, flow, errors
<1>15. CASE WaitEnds
  BY <1>15 DEF WaitEnds, Destroyed, flow, errors
<1>16. CASE UNCHANGED vars
  BY <1>16 DEF vars, flow, ends, errors
<1> QED
  BY <1>1, <1>2, <1>3, <1>4, <1>5, <1>6, <1>7, <1>8, <1>9, <1>10, <1>11, <1>12, <1>13,
     <1>14, <1>15, <1>16 DEF Next

(* An error is counted once on each side.                                  *)
LEMMA NextErrorsCrossOnce == IInv /\ [Next]_vars => ErrorsCrossOnce'
<1> SUFFICES ASSUME raised \in [Sides -> Nat], crossing \in [Sides -> Nat],
                    heard \in [Sides -> Nat], ErrorsCrossOnce, [Next]_vars
             PROVE ErrorsCrossOnce'
  BY IInvParts DEF TypeOK
<1> USE InMemAssumption, TwoSides DEF Up, ErrorsCrossOnce
<1>1. ASSUME NEW s \in Sides, Write(s) PROVE ErrorsCrossOnce'
  BY <1>1 DEF Write, ends, errors
<1>2. ASSUME NEW s \in Sides, End(s) PROVE ErrorsCrossOnce'
  BY <1>2 DEF End, ends, errors
<1>3. ASSUME NEW s \in Sides, WriteCall(s) PROVE ErrorsCrossOnce'
  BY <1>3 DEF WriteCall, Pushed, ends, errors
<1>4. ASSUME NEW s \in Sides, WriteBack(s) PROVE ErrorsCrossOnce'
  BY <1>4 DEF WriteBack, ends, errors
<1>5. ASSUME NEW s \in Sides, ReadCall(s) PROVE ErrorsCrossOnce'
  BY <1>5 DEF ReadCall, ends, errors
<1>6. ASSUME NEW s \in Sides, Read(s) PROVE ErrorsCrossOnce'
  BY <1>6 DEF Read, ends, errors
<1>7. ASSUME NEW s \in Sides, Final(s) PROVE ErrorsCrossOnce'
  BY <1>7 DEF Final, ends, errors
<1>8. ASSUME NEW s \in Sides, EndRead(s) PROVE ErrorsCrossOnce'
  BY <1>8 DEF EndRead, errors, ends
<1>9. ASSUME NEW s \in Sides, Close(s) PROVE ErrorsCrossOnce'
  BY <1>9 DEF Close, Destroyed, flow, errors
<1>10. ASSUME NEW s \in Sides, Raise(s) PROVE ErrorsCrossOnce'
  <2> SUFFICES ASSUME NEW x \in Sides PROVE heard'[x] + crossing'[x] = raised'[Other[x]]
    BY DEF ErrorsCrossOnce
  <2>1. CASE x = Other[s]
    <3>1. Other[x] = s
      BY <2>1
    <3> QED
      BY <1>10, <2>1, <3>1 DEF Raise
  <2>2. CASE x # Other[s]
    <3>1. Other[x] # s
      BY <2>2
    <3> QED
      BY <1>10, <2>2, <3>1 DEF Raise
  <2> QED
    BY <2>1, <2>2
<1>11. ASSUME NEW s \in Sides, Hear(s) PROVE ErrorsCrossOnce'
  BY <1>11 DEF Hear, flow, ends
<1>12. CASE DestroyLeft
  BY <1>12 DEF DestroyLeft, Destroyed, flow, errors
<1>13. CASE DestroyRight(TRUE)
  BY <1>13 DEF DestroyRight, Destroyed, flow, errors
<1>14. CASE DestroyRight(FALSE)
  BY <1>14 DEF DestroyRight, Destroyed, flow, errors
<1>15. CASE WaitEnds
  BY <1>15 DEF WaitEnds, Destroyed, flow, errors
<1>16. CASE UNCHANGED vars
  BY <1>16 DEF vars, flow, ends, errors
<1> QED
  BY <1>1, <1>2, <1>3, <1>4, <1>5, <1>6, <1>7, <1>8, <1>9, <1>10, <1>11, <1>12, <1>13,
     <1>14, <1>15, <1>16 DEF Next

(* A push that reaches the mark is held until the reader asks.             *)
LEMMA NextMarkIsHeld == IInv /\ [Next]_vars => MarkIsHeld'
<1> SUFFICES ASSUME buf \in [Sides -> Seq(Nat)], BackPressure, MarkIsHeld, [Next]_vars
             PROVE MarkIsHeld'
  BY IInvParts DEF TypeOK
<1> USE InMemAssumption, TwoSides DEF Up, BackPressure, MarkIsHeld
<1>1. ASSUME NEW s \in Sides, Write(s) PROVE MarkIsHeld'
  BY <1>1 DEF Write, ends, errors
<1>2. ASSUME NEW s \in Sides, End(s) PROVE MarkIsHeld'
  BY <1>2 DEF End, ends, errors
<1>3. ASSUME NEW s \in Sides, WriteCall(s) PROVE MarkIsHeld'
  <2> SUFFICES ASSUME NEW x \in Sides, Len(buf'[x]) = Mark PROVE x \in held'
    BY DEF MarkIsHeld
  <2>1. CASE x = Other[s]
    <3>1. buf'[x] = Pushed(s)
      BY <1>3, <2>1 DEF WriteCall
    <3> QED
      BY <1>3, <2>1, <3>1 DEF WriteCall
  <2>2. CASE x # Other[s]
    <3>1. buf'[x] = buf[x]
      BY <1>3, <2>2 DEF WriteCall
    <3> QED
      BY <1>3, <3>1 DEF WriteCall
  <2> QED
    BY <2>1, <2>2
<1>4. ASSUME NEW s \in Sides, WriteBack(s) PROVE MarkIsHeld'
  BY <1>4 DEF WriteBack, ends, errors
<1>5. ASSUME NEW s \in Sides, ReadCall(s) PROVE MarkIsHeld'
  BY <1>5 DEF ReadCall, ends, errors
<1>6. ASSUME NEW s \in Sides, Read(s) PROVE MarkIsHeld'
  <2> SUFFICES ASSUME NEW x \in Sides, Len(buf'[x]) = Mark PROVE x \in held'
    BY DEF MarkIsHeld
  <2>1. CASE x = s
    <3>1. buf'[x] = Tail(buf[s]) /\ buf[s] # <<>>
      BY <1>6, <2>1 DEF Read
    <3>2. Len(buf'[x]) = Len(buf[s]) - 1
      BY <3>1
    <3>3. Len(buf[s]) <= Mark
      BY DEF BackPressure
    <3> QED
      BY <3>2, <3>3
  <2>2. CASE x # s
    BY <1>6, <2>2 DEF Read
  <2> QED
    BY <2>1, <2>2
<1>7. ASSUME NEW s \in Sides, Final(s) PROVE MarkIsHeld'
  BY <1>7 DEF Final, ends, errors
<1>8. ASSUME NEW s \in Sides, EndRead(s) PROVE MarkIsHeld'
  BY <1>8 DEF EndRead, errors, ends
<1>9. ASSUME NEW s \in Sides, Close(s) PROVE MarkIsHeld'
  BY <1>9 DEF Close, Destroyed, flow, errors
<1>10. ASSUME NEW s \in Sides, Raise(s) PROVE MarkIsHeld'
  BY <1>10 DEF Raise, flow, ends
<1>11. ASSUME NEW s \in Sides, Hear(s) PROVE MarkIsHeld'
  BY <1>11 DEF Hear, flow, ends
<1>12. CASE DestroyLeft
  BY <1>12 DEF DestroyLeft, Destroyed, flow, errors
<1>13. CASE DestroyRight(TRUE)
  BY <1>13 DEF DestroyRight, Destroyed, flow, errors
<1>14. CASE DestroyRight(FALSE)
  BY <1>14 DEF DestroyRight, Destroyed, flow, errors
<1>15. CASE WaitEnds
  BY <1>15 DEF WaitEnds, Destroyed, flow, errors
<1>16. CASE UNCHANGED vars
  BY <1>16 DEF vars, flow, ends, errors
<1> QED
  BY <1>1, <1>2, <1>3, <1>4, <1>5, <1>6, <1>7, <1>8, <1>9, <1>10, <1>11, <1>12, <1>13,
     <1>14, <1>15, <1>16 DEF Next

(* A side is pushed to only when it holds no callback, so below its mark.  *)
LEMMA NextBackPressure == IInv /\ [Next]_vars => BackPressure'
<1> SUFFICES ASSUME buf \in [Sides -> Seq(Nat)], out \in [Sides -> Seq(Nat)],
                    ticks \in [Sides -> Nat], OneCallback, MarkIsHeld, BackPressure,
                    [Next]_vars PROVE BackPressure'
  BY IInvParts DEF TypeOK
<1> USE InMemAssumption, TwoSides DEF Up, OneCallback, MarkIsHeld, BackPressure
<1>1. ASSUME NEW s \in Sides, Write(s) PROVE BackPressure'
  BY <1>1 DEF Write, ends, errors
<1>2. ASSUME NEW s \in Sides, End(s) PROVE BackPressure'
  BY <1>2 DEF End, ends, errors
<1>3. ASSUME NEW s \in Sides, WriteCall(s) PROVE BackPressure'
  <2> SUFFICES ASSUME NEW x \in Sides PROVE Len(buf'[x]) <= Mark
    BY DEF BackPressure
  <2>1. CASE x = Other[s]
    <3>1. Other[s] \notin held
      BY <1>3 DEF WriteCall
    <3>2. Len(buf[x]) < Mark
      BY <2>1, <3>1
    <3>3. buf'[x] = buf[x] \/ buf'[x] = Append(buf[x], Head(out[s]))
      BY <1>3, <2>1 DEF WriteCall, Pushed
    <3>4. Len(buf'[x]) <= Len(buf[x]) + 1
      BY <3>3
    <3> QED
      BY <3>2, <3>4
  <2>2. CASE x # Other[s]
    BY <1>3, <2>2 DEF WriteCall
  <2> QED
    BY <2>1, <2>2
<1>4. ASSUME NEW s \in Sides, WriteBack(s) PROVE BackPressure'
  BY <1>4 DEF WriteBack, ends, errors
<1>5. ASSUME NEW s \in Sides, ReadCall(s) PROVE BackPressure'
  BY <1>5 DEF ReadCall, ends, errors
<1>6. ASSUME NEW s \in Sides, Read(s) PROVE BackPressure'
  BY <1>6 DEF Read, ends, errors
<1>7. ASSUME NEW s \in Sides, Final(s) PROVE BackPressure'
  BY <1>7 DEF Final, ends, errors
<1>8. ASSUME NEW s \in Sides, EndRead(s) PROVE BackPressure'
  BY <1>8 DEF EndRead, errors, ends
<1>9. ASSUME NEW s \in Sides, Close(s) PROVE BackPressure'
  BY <1>9 DEF Close, Destroyed, flow, errors
<1>10. ASSUME NEW s \in Sides, Raise(s) PROVE BackPressure'
  BY <1>10 DEF Raise, flow, ends
<1>11. ASSUME NEW s \in Sides, Hear(s) PROVE BackPressure'
  BY <1>11 DEF Hear, flow, ends
<1>12. CASE DestroyLeft
  BY <1>12 DEF DestroyLeft, Destroyed, flow, errors
<1>13. CASE DestroyRight(TRUE)
  BY <1>13 DEF DestroyRight, Destroyed, flow, errors
<1>14. CASE DestroyRight(FALSE)
  BY <1>14 DEF DestroyRight, Destroyed, flow, errors
<1>15. CASE WaitEnds
  BY <1>15 DEF WaitEnds, Destroyed, flow, errors
<1>16. CASE UNCHANGED vars
  BY <1>16 DEF vars, flow, ends, errors
<1> QED
  BY <1>1, <1>2, <1>3, <1>4, <1>5, <1>6, <1>7, <1>8, <1>9, <1>10, <1>11, <1>12, <1>13,
     <1>14, <1>15, <1>16 DEF Next

(* What leaves one of the three queues enters the next.                    *)
LEMMA NextInTransit == IInv /\ [Next]_vars => InTransit'
<1> SUFFICES ASSUME sent \in [Sides -> Nat], out \in [Sides -> Seq(Nat)],
                    buf \in [Sides -> Seq(Nat)], got \in [Sides -> Seq(Nat)],
                    life \in [Sides -> {"up", "destroyed", "closed"}], InTransit,
                    [Next]_vars PROVE InTransit'
  BY IInvParts DEF TypeOK
<1> USE InMemAssumption, TwoSides DEF Up, InTransit
<1>1. ASSUME NEW s \in Sides, Write(s) PROVE InTransit'
  <2> SUFFICES ASSUME NEW x \in Sides, Up(x)' PROVE InTransitTo(x)'
    BY DEF InTransit
  <2>1. Up(x)
    BY <1>1 DEF Write, ends
  <2>2. InTransitTo(x)
    BY <2>1
  <2>3. CASE x # Other[s]
    <3>1. Other[x] # s
      BY <2>3
    <3>2. /\ got'[x] = got[x] /\ buf'[x] = buf[x]
          /\ out'[Other[x]] = out[Other[x]] /\ sent'[Other[x]] = sent[Other[x]]
      BY <1>1, <2>3, <3>1 DEF Write
    <3> QED
      BY <2>2, <3>2, SameTransit
  <2>4. CASE x = Other[s]
    <3>1. Other[x] = s
      BY <2>4
    <3>2. /\ got'[x] = got[x] /\ buf'[x] = buf[x] /\ sent'[s] = sent[s] + 1
          /\ out'[s] = Append(out[s], sent[s] + 1)
      BY <1>1 DEF Write
    <3> QED
      BY <2>2, <3>1, <3>2 DEF InTransitTo
  <2> QED
    BY <2>3, <2>4
<1>2. ASSUME NEW s \in Sides, End(s) PROVE InTransit'
  <2> SUFFICES ASSUME NEW x \in Sides, Up(x)' PROVE InTransitTo(x)'
    BY DEF InTransit
  <2>1. Up(x) /\ UNCHANGED <<got, buf, out, sent>>
    BY <1>2 DEF End, ends
  <2> QED
    BY <2>1, SameTransit
<1>3. ASSUME NEW s \in Sides, WriteCall(s) PROVE InTransit'
  <2> SUFFICES ASSUME NEW x \in Sides, Up(x)' PROVE InTransitTo(x)'
    BY DEF InTransit
  <2>1. Up(x)
    BY <1>3 DEF WriteCall, ends
  <2>2. InTransitTo(x)
    BY <2>1
  <2>3. CASE x # Other[s]
    <3>1. Other[x] # s
      BY <2>3
    <3>2. /\ got'[x] = got[x] /\ buf'[x] = buf[x]
          /\ out'[Other[x]] = out[Other[x]] /\ sent'[Other[x]] = sent[Other[x]]
      BY <1>3, <2>3, <3>1 DEF WriteCall
    <3> QED
      BY <2>2, <3>2, SameTransit
  <2>4. CASE x = Other[s]
    <3>1. Other[x] = s
      BY <2>4
    <3>2. /\ got'[x] = got[x] /\ buf'[x] = Append(buf[x], Head(out[s]))
          /\ sent'[s] = sent[s] /\ out'[s] = Tail(out[s]) /\ out[s] # <<>>
      BY <1>3, <2>1, <2>4 DEF WriteCall, Pushed
    <3>3. /\ Len(buf'[x]) = Len(buf[x]) + 1 /\ Len(out'[s]) = Len(out[s]) - 1
          /\ Len(out[s]) > 0
      BY <3>2
    <3>4. \A i \in 1..Len(buf[x]) : buf'[x][i] = buf[x][i]
      BY <3>2
    <3>5. buf'[x][Len(buf[x]) + 1] = out[s][1]
      BY <3>2
    <3>6. \A i \in 1..Len(out'[s]) : out'[s][i] = out[s][i + 1]
      BY <3>2, <3>3
    <3>7. /\ Len(got[x]) \in Nat /\ Len(buf[x]) \in Nat /\ Len(out[s]) \in Nat
          /\ Len(got[x]) + Len(buf[x]) + Len(out[s]) = sent[s]
          /\ \A i \in 1..Len(buf[x]) : buf[x][i] = Len(got[x]) + i
          /\ \A i \in 1..Len(out[s]) : out[s][i] = Len(got[x]) + Len(buf[x]) + i
      BY <2>2, <3>1 DEF InTransitTo
    <3>8. Len(got'[x]) + Len(buf'[x]) + Len(out'[s]) = sent'[s]
      BY <3>2, <3>3, <3>7
    <3>9. \A i \in 1..Len(buf'[x]) : buf'[x][i] = Len(got'[x]) + i
      <4> SUFFICES ASSUME NEW i \in 1..Len(buf'[x]) PROVE buf'[x][i] = Len(got'[x]) + i
        OBVIOUS
      <4>1. CASE i = Len(buf[x]) + 1
        <5>1. out[s][1] = Len(got[x]) + Len(buf[x]) + 1
          BY <3>3, <3>7
        <5> QED
          BY <4>1, <5>1, <3>2, <3>5, <3>7
      <4>2. CASE i # Len(buf[x]) + 1
        <5>1. i \in 1..Len(buf[x])
          BY <4>2, <3>3, <3>7
        <5> QED
          BY <5>1, <3>2, <3>4, <3>7
      <4> QED
        BY <4>1, <4>2
    <3>10. \A i \in 1..Len(out'[s]) : out'[s][i] = Len(got'[x]) + Len(buf'[x]) + i
      BY <3>2, <3>3, <3>6, <3>7
    <3> QED
      BY <3>1, <3>8, <3>9, <3>10 DEF InTransitTo
  <2> QED
    BY <2>3, <2>4
<1>4. ASSUME NEW s \in Sides, WriteBack(s) PROVE InTransit'
  <2> SUFFICES ASSUME NEW x \in Sides, Up(x)' PROVE InTransitTo(x)'
    BY DEF InTransit
  <2>1. Up(x) /\ UNCHANGED <<got, buf, out, sent>>
    BY <1>4 DEF WriteBack, ends
  <2> QED
    BY <2>1, SameTransit
<1>5. ASSUME NEW s \in Sides, ReadCall(s) PROVE InTransit'
  <2> SUFFICES ASSUME NEW x \in Sides, Up(x)' PROVE InTransitTo(x)'
    BY DEF InTransit
  <2>1. Up(x) /\ UNCHANGED <<got, buf, out, sent>>
    BY <1>5 DEF ReadCall, ends
  <2> QED
    BY <2>1, SameTransit
<1>6. ASSUME NEW s \in Sides, Read(s) PROVE InTransit'
  <2> SUFFICES ASSUME NEW x \in Sides, Up(x)' PROVE InTransitTo(x)'
    BY DEF InTransit
  <2>1. Up(x)
    BY <1>6 DEF Read, ends
  <2>2. InTransitTo(x)
    BY <2>1
  <2>3. CASE x # s
    <3>1. Other[x] # Other[s]
      BY <2>3
    <3>2. /\ got'[x] = got[x] /\ buf'[x] = buf[x]
          /\ out'[Other[x]] = out[Other[x]] /\ sent'[Other[x]] = sent[Other[x]]
      BY <1>6, <2>3, <3>1 DEF Read
    <3> QED
      BY <2>2, <3>2, SameTransit
  <2>4. CASE x = s
    <3>o. PICK o \in Sides : o = Other[x]
      OBVIOUS
    <3>1. /\ got'[x] = Append(got[x], Head(buf[x])) /\ buf'[x] = Tail(buf[x]) /\ buf[x] # <<>>
          /\ UNCHANGED <<out, sent>>
      BY <1>6, <2>4 DEF Read
    <3>t. buf[x] \in Seq(Nat) /\ got[x] \in Seq(Nat)
      OBVIOUS
    <3>q. /\ Head(buf[x]) \in Nat /\ Len(buf[x]) > 0
          /\ Len(Tail(buf[x])) = Len(buf[x]) - 1
          /\ \A i \in 1..Len(buf[x]) - 1 : Tail(buf[x])[i] = buf[x][i + 1]
      BY <3>1, <3>t, QueueFacts
    <3>p. Len(Append(got[x], Head(buf[x]))) = Len(got[x]) + 1
      BY <3>t, <3>q, PushFacts
    <3>2. /\ Len(got'[x]) = Len(got[x]) + 1 /\ Len(buf'[x]) = Len(buf[x]) - 1
          /\ Len(buf[x]) > 0
      BY <3>1, <3>q, <3>p
    <3>3. \A i \in 1..Len(buf'[x]) : buf'[x][i] = buf[x][i + 1]
      BY <3>1, <3>q
    <3>4. /\ Len(got[x]) \in Nat /\ Len(buf[x]) \in Nat /\ Len(out[o]) \in Nat
          /\ Len(got[x]) + Len(buf[x]) + Len(out[o]) = sent[o]
          /\ \A i \in 1..Len(buf[x]) : buf[x][i] = Len(got[x]) + i
          /\ \A i \in 1..Len(out[o]) :
               out[o][i] = Len(got[x]) + Len(buf[x]) + i
      BY <2>2, <3>o DEF InTransitTo
    <3>5. Len(got'[x]) + Len(buf'[x]) + Len(out'[o]) = sent'[o]
      BY <3>1, <3>2, <3>4
    <3>6. \A i \in 1..Len(buf'[x]) : buf'[x][i] = Len(got'[x]) + i
      <4> TAKE i \in 1..Len(buf'[x])
      <4>1. i + 1 \in 1..Len(buf[x])
        BY <3>2, <3>4
      <4>2. buf[x][i + 1] = Len(got[x]) + (i + 1)
        BY <4>1, <3>4
      <4>3. buf'[x][i] = buf[x][i + 1]
        BY <3>3
      <4> QED
        BY <3>2, <3>4, <4>2, <4>3
    <3>7. \A i \in 1..Len(out'[o]) :
            out'[o][i] = Len(got'[x]) + Len(buf'[x]) + i
      <4>1. out'[o] = out[o]
        BY <3>1
      <4>2. Len(got'[x]) + Len(buf'[x]) = Len(got[x]) + Len(buf[x])
        BY <3>2, <3>4
      <4> QED
        BY <4>1, <4>2, <3>4
    <3> QED
      BY <3>o, <3>5, <3>6, <3>7 DEF InTransitTo
  <2> QED
    BY <2>3, <2>4
<1>7. ASSUME NEW s \in Sides, Final(s) PROVE InTransit'
  <2> SUFFICES ASSUME NEW x \in Sides, Up(x)' PROVE InTransitTo(x)'
    BY DEF InTransit
  <2>1. Up(x) /\ UNCHANGED <<got, buf, out, sent>>
    BY <1>7 DEF Final, ends
  <2> QED
    BY <2>1, SameTransit
<1>8. ASSUME NEW s \in Sides, EndRead(s) PROVE InTransit'
  <2> SUFFICES ASSUME NEW x \in Sides, Up(x)' PROVE InTransitTo(x)'
    BY DEF InTransit
  <2>1. Up(x) /\ UNCHANGED <<got, buf, out, sent>>
    BY <1>8 DEF EndRead
  <2> QED
    BY <2>1, SameTransit
<1>9. ASSUME NEW s \in Sides, Close(s) PROVE InTransit'
  <2> SUFFICES ASSUME NEW x \in Sides, Up(x)' PROVE InTransitTo(x)'
    BY DEF InTransit
  <2>1. Up(x) /\ UNCHANGED <<got, buf, out, sent>>
    BY <1>9 DEF Close, Destroyed, flow
  <2> QED
    BY <2>1, SameTransit
<1>10. ASSUME NEW s \in Sides, Raise(s) PROVE InTransit'
  <2> SUFFICES ASSUME NEW x \in Sides, Up(x)' PROVE InTransitTo(x)'
    BY DEF InTransit
  <2>1. Up(x) /\ UNCHANGED <<got, buf, out, sent>>
    BY <1>10 DEF Raise, flow, ends
  <2> QED
    BY <2>1, SameTransit
<1>11. ASSUME NEW s \in Sides, Hear(s) PROVE InTransit'
  <2> SUFFICES ASSUME NEW x \in Sides, Up(x)' PROVE InTransitTo(x)'
    BY DEF InTransit
  <2>1. Up(x) /\ UNCHANGED <<got, buf, out, sent>>
    BY <1>11 DEF Hear, flow, ends
  <2> QED
    BY <2>1, SameTransit
<1>12. CASE DestroyLeft
  <2> SUFFICES ASSUME NEW x \in Sides, Up(x)' PROVE InTransitTo(x)'
    BY DEF InTransit
  <2>1. Up(x) /\ UNCHANGED <<got, buf, out, sent>>
    BY <1>12 DEF DestroyLeft, Destroyed, flow
  <2> QED
    BY <2>1, SameTransit
<1>13. CASE DestroyRight(TRUE)
  <2> SUFFICES ASSUME NEW x \in Sides, Up(x)' PROVE InTransitTo(x)'
    BY DEF InTransit
  <2>1. Up(x) /\ UNCHANGED <<got, buf, out, sent>>
    BY <1>13 DEF DestroyRight, Destroyed, flow
  <2> QED
    BY <2>1, SameTransit
<1>14. CASE DestroyRight(FALSE)
  <2> SUFFICES ASSUME NEW x \in Sides, Up(x)' PROVE InTransitTo(x)'
    BY DEF InTransit
  <2>1. Up(x) /\ UNCHANGED <<got, buf, out, sent>>
    BY <1>14 DEF DestroyRight, Destroyed, flow
  <2> QED
    BY <2>1, SameTransit
<1>15. CASE WaitEnds
  <2> SUFFICES ASSUME NEW x \in Sides, Up(x)' PROVE InTransitTo(x)'
    BY DEF InTransit
  <2>1. Up(x) /\ UNCHANGED <<got, buf, out, sent>>
    BY <1>15 DEF WaitEnds, Destroyed, flow
  <2> QED
    BY <2>1, SameTransit
<1>16. CASE UNCHANGED vars
  <2> SUFFICES ASSUME NEW x \in Sides, Up(x)' PROVE InTransitTo(x)'
    BY DEF InTransit
  <2>1. Up(x) /\ UNCHANGED <<got, buf, out, sent>>
    BY <1>16 DEF vars, flow, ends
  <2> QED
    BY <2>1, SameTransit
<1> QED
  BY <1>1, <1>2, <1>3, <1>4, <1>5, <1>6, <1>7, <1>8, <1>9, <1>10, <1>11, <1>12, <1>13,
     <1>14, <1>15, <1>16 DEF Next

(* After _final nothing is written, so nothing is pushed after the end.    *)
LEMMA NextEndLast == IInv /\ [Next]_vars => EndLast'
<1> SUFFICES ASSUME out \in [Sides -> Seq(Nat)], buf \in [Sides -> Seq(Nat)],
                    fin \in [Sides -> {"open", "ending", "final"}],
                    eof \in [Sides -> {"open", "pushed", "end"}],
                    life \in [Sides -> {"up", "destroyed", "closed"}], EndLast,
                    [Next]_vars PROVE EndLast'
  BY IInvParts DEF TypeOK
<1> USE InMemAssumption, TwoSides DEF Up, EndLast, EndLastOf
<1>1. ASSUME NEW s \in Sides, Write(s) PROVE EndLast'
  BY <1>1 DEF Write, ends, errors
<1>2. ASSUME NEW s \in Sides, End(s) PROVE EndLast'
  BY <1>2 DEF End, ends, errors
<1>3. ASSUME NEW s \in Sides, WriteCall(s) PROVE EndLast'
  <2> SUFFICES ASSUME NEW x \in Sides PROVE EndLastOf(x)'
    BY DEF EndLast
  <2> USE DEF EndLastOf
  <2>1. fin[s] # "final"
    BY <1>3 DEF WriteCall
  <2>2. fin'[x] = "final" => out'[x] = <<>>
    BY <1>3, <2>1 DEF WriteCall
  <2>3. Up(x)' /\ eof'[x] = "end" => buf'[x] = <<>>
    <3>1. CASE x = Other[s]
      <4>1. Other[x] = s
        BY <3>1
      <4> QED
        BY <1>3, <2>1, <4>1 DEF WriteCall
    <3>2. CASE x # Other[s]
      BY <1>3, <3>2 DEF WriteCall, ends
    <3> QED
      BY <3>1, <3>2
  <2>4. eof'[x] # "open" => fin'[Other[x]] = "final"
    BY <1>3 DEF WriteCall
  <2> QED
    BY <2>2, <2>3, <2>4
<1>4. ASSUME NEW s \in Sides, WriteBack(s) PROVE EndLast'
  BY <1>4 DEF WriteBack, ends, errors
<1>5. ASSUME NEW s \in Sides, ReadCall(s) PROVE EndLast'
  BY <1>5 DEF ReadCall, ends, errors
<1>6. ASSUME NEW s \in Sides, Read(s) PROVE EndLast'
  BY <1>6 DEF Read, ends, errors
<1>7. ASSUME NEW s \in Sides, Final(s) PROVE EndLast'
  <2> SUFFICES ASSUME NEW x \in Sides PROVE EndLastOf(x)'
    BY DEF EndLast
  <2> USE DEF EndLastOf
  <2>1. fin'[x] = "final" => out'[x] = <<>>
    BY <1>7 DEF Final
  <2>2. fin[Other[x]] = "final" => fin'[Other[x]] = "final"
    BY <1>7 DEF Final
  <2>3. eof'[x] # "open" => fin'[Other[x]] = "final"
    <3>1. CASE x = Other[s]
      <4>1. Other[x] = s
        BY <3>1
      <4> QED
        BY <1>7, <4>1 DEF Final
    <3>2. CASE x # Other[s]
      <4>1. eof'[x] = eof[x]
        BY <1>7, <3>2 DEF Final
      <4> QED
        BY <2>2, <4>1
    <3> QED
      BY <3>1, <3>2
  <2>4. Up(x)' /\ eof'[x] = "end" => buf'[x] = <<>>
    <3>1. eof'[x] = "end" => eof[x] = "end"
      BY <1>7 DEF Final
    <3> QED
      BY <1>7, <3>1 DEF Final, ends
  <2> QED
    BY <2>1, <2>3, <2>4
<1>8. ASSUME NEW s \in Sides, EndRead(s) PROVE EndLast'
  <2> SUFFICES ASSUME NEW x \in Sides PROVE EndLastOf(x)'
    BY DEF EndLast
  <2> USE DEF EndLastOf
  <2>1. \A y \in Sides : fin'[y] = "final" <=> fin[y] = "final"
    BY <1>8 DEF EndRead
  <2>2. fin'[x] = "final" => out'[x] = <<>>
    BY <1>8, <2>1 DEF EndRead
  <2>3. eof'[x] # "open" => fin'[Other[x]] = "final"
    <3>1. eof'[x] # "open" => eof[x] # "open"
      BY <1>8 DEF EndRead
    <3> QED
      BY <2>1, <3>1
  <2>4. Up(x)' /\ eof'[x] = "end" => buf'[x] = <<>>
    BY <1>8 DEF EndRead
  <2> QED
    BY <2>2, <2>3, <2>4
<1>9. ASSUME NEW s \in Sides, Close(s) PROVE EndLast'
  BY <1>9 DEF Close, Destroyed, flow, errors
<1>10. ASSUME NEW s \in Sides, Raise(s) PROVE EndLast'
  BY <1>10 DEF Raise, flow, ends
<1>11. ASSUME NEW s \in Sides, Hear(s) PROVE EndLast'
  BY <1>11 DEF Hear, flow, ends
<1>12. CASE DestroyLeft
  BY <1>12 DEF DestroyLeft, Destroyed, flow, errors
<1>13. CASE DestroyRight(TRUE)
  BY <1>13 DEF DestroyRight, Destroyed, flow, errors
<1>14. CASE DestroyRight(FALSE)
  BY <1>14 DEF DestroyRight, Destroyed, flow, errors
<1>15. CASE WaitEnds
  BY <1>15 DEF WaitEnds, Destroyed, flow, errors
<1>16. CASE UNCHANGED vars
  BY <1>16 DEF vars, flow, ends, errors
<1> QED
  BY <1>1, <1>2, <1>3, <1>4, <1>5, <1>6, <1>7, <1>8, <1>9, <1>10, <1>11, <1>12, <1>13,
     <1>14, <1>15, <1>16 DEF Next

(* The inductive invariant of the pair. *)
LEMMA DuplexInvariance == Spec => []IInv
<1>1. IInv /\ [Next]_vars => IInv'
  BY NextTypeOK, NextOneCallback, NextErrorsCrossOnce, NextMarkIsHeld, NextBackPressure,
     NextInTransit, NextEndLast, IInvParts DEF IInv, MarkIsHeld
<1>2. [Next /\ UNCHANGED most]_<<vars, most>> => [Next]_vars
  OBVIOUS
<1> QED
  BY <1>1, InitIInv, <1>2, PTL DEF Spec

(* A side never holds more than its mark for its reader. *)
LEMMA DuplexBackPressure == Spec => []BackPressure
<1>1. IInv => BackPressure
  BY DEF IInv
<1> QED
  BY <1>1, DuplexInvariance, PTL

(* Every _write has one callback, which is not lost and not called twice. *)
LEMMA DuplexOneCallback == Spec => []OneCallback
<1>1. IInv => OneCallback
  BY DEF IInv
<1> QED
  BY <1>1, DuplexInvariance, PTL

(* Who has read all but something has read less. *)
LEMMA Fewer ==
  ASSUME NEW a \in Nat, NEW b \in Nat, NEW c \in Nat, NEW d \in Nat, a + b + c = d, b > 0
  PROVE  a < d
  OBVIOUS

(* What is read next is the next chunk, and there is one to read. *)
LEMMA ReadNext ==
  ASSUME IInv, NEW s \in Sides, Up(s), buf[s] # <<>>
  PROVE  Head(buf[s]) = Len(got[s]) + 1 /\ Len(got[s]) < sent[Other[s]]
<1>1. buf[s] \in Seq(Nat) /\ got[s] \in Seq(Nat) /\ out[Other[s]] \in Seq(Nat)
  BY TwoSides DEF IInv, TypeOK
<1>2. Len(buf[s]) > 0 /\ Head(buf[s]) = buf[s][1] /\ Len(buf[s]) \in Nat
  BY <1>1, QueueFacts
<1>3. InTransitTo(s)
  BY DEF IInv, InTransit
<1>4. Len(got[s]) \in Nat /\ Len(out[Other[s]]) \in Nat
  BY <1>1
<1>5. Len(got[s]) + Len(buf[s]) + Len(out[Other[s]]) = sent[Other[s]]
  BY <1>3 DEF InTransitTo
<1>6. buf[s][1] = Len(got[s]) + 1
  BY <1>2, <1>3 DEF InTransitTo
<1>7. sent[Other[s]] \in Nat
  BY TwoSides DEF IInv, TypeOK
<1>8. Len(got[s]) < sent[Other[s]]
  BY <1>2, <1>4, <1>5, <1>7, Fewer
<1> QED
  BY <1>2, <1>6, <1>8

(* The end is read when all has been read. *)
LEMMA EndComplete ==
  ASSUME IInv, NEW s \in Sides, Up(s), buf[s] = <<>>, eof[s] = "pushed"
  PROVE  Len(got[s]) = sent[Other[s]] /\ fin[Other[s]] = "final"
<1>1. fin[Other[s]] = "final" /\ out[Other[s]] = <<>>
  BY TwoSides DEF IInv, EndLast, EndLastOf
<1>2. Len(got[s]) \in Nat
  <2>1. got[s] \in Seq(Nat)
    BY DEF IInv, TypeOK
  <2> QED
    BY <2>1
<1>3. Len(got[s]) + Len(buf[s]) + Len(out[Other[s]]) = sent[Other[s]]
  BY DEF IInv, InTransit, InTransitTo
<1> QED
  BY <1>1, <1>2, <1>3

Broken == {s \in Sides : ~Up(s)}
ChanVars == <<sent, got, {s \in Sides : fin[s] # "open"}, {s \in Sides : eof[s] = "end"}, Broken>>

(* Steps that show on neither side are stutters of the channel. *)
LEMMA Hidden ==
  ASSUME UNCHANGED <<sent, got, eof, life>>,
         \A s \in Sides : fin'[s] = "open" <=> fin[s] = "open"
  PROVE  UNCHANGED ChanVars
  BY DEF ChanVars, Broken, Up

(* Destroying sides that are up breaks the channel, or changes nothing. *)
LEMMA Destroys ==
  ASSUME IInv, NEW S, life' = Destroyed(S), UNCHANGED flow
  PROVE  Chan!Break \/ UNCHANGED ChanVars
<1>1. Broken' = Broken \cup {s \in Sides : s \in S /\ Up(s)}
  BY DEF Broken, Up, Destroyed
<1>2. UNCHANGED <<sent, got, fin, eof>>
  BY DEF flow
<1>3. CASE {s \in Sides : s \in S /\ Up(s)} = {}
  BY <1>1, <1>2, <1>3 DEF ChanVars
<1>4. CASE {s \in Sides : s \in S /\ Up(s)} # {}
  <2>1. {s \in Sides : s \in S /\ Up(s)} \in SUBSET Sides
    OBVIOUS
  <2> QED
    BY <1>1, <1>2, <1>4, <2>1 DEF Chan!Break, Broken
<1> QED
  BY <1>3, <1>4

(* Every step of the pair is a step of the channel, or hidden from it. *)
LEMMA StepChannel == IInv /\ [Next]_vars => [Chan!Next]_ChanVars
<1> SUFFICES ASSUME IInv, [Next]_vars PROVE Chan!Next \/ UNCHANGED ChanVars
  OBVIOUS
<1> USE TwoSides
<1>t. /\ got \in [Sides -> Seq(Nat)] /\ fin \in [Sides -> {"open", "ending", "final"}]
      /\ eof \in [Sides -> {"open", "pushed", "end"}]
  BY DEF IInv, TypeOK
<1>1. ASSUME NEW s \in Sides, Write(s) PROVE Chan!Write(s)
  BY <1>1 DEF Write, Chan!Write, ends, Up
<1>2. ASSUME NEW s \in Sides, End(s) PROVE Chan!End(s)
  <2>1. {x \in Sides : fin'[x] # "open"} = {x \in Sides : fin[x] # "open"} \cup {s}
    BY <1>2, <1>t DEF End
  <2> QED
    BY <1>2, <2>1 DEF End, Chan!End, ends, Up
<1>3. ASSUME NEW s \in Sides, WriteCall(s) \/ WriteBack(s) \/ ReadCall(s)
      PROVE UNCHANGED ChanVars
  BY <1>3, Hidden DEF WriteCall, WriteBack, ReadCall, ends
<1>4. ASSUME NEW s \in Sides, Read(s) PROVE Chan!Read(s)
  <2>1. Up(s) /\ buf[s] # <<>>
    BY <1>4 DEF Read
  <2>2. Head(buf[s]) = Len(got[s]) + 1 /\ Len(got[s]) < sent[Other[s]]
    BY <2>1, ReadNext
  <2>3. eof[s] # "end"
    BY <2>1 DEF IInv, EndLast, EndLastOf
  <2>4. got' = [got EXCEPT ![s] = Append(@, Len(@) + 1)]
    BY <1>4, <2>2, <1>t DEF Read
  <2> QED
    BY <1>4, <2>1, <2>2, <2>3, <2>4 DEF Read, Chan!Read, ends, Up
<1>5. ASSUME NEW s \in Sides, Final(s) PROVE UNCHANGED ChanVars
  <2>1. \A x \in Sides : fin'[x] = "open" <=> fin[x] = "open"
    BY <1>5, <1>t DEF Final
  <2>2. \A x \in Sides : eof'[x] = "end" <=> eof[x] = "end"
    <3>1. eof[Other[s]] # "end"
      <4>1. fin[s] # "final"
        BY <1>5 DEF Final
      <4> QED
        BY <4>1 DEF IInv, EndLast, EndLastOf
    <3> QED
      BY <1>5, <1>t, <3>1 DEF Final
  <2> QED
    BY <1>5, <2>1, <2>2 DEF Final, ChanVars, Broken, Up, ends
<1>6. ASSUME NEW s \in Sides, EndRead(s) PROVE Chan!ReadEnd(s)
  <2>1. Up(s) /\ buf[s] = <<>> /\ eof[s] = "pushed"
    BY <1>6 DEF EndRead
  <2>2. Len(got[s]) = sent[Other[s]] /\ fin[Other[s]] = "final"
    BY <2>1, EndComplete
  <2>3. {x \in Sides : eof'[x] = "end"} = {x \in Sides : eof[x] = "end"} \cup {s}
    BY <1>6, <1>t DEF EndRead
  <2>4. {x \in Sides : fin'[x] # "open"} = {x \in Sides : fin[x] # "open"} \cup {s}
    BY <1>6, <1>t DEF EndRead
  <2> QED
    BY <1>6, <2>1, <2>2, <2>3, <2>4 DEF EndRead, Chan!ReadEnd, Up
<1>7. ASSUME NEW s \in Sides, Close(s) PROVE Chan!Break \/ UNCHANGED ChanVars
  <2> DEFINE S == IF s = "left" THEN Sides ELSE {}
  <2>1. ~Up(s) /\ life[s] = "destroyed"
    BY <1>7 DEF Close, Up
  <2>2. Broken' = Broken \cup {x \in Sides : x \in S /\ Up(x)}
    BY <1>7, <2>1 DEF Close, Destroyed, Broken, Up, IInv, TypeOK
  <2>3. UNCHANGED <<sent, got, fin, eof>>
    BY <1>7 DEF Close, flow
  <2>4. {x \in Sides : x \in S /\ Up(x)} \in SUBSET Sides
    OBVIOUS
  <2>5. CASE {x \in Sides : x \in S /\ Up(x)} = {}
    BY <2>2, <2>3, <2>5 DEF ChanVars
  <2>6. CASE {x \in Sides : x \in S /\ Up(x)} # {}
    BY <2>2, <2>3, <2>4, <2>6 DEF Chan!Break, Broken
  <2> QED
    BY <2>5, <2>6
<1>8. ASSUME NEW s \in Sides, Raise(s) \/ Hear(s) PROVE UNCHANGED ChanVars
  BY <1>8 DEF Raise, Hear, flow, ends, ChanVars, Broken, Up
<1>9. ASSUME DestroyLeft PROVE Chan!Break \/ UNCHANGED ChanVars
  <2>1. life' = Destroyed({"left"}) /\ UNCHANGED flow
    BY <1>9 DEF DestroyLeft
  <2> QED
    BY <2>1, Destroys
<1>10. ASSUME NEW now \in BOOLEAN, DestroyRight(now) PROVE Chan!Break \/ UNCHANGED ChanVars
  <2>1. CASE life' = Destroyed(Sides)
    BY <1>10, <2>1, Destroys DEF DestroyRight
  <2>2. CASE life' = life
    BY <1>10, <2>2 DEF DestroyRight, flow, ChanVars, Broken, Up
  <2> QED
    BY <1>10, <2>1, <2>2 DEF DestroyRight
<1>11. ASSUME WaitEnds PROVE Chan!Break \/ UNCHANGED ChanVars
  <2>1. life' = Destroyed(Sides) /\ UNCHANGED flow
    BY <1>11 DEF WaitEnds
  <2> QED
    BY <2>1, Destroys
<1>12. CASE UNCHANGED vars
  BY <1>12 DEF vars, flow, ends, ChanVars, Broken, Up
<1> QED
  BY <1>1, <1>2, <1>3, <1>4, <1>5, <1>6, <1>7, <1>8, <1>9, <1>10, <1>11, <1>12
     DEF Next, Chan!Next

(* The pair of in-memory streams implements a channel. *)
LEMMA DuplexIsChannel == Spec => IsChannel
<1>1. Init => Chan!Init
  BY DEF Init, Chan!Init, Up
<1>2. IInv /\ [Next]_vars => [Chan!Next]_(Chan!vars)
  BY StepChannel DEF ChanVars, Chan!vars, Broken
<1>3. [Next /\ UNCHANGED most]_<<vars, most>> => [Next]_vars
  OBVIOUS
<1> QED
  BY <1>1, <1>2, DuplexInvariance, <1>3, PTL DEF Spec, IsChannel, Chan!Spec

---------------------------------------------------------------------------
(* The operators of FiniteSets that the module of these streams reads. *)
LEMMA Http2Sets ==
  \A S : /\ Http2!IsFiniteSet(S) <=> IsFiniteSet(S)
         /\ Http2!Cardinality(S) = Cardinality(S)
BY DEF Http2!IsFiniteSet, IsFiniteSet, Http2!Cardinality, Cardinality

USE Http2Sets

(* What the two properties rest on: a stream that is open has emitted      *)
(* nothing, one that has not arrived is not counted, and only a connection *)
(* is watched and told of.                                                 *)
TakenOnce ==
  \A s \in Streams :
    /\ s \in open => events[s] = {}
    /\ stage[s] = "new" => s \notin open /\ events[s] = {} /\ s \notin counting
    /\ stage[s] # "connected" => s \notin watched /\ told[s] = 0
    /\ s \in watched => told[s] = 0

Http2IInv == Http2!TypeOK /\ Http2!CountExact /\ Http2!Http2ServerToldOnce /\ Http2!ClosedMeansSilent /\ TakenOnce

(* The streams that fall have events to emit, the others are untouched.    *)
LEMMA FallFacts ==
  ASSUME NEW S, Http2!TypeOK, Http2!Fall(S)
  PROVE  /\ open' = open \ S
         /\ events' \in [Streams -> SUBSET {"aborted", "close"}]
         /\ \A s \in Streams : s \in S \intersect open => events'[s] # {}
         /\ \A s \in Streams : s \notin S \intersect open => events'[s] = events[s]
  BY DEF Http2!Fall, Http2!TypeOK

(* What a fall of some streams needs for the invariant to stay. *)
LEMMA FallStep ==
  ASSUME Http2IInv, NEW S, Http2!Fall(S),
         session' \in [Sessions -> {"new", "known", "gone"}],
         UNCHANGED <<num_streams, stage, counting, watched, told>>,
         transport' = transport \/ (transport' = "closed" /\ S = open)
  PROVE  Http2IInv'
<1>1. /\ open' = open \ S
      /\ events' \in [Streams -> SUBSET {"aborted", "close"}]
      /\ \A s \in Streams : s \in S \intersect open => events'[s] # {}
      /\ \A s \in Streams : s \notin S \intersect open => events'[s] = events[s]
  BY FallFacts DEF Http2IInv
<1>2. Http2!TypeOK'
  BY <1>1 DEF Http2IInv, Http2!TypeOK
<1>3. Http2!CountExact'
  BY <1>1 DEF Http2IInv, Http2!CountExact
<1>4. Http2!Http2ServerToldOnce'
  BY <1>1 DEF Http2IInv, Http2!Http2ServerToldOnce
<1>5. Http2!ClosedMeansSilent'
  BY <1>1 DEF Http2IInv, Http2!ClosedMeansSilent
<1>6. TakenOnce'
  BY <1>1 DEF Http2IInv, TakenOnce
<1> QED
  BY <1>2, <1>3, <1>4, <1>5, <1>6 DEF Http2IInv

(* The invariant holds initially. *)
LEMMA StreamsInit == ASSUME Http2!Http2Assumption PROVE Http2!Init => Http2IInv
<1> SUFFICES ASSUME Http2!Init PROVE Http2IInv
  OBVIOUS
<1>1. Cardinality(counting) = 0
  BY FS_EmptySet DEF Http2!Init
<1>2. Http2!TypeOK
  BY DEF Http2!Init, Http2!TypeOK
<1>3. Http2!CountExact
  BY <1>1 DEF Http2!Init, Http2!CountExact, Http2!Http2Assumption
<1> QED
  BY <1>2, <1>3 DEF Http2!Init, Http2IInv, Http2!Http2ServerToldOnce,
                    Http2!ClosedMeansSilent, TakenOnce

(* A new stream is counted. *)
LEMMA OnStreamStep ==
  ASSUME Http2!Http2Assumption, Http2IInv, NEW s \in Streams, Http2!OnStream(s)
  PROVE  Http2IInv'
<1> USE DEF Http2IInv, Http2!Http2Assumption
<1>1. s \notin counting /\ s \notin watched /\ told[s] = 0 /\ events[s] = {}
  BY DEF Http2!OnStream, Http2!Arrives, TakenOnce
<1>2. Http2!TypeOK'
  BY DEF Http2!OnStream, Http2!TypeOK
<1>3. Http2!CountExact'
  <2>1. IsFiniteSet(counting)
    BY FS_Subset DEF Http2!TypeOK
  <2>2. Cardinality(counting') = Cardinality(counting) + 1
    BY <1>1, <2>1, FS_AddElement DEF Http2!OnStream
  <2>3. num_streams' = Cardinality(counting') /\ num_streams' <= MaxConnections
    BY <2>2 DEF Http2!OnStream, Http2!Full, Http2!CountExact, Http2!TypeOK
  <2>4. \A x \in Streams : x \in open' /\ stage'[x] \notin {"new", "refused"}
          => x \in counting'
    BY DEF Http2!OnStream, Http2!CountExact, Http2!TypeOK
  <2> QED
    BY <2>3, <2>4 DEF Http2!CountExact
<1>4. Http2!Http2ServerToldOnce'
  BY DEF Http2!OnStream, Http2!Http2ServerToldOnce, Http2!TypeOK
<1>5. Http2!ClosedMeansSilent' /\ TakenOnce'
  BY <1>1 DEF Http2!OnStream, Http2!Arrives, Http2!ClosedMeansSilent, TakenOnce,
              Http2!TypeOK
<1> QED
  BY <1>2, <1>3, <1>4, <1>5

(* A connection is watched from the moment it is handed over, and handed   *)
(* over only while its stream is open.                                     *)
LEMMA AnswerStep ==
  ASSUME Http2IInv, NEW s \in Streams, stage[s] \in {"authorizing", "making"},
         \/ stage' = [stage EXCEPT ![s] = "over"] /\ UNCHANGED watched
         \/ stage' = [stage EXCEPT ![s] = "making"] /\ UNCHANGED watched
         \/ Http2!HandOver(s),
         UNCHANGED <<num_streams, transport, session, open, events, counting, told>>
  PROVE  Http2IInv'
<1> USE DEF Http2IInv
<1>0. \/ stage' = [stage EXCEPT ![s] = "over"] /\ UNCHANGED watched
      \/ stage' = [stage EXCEPT ![s] = "making"] /\ UNCHANGED watched
      \/ /\ s \in open
         /\ stage' = [stage EXCEPT ![s] = "connected"] /\ watched' = watched \union {s}
  BY DEF Http2!HandOver
<1>1. Http2!TypeOK'
  BY <1>0 DEF Http2!TypeOK
<1>2. Http2!CountExact'
  BY <1>0 DEF Http2!CountExact, Http2!TypeOK
<1>3. Http2!Http2ServerToldOnce'
  BY <1>0 DEF Http2!Http2ServerToldOnce, TakenOnce, Http2!TypeOK
<1>4. Http2!ClosedMeansSilent' /\ TakenOnce'
  BY <1>0 DEF Http2!ClosedMeansSilent, TakenOnce, Http2!TypeOK
<1> QED
  BY <1>1, <1>2, <1>3, <1>4

(* The first event of a stream takes it out of the count and tells the     *)
(* server; the second finds nothing to do.                                 *)
LEMMA EmitStep ==
  ASSUME Http2!Http2Assumption, Http2IInv, NEW s \in Streams,
         NEW e \in {"aborted", "close"},
         Http2!Emit(s, e)
  PROVE  Http2IInv'
<1> USE DEF Http2IInv, Http2!Http2Assumption
<1>1. s \notin open
  BY DEF Http2!Emit, TakenOnce
<1>2. counting' = counting \ {s} /\ watched' = watched \ {s}
  BY DEF Http2!Emit
<1>3. /\ num_streams' = Cardinality(counting') /\ num_streams' \in Nat
      /\ num_streams' <= MaxConnections
  <2>1. IsFiniteSet(counting)
    BY FS_Subset DEF Http2!TypeOK
  <2>2. CASE s \in counting
    <3>1. Cardinality(counting') = Cardinality(counting) - 1
      BY <1>2, <2>1, <2>2, FS_RemoveElement
    <3>2. Cardinality(counting') \in Nat
      BY <1>2, <2>1, FS_RemoveElement, FS_CardinalityType
    <3> QED
      BY <2>2, <3>1, <3>2 DEF Http2!Emit, Http2!CountExact, Http2!TypeOK
  <2>3. CASE s \notin counting
    <3>1. counting' = counting
      BY <1>2, <2>3
    <3>2. num_streams' = num_streams
      BY <2>3 DEF Http2!Emit
    <3> QED
      BY <3>1, <3>2 DEF Http2!CountExact, Http2!TypeOK
  <2> QED
    BY <2>2, <2>3
<1>4. Http2!TypeOK'
  BY <1>2, <1>3 DEF Http2!Emit, Http2!TypeOK
<1>5. Http2!CountExact'
  BY <1>1, <1>2, <1>3 DEF Http2!Emit, Http2!CountExact
<1>6. told' \in [Streams -> Nat] /\ \A x \in Streams : x # s => told'[x] = told[x]
  BY DEF Http2!Emit, Http2!TypeOK
<1>7. told'[s] = IF s \in watched THEN told[s] + 1 ELSE told[s]
  BY DEF Http2!Emit, Http2!TypeOK
<1>8. Http2!Http2ServerToldOnce'
  <2>1. \A x \in Streams : x # s => events'[x] = events[x]
    BY DEF Http2!Emit, Http2!TypeOK
  <2> QED
    BY <1>2, <1>6, <1>7, <2>1 DEF Http2!Emit, Http2!Http2ServerToldOnce, TakenOnce,
                                  Http2!TypeOK
<1>9. Http2!ClosedMeansSilent' /\ TakenOnce'
  BY <1>1, <1>2, <1>6, <1>7 DEF Http2!Emit, Http2!ClosedMeansSilent, TakenOnce, Http2!TypeOK
<1> QED
  BY <1>4, <1>5, <1>8, <1>9

(* Every step keeps the invariant. *)
LEMMA StreamsNext ==
  ASSUME Http2!Http2Assumption
  PROVE  Http2IInv /\ [Http2!Next]_Http2!vars => Http2IInv'
<1> SUFFICES ASSUME Http2IInv, [Http2!Next]_Http2!vars PROVE Http2IInv'
  OBVIOUS
<1>t. session \in [Sessions -> {"new", "known", "gone"}]
  BY DEF Http2IInv, Http2!TypeOK
<1>1. ASSUME NEW x \in Sessions, Http2!OnSession(x) PROVE Http2IInv'
  BY <1>1 DEF Http2!OnSession, Http2IInv, Http2!TypeOK, Http2!CountExact,
              Http2!Http2ServerToldOnce,
              Http2!ClosedMeansSilent, TakenOnce
<1>2. ASSUME NEW x \in Sessions, Http2!SessionFalls(x) PROVE Http2IInv'
  BY <1>2, <1>t, FallStep DEF Http2!SessionFalls
<1>3. ASSUME NEW s \in Streams, Http2!Refused(s) PROVE Http2IInv'
  <2>1. Http2!TypeOK'
    BY <1>3 DEF Http2!Refused, Http2IInv, Http2!TypeOK
  <2>2. Http2!CountExact'
    BY <1>3 DEF Http2!Refused, Http2IInv, Http2!TypeOK, Http2!CountExact
  <2>3. Http2!Http2ServerToldOnce'
    BY <1>3 DEF Http2!Refused, Http2IInv, Http2!TypeOK, Http2!Http2ServerToldOnce
  <2>4. Http2!ClosedMeansSilent' /\ TakenOnce'
    BY <1>3 DEF Http2!Refused, Http2!Arrives, Http2IInv, Http2!TypeOK,
                Http2!ClosedMeansSilent, TakenOnce
  <2> QED
    BY <2>1, <2>2, <2>3, <2>4 DEF Http2IInv
<1>4. ASSUME NEW s \in Streams, Http2!OnStream(s) PROVE Http2IInv'
  BY <1>4, OnStreamStep
<1>5. ASSUME NEW s \in Streams,
             Http2!NotAuthorized(s) \/ Http2!Authorized(s) \/ Http2!Made(s) PROVE Http2IInv'
  BY <1>5, AnswerStep DEF Http2!NotAuthorized, Http2!Authorized, Http2!Made
<1>6. ASSUME NEW s \in Streams, Http2!StreamFalls(s) PROVE Http2IInv'
  BY <1>6, <1>t, FallStep DEF Http2!StreamFalls
<1>7. ASSUME NEW s \in Streams, NEW e \in {"aborted", "close"}, Http2!Emit(s, e)
      PROVE Http2IInv'
  BY <1>7, EmitStep
<1>8. CASE Http2!Close
  BY <1>8, <1>t, FallStep DEF Http2!Close
<1>9. CASE UNCHANGED Http2!vars
  BY <1>9 DEF Http2!vars, Http2IInv, Http2!TypeOK, Http2!CountExact,
              Http2!Http2ServerToldOnce, Http2!ClosedMeansSilent, TakenOnce
<1> QED
  BY <1>1, <1>2, <1>3, <1>4, <1>5, <1>6, <1>7, <1>8, <1>9 DEF Http2!Next

(* The inductive invariant of the streams. *)
LEMMA StreamsInvariance == ASSUME Http2!Http2Assumption PROVE Http2!Spec => []Http2IInv
<1>1. [Http2!Next /\ UNCHANGED awaits]_<<Http2!vars, awaits>> => [Http2!Next]_Http2!vars
  OBVIOUS
<1> QED
  BY <1>1, StreamsInit, StreamsNext, PTL DEF Http2!Spec

(* num_streams is exact and within maxConnections, whichever of 'aborted'  *)
(* and 'close' is heard first (http2-duplex.js 113-137), and the close of  *)
(* the transport leaves no open stream (http2.js 205-227).                 *)
LEMMA StreamCountExact ==
  ASSUME Http2!Http2Assumption
  PROVE  Http2!Spec => []Http2!Http2CountExact
<1>1. Http2IInv => Http2!Http2CountExact
  BY DEF Http2IInv, Http2!Http2CountExact
<1> QED
  BY <1>1, StreamsInvariance, PTL

(* A connection handed to the server is reported closed once, even where   *)
(* its stream had closed before the duplex was made (http2-duplex.js 152). *)
LEMMA StreamToldOnce ==
  ASSUME Http2!Http2Assumption
  PROVE  Http2!Spec => []Http2!Http2ServerToldOnce
<1>1. Http2IInv => Http2!Http2ServerToldOnce
  BY DEF Http2IInv
<1> QED
  BY <1>1, StreamsInvariance, PTL

HIDE Http2Sets

---------------------------------------------------------------------------
(* A behaviour of both is one of each. *)
LEMMA EachTransport == TransportsSpec => Spec /\ Http2!Spec
<1> DEFINE all == <<part, most, awaits, vars, http2_vars>>
<1>1. TransportsInit => Init /\ Http2!Init
  BY DEF TransportsInit
<1>2. [TransportsNext]_all => [Next /\ UNCHANGED most]_<<vars, most>>
  BY DEF TransportsNext
<1>3. [TransportsNext]_all => [Http2!Next /\ UNCHANGED awaits]_<<Http2!vars, awaits>>
  BY DEF TransportsNext, http2_vars, Http2!vars
<1> QED
  BY <1>1, <1>2, <1>3, PTL DEF TransportsSpec, Spec, Http2!Spec

(* The inductive invariant of the pair of streams. *)
THEOREM DuplexKeeps == TransportsSpec => []IInv
BY EachTransport, DuplexInvariance, PTL

(* A side never holds more than its mark for its reader.                   *)
THEOREM MarkKept == TransportsSpec => []BackPressure
BY EachTransport, DuplexBackPressure, PTL

(* Every _write that has not called back has one callback on its way.      *)
THEOREM CallbackOnce == TransportsSpec => []OneCallback
BY EachTransport, DuplexOneCallback, PTL

(* The pair of in-memory streams implements a channel: what one side       *)
(* writes the other reads, in order, once, and complete before the end.    *)
THEOREM PairIsChannel == TransportsSpec => IsChannel
BY EachTransport, DuplexIsChannel, PTL

(* num_streams is exact and within maxConnections, whichever of 'aborted'  *)
(* and 'close' is heard first (http2-duplex.js 113-137), and the close of  *)
(* the transport leaves no open stream (http2.js 205-227).                 *)
THEOREM StreamsCounted == TransportsSpec => []Http2CountExact
BY TransportsAssumption, EachTransport, StreamCountExact, PTL DEF Http2CountExact

(* A connection handed to the server is reported closed once, even where   *)
(* its stream had closed before the duplex was made (http2-duplex.js 152). *)
THEOREM CloseToldOnce == TransportsSpec => []Http2ServerToldOnce
BY TransportsAssumption, EachTransport, StreamToldOnce, PTL DEF Http2ServerToldOnce
=============================================================================
