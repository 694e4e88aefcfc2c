-------------------------- MODULE IsamInstanceProofs --------------------------
(* Proofs about IsamInstance, for any threads, databases, limit of sessions  *)
(* and faults, as long as no handler pushes while another call goes on.      *)
EXTENDS IsamInstance, FiniteSetTheorems, TLAPS

(* What a list holds after a session has been pushed. *)
LEMMA AppendElements ==
  ASSUME NEW q \in Seq(Sessions), NEW s \in Sessions
  PROVE  /\ Append(q, s) \in Seq(Sessions)
         /\ {Append(q, s)[i] : i \in 1..Len(Append(q, s))} = {q[i] : i \in 1..Len(q)} \union {s}
         /\ (\A i, j \in 1..Len(q) : q[i] = q[j] => i = j) /\ s \notin {q[i] : i \in 1..Len(q)}
              => \A i, j \in 1..Len(Append(q, s)) : Append(q, s)[i] = Append(q, s)[j] => i = j
<1>1. Append(q, s) \in Seq(Sessions) /\ Len(Append(q, s)) = Len(q) + 1 /\ Len(q) \in Nat
  OBVIOUS
<1>2. \A i \in 1..Len(q) : Append(q, s)[i] = q[i]
  OBVIOUS
<1>3. Append(q, s)[Len(q) + 1] = s
  OBVIOUS
<1>4. 1..(Len(q) + 1) = 1..Len(q) \union {Len(q) + 1}
  BY <1>1
<1>. QED  BY <1>1, <1>2, <1>3, <1>4

(* What a list holds after its head has been popped. *)
LEMMA TailElements ==
  ASSUME NEW q \in Seq(Sessions), q # <<>>, \A i, j \in 1..Len(q) : q[i] = q[j] => i = j
  PROVE  /\ Tail(q) \in Seq(Sessions) /\ Head(q) \in Sessions
         /\ Head(q) \in {q[i] : i \in 1..Len(q)}
         /\ {Tail(q)[i] : i \in 1..Len(Tail(q))} = {q[i] : i \in 1..Len(q)} \ {Head(q)}
         /\ \A i, j \in 1..Len(Tail(q)) : Tail(q)[i] = Tail(q)[j] => i = j
<1>1. Len(q) \in Nat /\ Len(q) >= 1 /\ Head(q) = q[1] /\ q[1] \in Sessions
  OBVIOUS
<1>2. Tail(q) \in Seq(Sessions) /\ Len(Tail(q)) = Len(q) - 1
  OBVIOUS
<1>3. \A i \in 1..Len(Tail(q)) : Tail(q)[i] = q[i + 1] /\ i + 1 \in 1..Len(q)
  BY <1>1, <1>2
<1>4. \A i \in 1..Len(q) : i # 1 => i - 1 \in 1..Len(Tail(q)) /\ Tail(q)[i - 1] = q[i]
  BY <1>1, <1>2
<1>5. ASSUME NEW i \in 1..Len(Tail(q)), NEW j \in 1..Len(Tail(q)), Tail(q)[i] = Tail(q)[j]
      PROVE  i = j
  <2>1. i + 1 = j + 1
    BY <1>3, <1>5
  <2>. QED  BY <2>1
<1>6. {Tail(q)[i] : i \in 1..Len(Tail(q))} \subseteq {q[i] : i \in 1..Len(q)} \ {Head(q)}
  <2>1. ASSUME NEW i \in 1..Len(Tail(q))
        PROVE  Tail(q)[i] \in {q[k] : k \in 1..Len(q)} \ {Head(q)}
    <3>1. i + 1 # 1 /\ 1 \in 1..Len(q)
      BY <1>1
    <3>. QED  BY <1>1, <1>3, <3>1
  <2>. QED  BY <2>1
<1>7. {q[i] : i \in 1..Len(q)} \ {Head(q)} \subseteq {Tail(q)[i] : i \in 1..Len(Tail(q))}
  <2>1. ASSUME NEW i \in 1..Len(q), q[i] # Head(q)
        PROVE  q[i] \in {Tail(q)[k] : k \in 1..Len(Tail(q))}
    <3>1. i # 1
      BY <1>1, <2>1
    <3>. QED  BY <1>4, <3>1
  <2>. QED  BY <2>1
<1>. QED  BY <1>1, <1>2, <1>5, <1>6, <1>7

(* Nothing is attached and no session has been begun. *)
LEMMA InitInv == Init => IInv
<1> SUFFICES ASSUME Init PROVE IInv
  OBVIOUS
<1>. USE InstanceAssumption DEF Init, Absent, NoSession, Sessions
<1>1. TypeOK
  BY DEF TypeOK, Stages
<1>2. Control
  BY DEF Control, Open, Close, Counted
<1>3. SessionsConserved
  <2>1. Listed = {} /\ Len(availableSessions) = 0
    BY DEF Listed
  <2>. QED  BY <2>1 DEF SessionsConserved
<1>4. CountsAgree
  BY DEF CountsAgree, Users, Counted
<1>5. EngineAgrees
  BY DEF EngineAgrees
<1>. QED  BY <1>1, <1>2, <1>3, <1>4, <1>5 DEF IInv

(* Who is past the taking of a session has one, and a database to open. *)
LEMMA Held ==
  ASSUME IInv, NEW c \in Clients
  PROVE  /\ pc[c] # "idle" => code[c] \in Codes
         /\ pc[c] \notin {"idle", "taking"} => session[c] \in Sessions /\ session[c] # NoSession
         /\ transaction[c] # "none" => pc[c] = "open"
         /\ transaction[c] = "begun" => session[c] \in Sessions /\ level[session[c]] = 1
<1>1. session[c] \in Sessions \union {NoSession} /\ code[c] \in Codes \union {NoCode}
  BY DEF IInv, TypeOK
<1>2. pc[c] \notin {"idle", "taking"} => session[c] \in Sessions /\ session[c] # NoSession
  BY <1>1 DEF IInv, Control
<1>3. (pc[c] # "idle" => code[c] \in Codes) /\ (transaction[c] # "none" => pc[c] = "open")
  BY <1>1 DEF IInv, Control
<1>4. ASSUME transaction[c] = "begun" PROVE session[c] \in Sessions /\ level[session[c]] = 1
  <2>1. session[c] \in Sessions
    BY <1>2, <1>3, <1>4
  <2>. QED  BY <1>4, <2>1 DEF IInv, EngineAgrees
<1>. QED  BY <1>2, <1>3, <1>4

(* A connection is counted, and nobody is connected where nobody is counted. *)
LEMMA Counts ==
  ASSUME IInv
  PROVE  /\ \A c \in Clients : pc[c] \in Counted => handlesCount[code[c]] \in Nat \ {0}
         /\ \A d \in Codes : handlesCount[d] = 0 => Users(d) = {}
<1>1. \A d \in Codes : IsFiniteSet(Users(d))
  BY InstanceAssumption, FS_Subset DEF Users
<1>2. \A d \in Codes : Cardinality(Users(d)) \in Nat /\ (Cardinality(Users(d)) = 0 <=> Users(d) = {})
  BY <1>1, FS_CardinalityType, FS_EmptySet
<1>3. ASSUME NEW c \in Clients, pc[c] \in Counted PROVE handlesCount[code[c]] \in Nat \ {0}
  <2>1. code[c] \in Codes /\ c \in Users(code[c])
    BY <1>3, Held DEF Counted, Users
  <2>. QED  BY <1>2, <2>1 DEF IInv, CountsAgree
<1>. QED  BY <1>2, <1>3 DEF IInv, CountsAgree, Absent

(* Every step keeps the types. *)
LEMMA TypeStep ==
  ASSUME IInv, NEW c \in Clients, Step(c)
  PROVE  TypeOK'
<1>. USE InstanceAssumption DEF IInv, TypeOK, instance, client, engine, Goto, Absent, NoSession, Stages, Open, Close, Counted
<1>1. CASE OpenDatabase(c)
  BY <1>1 DEF OpenDatabase
<1>2. CASE TakeSession(c)
  <2>1. Head(availableSessions) \in Sessions /\ Tail(availableSessions) \in Seq(Sessions)
    BY <1>2 DEF TakeSession
  <2>. QED  BY <1>2, <2>1 DEF TakeSession
<1>3. CASE CreateSession(c)
  BY <1>3 DEF CreateSession, Sessions
<1>4. CASE CreateSessionFails(c)
  BY <1>4 DEF CreateSessionFails
<1>5. CASE Attach(c)
  BY <1>5 DEF Attach
<1>6. CASE AttachFindsNoFile(c)
  BY <1>6 DEF AttachFindsNoFile
<1>7. CASE CreateDatabase(c)
  BY <1>7 DEF CreateDatabase, Control
<1>8. CASE OpenAttached(c)
  <2>1. code[c] \in Codes /\ handlesCount[code[c]] \in Nat
    BY <1>8, Held DEF OpenAttached, Control
  <2>2. handlesCount[code[c]] + 1 \in Nat
    BY <2>1
  <2>. QED  BY <1>8, <2>1, <2>2 DEF OpenAttached
<1>9. CASE OpenFails(c)
  BY <1>9 DEF OpenFails
<1>10. CASE HandlerReads(c)
  BY <1>10 DEF HandlerReads
<1>11. CASE HandlerWrites(c)
  <2>1. session[c] \in Sessions
    BY <1>11, Held DEF HandlerWrites
  <2>. QED  BY <1>11, <2>1 DEF HandlerWrites
<1>12. CASE BeginTransaction(c)
  <2>1. session[c] \in Sessions
    BY <1>12, Held DEF BeginTransaction
  <2>. QED  BY <1>12, <2>1 DEF BeginTransaction
<1>13. CASE Commit(c) \/ EndTransaction(c)
  <2>1. CASE transaction[c] = "begun"
    <3>1. session[c] \in Sessions /\ level[session[c]] = 1
      BY <2>1, Held
    <3>2. level[session[c]] - 1 \in Nat
      BY <3>1
    <3>3. level' = [level EXCEPT ![session[c]] = level[session[c]] - 1]
      BY <1>13, <2>1 DEF Commit, EndTransaction
    <3>4. level' \in [Sessions -> Nat]
      BY <3>1, <3>2, <3>3
    <3>. QED  BY <1>13, <3>4 DEF Commit, EndTransaction
  <2>2. CASE transaction[c] # "begun"
    BY <1>13, <2>2 DEF Commit, EndTransaction
  <2>. QED  BY <2>1, <2>2
<1>14. CASE CloseDatabase(c)
  BY <1>14 DEF CloseDatabase
<1>15. CASE ReleaseResource(c)
  <2>1. code[c] \in Codes /\ handlesCount[code[c]] \in Nat \ {0}
    BY <1>15, Held, Counts DEF ReleaseResource
  <2>2. handlesCount[code[c]] - 1 \in Nat
    BY <2>1
  <2>. QED  BY <1>15, <2>1, <2>2 DEF ReleaseResource
<1>16. CASE DetachDatabase(c)
  BY <1>16 DEF DetachDatabase
<1>17. CASE ReturnSession(c)
  <2>1. session[c] \in Sessions
    BY <1>17, Held DEF ReturnSession
  <2>. QED  BY <1>17, <2>1 DEF ReturnSession
<1>. QED  BY <1>1, <1>2, <1>3, <1>4, <1>5, <1>6, <1>7, <1>8, <1>9, <1>10, <1>11, <1>12, <1>13, <1>14, <1>15, <1>16, <1>17 DEF Step

(* Who is inside owns the mutex, at every step. *)
LEMMA ControlStep ==
  ASSUME IInv, NEW c \in Clients, Step(c)
  PROVE  Control'
<1>. USE InstanceAssumption DEF IInv, TypeOK, Control, instance, client, engine, Goto, Absent, NoSession, Stages, Open, Close, Counted
<1>1. CASE OpenDatabase(c)
  BY <1>1 DEF OpenDatabase
<1>2. CASE TakeSession(c)
  <2>1. Head(availableSessions) \in Sessions /\ Head(availableSessions) # NoSession
    BY <1>2 DEF TakeSession, Sessions
  <2>. QED  BY <1>2, <2>1 DEF TakeSession
<1>3. CASE CreateSession(c)
  BY <1>3 DEF CreateSession
<1>4. CASE CreateSessionFails(c)
  BY <1>4 DEF CreateSessionFails
<1>5. CASE Attach(c)
  BY <1>5 DEF Attach
<1>6. CASE AttachFindsNoFile(c)
  BY <1>6 DEF AttachFindsNoFile
<1>7. CASE CreateDatabase(c)
  BY <1>7 DEF CreateDatabase
<1>8. CASE OpenAttached(c)
  BY <1>8 DEF OpenAttached
<1>9. CASE OpenFails(c)
  BY <1>9 DEF OpenFails
<1>10. CASE HandlerReads(c)
  BY <1>10 DEF HandlerReads
<1>11. CASE HandlerWrites(c)
  BY <1>11 DEF HandlerWrites
<1>12. CASE BeginTransaction(c) \/ Commit(c) \/ EndTransaction(c)
  BY <1>12 DEF BeginTransaction, Commit, EndTransaction
<1>13. CASE CloseDatabase(c)
  BY <1>13 DEF CloseDatabase
<1>14. CASE ReleaseResource(c)
  <2>1. code[c] \in Codes /\ handlesCount[code[c]] \in Nat \ {0}
    BY <1>14, Held, Counts DEF ReleaseResource
  <2>2. handlesCount' = [handlesCount EXCEPT ![code[c]] = handlesCount[code[c]] - 1] /\ handlesCount'[code[c]] \in Nat
    BY <1>14, <2>1 DEF ReleaseResource
  <2>3. handlesCount[code[c]] = 1 => handlesCount'[code[c]] = 0
    BY <2>1, <2>2
  <2>4. \A b \in Clients : pc[b] \notin {"attaching", "creating", "opening", "detaching", "returning", "taking"}
    BY <1>14 DEF ReleaseResource
  <2>5. \A d \in Codes : handlesCount[d] # Absent => handlesCount'[d] # Absent
    BY <2>1, <2>2
  <2>. QED  BY <1>14, <2>1, <2>3, <2>4, <2>5 DEF ReleaseResource
<1>15. CASE DetachDatabase(c)
  <2>1. code[c] \in Codes /\ Users(code[c]) = {}
    BY <1>15, Held, Counts DEF DetachDatabase
  <2>2. \A b \in Clients : pc[b] \in Counted => code[b] # code[c]
    BY <2>1 DEF Users
  <2>3. \A b \in Clients \ {c} : pc[b] \notin Open \union Close
    BY <1>15 DEF DetachDatabase
  <2>. QED  BY <1>15, <2>1, <2>2, <2>3 DEF DetachDatabase
<1>16. CASE ReturnSession(c)
  BY <1>16 DEF ReturnSession
<1>. QED  BY <1>1, <1>2, <1>3, <1>4, <1>5, <1>6, <1>7, <1>8, <1>9, <1>10, <1>11, <1>12, <1>13, <1>14, <1>15, <1>16 DEF Step

(* No session is lost and none is lent twice. *)
LEMMA SessionsStep ==
  ASSUME IInv, "race" \notin Usage, NEW c \in Clients, Step(c)
  PROVE  SessionsConserved'
<1>. USE DEF IInv, instance, client, engine, Goto
<1>1. alive \/ UNCHANGED <<alive, availableSessions, session, created, ended, seen, pc>>
  BY Held DEF Control, Step, OpenDatabase, TakeSession, CreateSession, CreateSessionFails, Attach,
    AttachFindsNoFile, CreateDatabase, OpenAttached, OpenFails, HandlerReads, HandlerWrites, BeginTransaction,
    Commit, EndTransaction, CloseDatabase, ReleaseResource, DetachDatabase, ReturnSession
<1>2. CASE TakeSession(c)
  <2>1. availableSessions # <<>> /\ alive /\ availableSessions \in Seq(Sessions)
    BY <1>1, <1>2 DEF TakeSession, TypeOK, Control
  <2>2. /\ Tail(availableSessions) \in Seq(Sessions)
        /\ Head(availableSessions) \in Sessions /\ Head(availableSessions) \in Listed
        /\ Listed' = Listed \ {Head(availableSessions)}
        /\ \A i, j \in 1..Len(availableSessions') : availableSessions'[i] = availableSessions'[j] => i = j
    <3>1. \A i, j \in 1..Len(availableSessions) : availableSessions[i] = availableSessions[j] => i = j
      BY DEF SessionsConserved
    <3>2. availableSessions' = Tail(availableSessions)
      BY <1>2 DEF TakeSession
    <3>3. /\ Tail(availableSessions) \in Seq(Sessions) /\ Head(availableSessions) \in Sessions
          /\ Head(availableSessions) \in {availableSessions[i] : i \in 1..Len(availableSessions)}
          /\ {Tail(availableSessions)[i] : i \in 1..Len(Tail(availableSessions))}
               = {availableSessions[i] : i \in 1..Len(availableSessions)} \ {Head(availableSessions)}
          /\ \A i, j \in 1..Len(Tail(availableSessions)) :
               Tail(availableSessions)[i] = Tail(availableSessions)[j] => i = j
      BY ONLY <2>1, <3>1, TailElements, Zenon
    <3>4. Listed' = {Tail(availableSessions)[i] : i \in 1..Len(Tail(availableSessions))}
      BY ONLY <3>2, Zenon DEF Listed
    <3>5. \A i, j \in 1..Len(availableSessions') : availableSessions'[i] = availableSessions'[j] => i = j
      BY ONLY <3>2, <3>3, Zenon
    <3>. QED  BY ONLY <3>3, <3>4, <3>5, Zenon DEF Listed
  <2>3. session[c] = NoSession /\ session' = [session EXCEPT ![c] = Head(availableSessions)]
    BY <1>2 DEF TakeSession, Control
  <2>4. \A b \in Clients : pc'[b] # "pushing"
    BY <1>2 DEF TakeSession, ListIsQuiet, TypeOK
  <2>5. \A s \in Sessions : s # NoSession
    BY InstanceAssumption DEF Sessions, NoSession
  <2>. QED  BY <1>2, <2>1, <2>2, <2>3, <2>4, <2>5 DEF TakeSession, SessionsConserved, TypeOK
<1>3. CASE CreateSession(c)
  <2>1. availableSessions = <<>> /\ alive /\ Listed = {} /\ Listed' = {}
    BY <1>1, <1>3 DEF CreateSession, TypeOK, Control, Listed
  <2>2. session[c] = NoSession /\ session' = [session EXCEPT ![c] = created + 1]
    BY <1>3 DEF CreateSession, Control
  <2>3. \A b \in Clients : pc'[b] # "pushing"
    BY <1>3 DEF CreateSession, ListIsQuiet, TypeOK
  <2>4. created + 1 \in Sessions /\ created + 1 # NoSession /\ created \in Nat /\ NoSession \notin Sessions
    BY <1>3, InstanceAssumption DEF CreateSession, TypeOK, Sessions, NoSession
  <2>5. \A b \in Clients : session[b] # created + 1
    <3>1. \A b \in Clients : session[b] \in Sessions => session[b] <= created
      BY <2>1 DEF SessionsConserved
    <3>. QED  BY <2>4, <3>1
  <2>6. \A s \in Sessions : s <= created + 1 <=> s <= created \/ s = created + 1
    BY <2>4 DEF Sessions
  <2>7. \A s \in Sessions : s <= created' <=> s \in Listed' \/ \E b \in Clients : session'[b] = s
    <3>1. \A b \in Clients : session'[b] = IF b = c THEN created + 1 ELSE session[b]
      BY <2>2 DEF TypeOK
    <3>2. \A s \in Sessions : s <= created <=> \E b \in Clients : session[b] = s
      BY <2>1 DEF SessionsConserved
    <3>3. \A s \in Sessions : (\E b \in Clients : session'[b] = s) <=> (s = created + 1 \/ \E b \in Clients : session[b] = s)
      BY <2>2, <2>4, <3>1
    <3>4. created' = created + 1
      BY <1>3 DEF CreateSession
    <3>. QED  BY <2>1, <2>6, <3>2, <3>3, <3>4
  <2>8. \A b, d \in Clients : session'[b] = session'[d] /\ session'[b] # NoSession => b = d
    BY <2>2, <2>5 DEF SessionsConserved, TypeOK
  <2>. QED  BY <1>3, <2>1, <2>3, <2>7, <2>8 DEF CreateSession, SessionsConserved, TypeOK
<1>4. CASE HandlerReads(c)
  <2>1. \A b \in Clients : pc'[b] = "pushing" => b = c
    BY <1>4 DEF HandlerReads, ListIsQuiet, TypeOK
  <2>2. seen'[c] = availableSessions' /\ UNCHANGED <<alive, availableSessions, session, created, ended>>
    BY <1>4 DEF HandlerReads, TypeOK
  <2>3. Listed' = Listed
    BY <2>2 DEF Listed
  <2>. QED  BY <2>1, <2>2, <2>3 DEF SessionsConserved
<1>5. CASE HandlerWrites(c) \/ ReturnSession(c)
  <2>1. session[c] \in Sessions /\ session[c] # NoSession /\ alive
    BY <1>1, <1>5, Held DEF HandlerWrites, ReturnSession, Control
  <2>2. availableSessions \in Seq(Sessions) /\ availableSessions' = Append(availableSessions, session[c])
    BY <1>5 DEF HandlerWrites, ReturnSession, SessionsConserved, TypeOK
  <2>3. session[c] \notin Listed
    BY DEF SessionsConserved
  <2>4. /\ Listed' = Listed \union {session[c]}
        /\ \A i, j \in 1..Len(availableSessions') : availableSessions'[i] = availableSessions'[j] => i = j
    BY <2>1, <2>2, <2>3, AppendElements DEF Listed, SessionsConserved
  <2>5. session' = [session EXCEPT ![c] = NoSession] /\ UNCHANGED <<alive, created, ended>>
    BY <1>5 DEF HandlerWrites, ReturnSession
  <2>6. \A b \in Clients : pc'[b] # "pushing"
    BY <1>5 DEF HandlerWrites, ReturnSession, ListIsQuiet, SessionsConserved, TypeOK
  <2>7. NoSession \notin Sessions /\ NoSession \notin Listed
    <3>1. Listed \subseteq Sessions
      BY <2>2 DEF Listed
    <3>. QED  BY <3>1 DEF Sessions, NoSession
  <2>. QED  BY <2>1, <2>3, <2>4, <2>5, <2>6, <2>7 DEF SessionsConserved, TypeOK
<1>6. CASE UNCHANGED <<alive, availableSessions, session, created, ended, seen>> /\ (pc' = pc \/ \E w \in Stages \ {"pushing"} : Goto(c, w))
  <2>1. \A b \in Clients : pc'[b] = "pushing" => pc[b] = "pushing"
    BY <1>6 DEF TypeOK
  <2>2. Listed' = Listed
    BY <1>6 DEF Listed
  <2>. QED  BY <1>6, <2>1, <2>2 DEF SessionsConserved
<1>. QED  BY <1>2, <1>3, <1>4, <1>5, <1>6 DEF Step, OpenDatabase, CreateSessionFails, Attach,
    AttachFindsNoFile, CreateDatabase, OpenAttached, OpenFails, BeginTransaction, Commit, EndTransaction,
    CloseDatabase, ReleaseResource, DetachDatabase, Stages, Open, Close, Counted

(* The entries count the connections, and are there while the database is    *)
(* attached.                                                                 *)
LEMMA CountsStep ==
  ASSUME IInv, NEW c \in Clients, Step(c)
  PROVE  CountsAgree'
<1>. USE DEF IInv, instance, client, engine, Goto, Counted
<1>1. \A d \in Codes : IsFiniteSet(Users(d)) /\ Cardinality(Users(d)) \in Nat
  BY InstanceAssumption, FS_Subset, FS_CardinalityType DEF Users
<1>2. CASE CreateDatabase(c) \/ OpenAttached(c)
  <2>0. code[c] \in Codes
    BY <1>2, Held DEF CreateDatabase, OpenAttached
  <2>. PICK e \in Codes : e = code[c]
    BY <2>0
  <2>1. handlesCount[e] \in Nat \union {Absent}
    BY DEF TypeOK
  <2>2. c \notin Users(e) /\ Users(e)' = Users(e) \union {c}
    BY <1>2 DEF CreateDatabase, OpenAttached, Users, TypeOK
  <2>3. \A d \in Codes \ {e} : Users(d)' = Users(d)
    BY <1>2 DEF CreateDatabase, OpenAttached, Users, TypeOK
  <2>4. Cardinality(Users(e)') = Cardinality(Users(e)) + 1
    BY <1>1, <2>1, <2>2, FS_AddElement
  <2>5. CASE CreateDatabase(c)
    <3>1. handlesCount[e] = Absent
      BY <2>5 DEF CreateDatabase, Control
    <3>2. Users(e) = {}
      BY <2>1, <3>1 DEF CountsAgree
    <3>3. Cardinality(Users(e)') = 1
      BY <2>4, <3>2, FS_EmptySet
    <3>. QED  BY <2>1, <2>3, <2>5, <3>3 DEF CreateDatabase, CountsAgree, TypeOK, Absent
  <2>6. CASE OpenAttached(c)
    <3>1. handlesCount[e] = Cardinality(Users(e)) /\ handlesCount[e] # Absent
      BY <2>1, <2>6 DEF OpenAttached, Control, CountsAgree
    <3>2. handlesCount'[e] = Cardinality(Users(e)') /\ handlesCount'[e] # Absent
      BY <1>1, <2>1, <2>4, <2>6, <3>1 DEF OpenAttached, TypeOK, Absent
    <3>3. \A d \in Codes \ {e} : handlesCount'[d] = handlesCount[d]
      BY <2>6 DEF OpenAttached, TypeOK
    <3>4. attached' = attached
      BY <2>6 DEF OpenAttached
    <3>5. attached' = {d \in Codes : handlesCount'[d] # Absent}
      BY <2>1, <3>1, <3>2, <3>3, <3>4 DEF CountsAgree
    <3>6. ASSUME NEW d \in Codes
          PROVE  IF handlesCount'[d] = Absent THEN Users(d)' = {} ELSE handlesCount'[d] = Cardinality(Users(d)')
      <4>1. CASE d = e
        BY <3>2, <4>1
      <4>2. CASE d # e
        BY <2>3, <3>3, <4>2 DEF CountsAgree
      <4>. QED  BY <4>1, <4>2
    <3>. QED  BY <3>5, <3>6 DEF CountsAgree
  <2>. QED  BY <1>2, <2>5, <2>6
<1>3. CASE ReleaseResource(c)
  <2>0. code[c] \in Codes
    BY <1>3, Held DEF ReleaseResource
  <2>. PICK e \in Codes : e = code[c]
    BY <2>0
  <2>1. handlesCount[e] \in Nat \ {0}
    BY <1>3, Counts DEF ReleaseResource
  <2>2. c \in Users(e) /\ Users(e)' = Users(e) \ {c}
    BY <1>3 DEF ReleaseResource, Users, TypeOK
  <2>3. \A d \in Codes \ {e} : Users(d)' = Users(d)
    BY <1>3 DEF ReleaseResource, Users, TypeOK
  <2>4. Cardinality(Users(e)') = Cardinality(Users(e)) - 1
    BY <1>1, <2>1, <2>2, FS_RemoveElement
  <2>5. handlesCount[e] = Cardinality(Users(e))
    BY <2>1 DEF CountsAgree, Absent
  <2>6. /\ handlesCount'[e] = Cardinality(Users(e)')
        /\ handlesCount'[e] # Absent /\ handlesCount[e] # Absent
    BY <1>3, <2>1, <2>4, <2>5 DEF ReleaseResource, TypeOK, Absent
  <2>7. \A d \in Codes \ {e} : handlesCount'[d] = handlesCount[d]
    BY <1>3 DEF ReleaseResource, TypeOK
  <2>8. attached' = attached
    BY <1>3 DEF ReleaseResource
  <2>9. attached' = {d \in Codes : handlesCount'[d] # Absent}
    BY <2>1, <2>6, <2>7, <2>8 DEF CountsAgree
  <2>10. ASSUME NEW d \in Codes
         PROVE  IF handlesCount'[d] = Absent THEN Users(d)' = {} ELSE handlesCount'[d] = Cardinality(Users(d)')
    <3>1. CASE d = e
      BY <2>6, <3>1
    <3>2. CASE d # e
      BY <2>3, <2>7, <3>2 DEF CountsAgree
    <3>. QED  BY <3>1, <3>2
  <2>. QED  BY <2>9, <2>10 DEF CountsAgree
<1>4. CASE Attach(c)
  <2>0. code[c] \in Codes
    BY <1>4, Held DEF Attach
  <2>. PICK e \in Codes : e = code[c]
    BY <2>0
  <2>1. handlesCount[e] = Absent
    BY <1>4 DEF Attach, Control
  <2>2. \A d \in Codes : Users(d)' = Users(d)
    BY <1>4 DEF Attach, Users, TypeOK
  <2>3. Users(e) = {}
    BY <2>1 DEF CountsAgree
  <2>4. 0 = Cardinality(Users(e)')
    <3>1. Users(e)' = {}
      BY <2>1, <2>2, <2>3
    <3>. QED  BY <3>1, FS_EmptySet, Zenon
  <2>. QED  BY <1>4, <2>1, <2>2, <2>4 DEF Attach, CountsAgree, TypeOK, Absent
<1>5. CASE DetachDatabase(c)
  <2>0. code[c] \in Codes
    BY <1>5, Held DEF DetachDatabase
  <2>. PICK e \in Codes : e = code[c]
    BY <2>0
  <2>1. Users(e) = {}
    BY <1>5, Counts DEF DetachDatabase, Control
  <2>2. \A d \in Codes : Users(d)' = Users(d)
    BY <1>5 DEF DetachDatabase, Users, TypeOK
  <2>. QED  BY <1>5, <2>1, <2>2 DEF DetachDatabase, CountsAgree, TypeOK
<1>6. CASE UNCHANGED <<handlesCount, attached>> /\ \A d \in Codes : Users(d)' = Users(d)
  BY <1>6 DEF CountsAgree
<1>7. ASSUME UNCHANGED <<handlesCount, attached>>,
             \A b \in Clients : pc'[b] \in Counted \/ pc[b] \in Counted =>
                pc'[b] \in Counted /\ pc[b] \in Counted /\ code'[b] = code[b]
      PROVE  CountsAgree'
  BY <1>6, <1>7 DEF Users
<1>. QED  BY <1>2, <1>3, <1>4, <1>5, <1>7 DEF Step, OpenDatabase, TakeSession, CreateSession, CreateSessionFails,
    AttachFindsNoFile, OpenFails, HandlerReads, HandlerWrites, BeginTransaction, Commit, EndTransaction,
    CloseDatabase, ReturnSession, TypeOK

(* A session has open what its client has open, and no more. *)
LEMMA EngineStep ==
  ASSUME IInv, "race" \notin Usage, NEW c \in Clients, Step(c), SessionsConserved'
  PROVE  EngineAgrees'
<1>. USE DEF IInv, instance, client, engine, Goto
<1>1. NoSession \notin Sessions
  BY DEF NoSession, Sessions
<1>2. CASE TakeSession(c) \/ CreateSession(c)
  <2>1. session[c] = NoSession /\ (\A b \in Clients \ {c} : session'[b] = session[b] /\ pc'[b] = pc[b])
    BY <1>2 DEF TakeSession, CreateSession, Control, TypeOK
  <2>2. \A b \in Clients \ {c} : session[b] # session'[c]
    <3>1. session'[c] # NoSession
      <4>1. TakeSession(c) => Head(availableSessions) \in Sessions
        BY DEF TakeSession, TypeOK
      <4>2. CreateSession(c) => created + 1 \in Sessions
        BY InstanceAssumption DEF CreateSession, TypeOK, Sessions
      <4>. QED  BY <1>1, <1>2, <4>1, <4>2 DEF TakeSession, CreateSession, TypeOK
    <3>. QED  BY <2>1, <3>1 DEF SessionsConserved
  <2>3. pc[c] = "taking" /\ pc'[c] # "open" /\ transaction[c] = "none" /\ UNCHANGED <<transaction, opened, level, code>>
    BY <1>2 DEF TakeSession, CreateSession, Control, TypeOK
  <2>4. ASSUME NEW s \in Sessions, s = session'[c]
        PROVE  opened[s] = NoCode /\ level[s] = 0
    BY <1>1, <2>1, <2>2, <2>4 DEF EngineAgrees
  <2>5. ASSUME NEW s \in Sessions, s # session'[c]
        PROVE  \A b \in Clients : session'[b] = s <=> session[b] = s
    BY <1>1, <2>1, <2>5
  <2>. QED  BY <2>1, <2>2, <2>3, <2>4, <2>5 DEF EngineAgrees
<1>3. CASE HandlerWrites(c) \/ ReturnSession(c)
  <2>1. session' = [session EXCEPT ![c] = NoSession] /\ pc[c] # "open" /\ pc'[c] # "open" /\ transaction[c] = "none"
    BY <1>3 DEF HandlerWrites, ReturnSession, Control, TypeOK
  <2>2. UNCHANGED <<transaction, opened, level>> /\ \A b \in Clients \ {c} : pc'[b] = pc[b] /\ code'[b] = code[b]
    BY <1>3 DEF HandlerWrites, ReturnSession, TypeOK
  <2>3. \A b \in Clients \ {c} : session[b] # NoSession => session[b] # session[c]
    BY DEF SessionsConserved
  <2>. QED  BY <1>1, <2>1, <2>2, <2>3 DEF EngineAgrees, TypeOK
<1>4. CASE CreateDatabase(c) \/ OpenAttached(c) \/ CloseDatabase(c) \/ BeginTransaction(c) \/ Commit(c) \/ EndTransaction(c)
  <2>1. session[c] \in Sessions /\ session' = session
    BY <1>4, Held DEF CreateDatabase, OpenAttached, CloseDatabase, BeginTransaction, Commit, EndTransaction
  <2>2. \A b \in Clients \ {c} : session[b] # session[c] /\ pc'[b] = pc[b] /\ code'[b] = code[b] /\ transaction'[b] = transaction[b]
    BY <1>1, <1>4, <2>1 DEF CreateDatabase, OpenAttached, CloseDatabase, BeginTransaction, Commit, EndTransaction,
      SessionsConserved, TypeOK
  <2>3. \A s \in Sessions \ {session[c]} : opened'[s] = opened[s] /\ level'[s] = level[s]
    BY <1>4 DEF CreateDatabase, OpenAttached, CloseDatabase, BeginTransaction, Commit, EndTransaction, TypeOK
  <2>4. opened[session[c]] = (IF pc[c] = "open" THEN code[c] ELSE NoCode) /\ level[session[c]] = (IF transaction[c] = "begun" THEN 1 ELSE 0)
    BY <2>1 DEF EngineAgrees
  <2>5. opened'[session[c]] = (IF pc'[c] = "open" THEN code'[c] ELSE NoCode)
    BY <1>4, <2>1, <2>4 DEF CreateDatabase, OpenAttached, CloseDatabase, BeginTransaction, Commit, EndTransaction, TypeOK, Control
  <2>6. level'[session[c]] = (IF transaction'[c] = "begun" THEN 1 ELSE 0)
    BY <1>4, <2>1, <2>4 DEF CreateDatabase, OpenAttached, CloseDatabase, BeginTransaction, Commit, EndTransaction, TypeOK
  <2>. QED  BY <2>1, <2>2, <2>3, <2>5, <2>6 DEF EngineAgrees
<1>5. ASSUME UNCHANGED <<session, opened, level, transaction>>,
             \A b \in Clients : session[b] # NoSession =>
               (pc'[b] = "open" <=> pc[b] = "open") /\ (pc[b] = "open" => code'[b] = code[b])
      PROVE  EngineAgrees'
  BY <1>1, <1>5 DEF EngineAgrees
<1>. QED  BY <1>2, <1>3, <1>4, <1>5 DEF Step, OpenDatabase, CreateSessionFails, Attach, AttachFindsNoFile,
    OpenFails, HandlerReads, ReleaseResource, DetachDatabase, TypeOK

(* The instance goes, or nothing happens. *)
LEMMA ShutdownStep ==
  ASSUME IInv, Shutdown \/ UNCHANGED vars
  PROVE  IInv'
<1>. USE DEF IInv, instance, client, engine
<1>1. CASE Shutdown
  <2>1. \A c \in Clients : pc[c] = "idle" /\ session[c] = NoSession /\ UNCHANGED client
    BY <1>1 DEF Shutdown, Control
  <2>2. Listed' = {} /\ Len(availableSessions') = 0 /\ availableSessions' = <<>>
    BY <1>1 DEF Shutdown, Listed
  <2>3. ended' = 1..created
    <3>1. ended' = Listed /\ alive
      BY <1>1 DEF Shutdown, Listed
    <3>2. \A s \in Sessions : s <= created <=> s \in Listed
      BY <2>1, <3>1 DEF SessionsConserved, NoSession, Sessions
    <3>3. Listed \subseteq Sessions /\ 1..created \subseteq Sessions /\ \A s \in Sessions : s <= created <=> s \in 1..created
      BY InstanceAssumption DEF TypeOK, Sessions, Listed
    <3>. QED  BY <3>1, <3>2, <3>3
  <2>4. TypeOK'
    <3>1. ended' \subseteq Sessions /\ availableSessions' \in Seq(Sessions)
      BY <2>2, <2>3, InstanceAssumption DEF TypeOK, Sessions
    <3>. QED  BY <1>1, <3>1 DEF Shutdown, TypeOK
  <2>5. Control'
    BY <1>1 DEF Shutdown, Control
  <2>6. SessionsConserved'
    BY <1>1, <2>1, <2>2, <2>3 DEF Shutdown, SessionsConserved
  <2>7. CountsAgree'
    BY <1>1 DEF Shutdown, CountsAgree, Users
  <2>8. EngineAgrees'
    BY <1>1 DEF Shutdown, EngineAgrees
  <2>. QED  BY <2>4, <2>5, <2>6, <2>7, <2>8
<1>2. CASE UNCHANGED vars
  <2>1. TypeOK' /\ Control'
    BY <1>2 DEF vars, TypeOK, Control
  <2>2. SessionsConserved'
    <3>1. Listed' = Listed
      BY <1>2 DEF vars, Listed
    <3>. QED  BY <1>2, <3>1 DEF vars, SessionsConserved
  <2>3. CountsAgree' /\ EngineAgrees'
    BY <1>2 DEF vars, CountsAgree, Users, EngineAgrees
  <2>. QED  BY <2>1, <2>2, <2>3
<1>. QED  BY <1>1, <1>2

(* The invariant is inductive. *)
LEMMA NextInv ==
  ASSUME "race" \notin Usage, IInv, [Next]_vars
  PROVE  IInv'
<1>1. ASSUME NEW c \in Clients, Step(c) PROVE IInv'
  BY <1>1, TypeStep, ControlStep, SessionsStep, CountsStep, EngineStep DEF IInv
<1>. QED  BY <1>1, ShutdownStep DEF Next, Gone

(* The invariant holds: a session is available or lent once, entries count   *)
(* connections, and the engine has open what the clients have.               *)
THEOREM Invariance ==
  ASSUME "race" \notin Usage
  PROVE  Spec => []IInv
BY InitInv, NextInv, PTL DEF Spec

(* The destructor ends all the sessions that were begun. *)
THEOREM AllSessionsEnd ==
  ASSUME "race" \notin Usage
  PROVE  Spec => []NothingLeft
<1>1. IInv => NothingLeft
  BY DEF IInv, SessionsConserved, NothingLeft
<1>. QED  BY <1>1, Invariance, PTL

(* A thread that has a session begun has none yet, while everybody else may  *)
(* have one: there were fewer sessions than threads.                         *)
LEMMA FewerBefore ==
  ASSUME IInv, NEW c \in Clients, CreateSession(c)
  PROVE  created + 1 <= Cardinality(Clients)
<1>. DEFINE S == {b \in Clients : session[b] # NoSession}
            f == [b \in S |-> session[b]]
<1>1. session[c] = NoSession /\ Listed = {} /\ alive /\ created \in Nat /\ created <= MaxSessions
  BY InstanceAssumption DEF IInv, Control, CreateSession, Listed, TypeOK
<1>2. \A s \in Sessions : s <= created <=> \E b \in Clients : session[b] = s
  BY <1>1 DEF IInv, SessionsConserved
<1>3. f \in [S -> 1..created]
  <2>1. ASSUME NEW b \in S PROVE session[b] \in 1..created
    <3>1. session[b] \in Sessions
      BY DEF IInv, TypeOK
    <3>. QED  BY <1>1, <1>2, <3>1 DEF Sessions
  <2>. QED  BY <2>1
<1>4. ASSUME NEW s \in 1..created PROVE \E b \in S : f[b] = s
  <2>1. s \in Sessions /\ s # NoSession /\ s <= created
    BY <1>1, InstanceAssumption DEF Sessions, NoSession
  <2>2. PICK b \in Clients : session[b] = s
    BY <1>2, <2>1
  <2>. QED  BY <2>1, <2>2
<1>5. f \in Surjection(S, 1..created)
  BY <1>3, <1>4 DEF Surjection
<1>6. S \subseteq Clients \ {c} /\ IsFiniteSet(Clients) /\ c \in Clients
  BY <1>1, InstanceAssumption
<1>7. IsFiniteSet(Clients \ {c}) /\ Cardinality(Clients \ {c}) = Cardinality(Clients) - 1
  BY <1>6, FS_RemoveElement
<1>8. IsFiniteSet(S) /\ Cardinality(S) <= Cardinality(Clients \ {c})
  BY <1>6, <1>7, FS_Subset
<1>9. Cardinality(1..created) <= Cardinality(S)
  BY <1>5, <1>8, FS_Surjection
<1>10. Cardinality(1..created) = created
  BY <1>1, FS_Interval
<1>11. Cardinality(S) \in Nat /\ Cardinality(Clients) \in Nat
  BY <1>6, <1>8, FS_CardinalityType
<1>. QED  BY <1>1, <1>7, <1>8, <1>9, <1>10, <1>11

(* There are never more sessions than threads. *)
THEOREM SessionsAreReused ==
  ASSUME "race" \notin Usage
  PROVE  Spec => []SessionsBounded
<1>1. Init => SessionsBounded
  <2>1. Cardinality(Clients) \in Nat
    BY InstanceAssumption, FS_CardinalityType
  <2>. QED  BY <2>1 DEF Init, SessionsBounded
<1>2. IInv /\ SessionsBounded /\ [Next]_vars => SessionsBounded'
  <2>. SUFFICES ASSUME IInv, SessionsBounded, [Next]_vars PROVE SessionsBounded'
    OBVIOUS
  <2>1. ASSUME NEW c \in Clients, CreateSession(c) PROVE SessionsBounded'
    BY <2>1, FewerBefore DEF CreateSession, SessionsBounded
  <2>2. CASE created' = created
    BY <2>2 DEF SessionsBounded
  <2>. QED  BY <2>1, <2>2 DEF Next, Step, vars, instance, client, engine, Shutdown, Gone, OpenDatabase, TakeSession,
    CreateSessionFails, Attach, AttachFindsNoFile, CreateDatabase, OpenAttached, OpenFails, HandlerReads,
    HandlerWrites, BeginTransaction, Commit, EndTransaction, CloseDatabase, ReleaseResource, DetachDatabase,
    ReturnSession
<1>. QED  BY <1>1, <1>2, Invariance, PTL DEF Spec

(* Every step of the instance is a step of the abstract specification.       *)
LEMMA StepRefines ==
  ASSUME IInv, IInv', NEW c \in Clients, Step(c)
  PROVE  [Leases!Next]_<<session, [b \in Clients |-> IF pc[b] = "open" THEN code[b] ELSE NoCode], attached>>
<1>. DEFINE conn == [b \in Clients |-> IF pc[b] = "open" THEN code[b] ELSE NoCode]
<1>. USE DEF instance, client, engine, Goto
<1>0. pc \in [Clients -> Stages] /\ code \in [Clients -> Codes \union {NoCode}] /\ session \in [Clients -> Sessions \union {NoSession}]
  BY DEF IInv, TypeOK
<1>1. CASE TakeSession(c) \/ CreateSession(c)
  <2>1. session[c] = NoSession /\ session'[c] \in Sessions
    <3>1. session'[c] \in Sessions \union {NoSession} /\ session'[c] # NoSession
      BY <1>0, <1>1 DEF IInv, TypeOK, Control, TakeSession, CreateSession
    <3>. QED  BY <1>1, <3>1 DEF IInv, Control, TakeSession, CreateSession
  <2>2. session' = [session EXCEPT ![c] = session'[c]] /\ UNCHANGED <<conn, attached>>
    BY <1>0, <1>1 DEF TakeSession, CreateSession
  <2>3. \A b \in Clients : session[b] # session'[c]
    <3>1. \A b \in Clients \ {c} : session'[b] = session[b]
      BY <1>0, <2>2
    <3>2. NoSession \notin Sessions
      BY DEF NoSession, Sessions
    <3>. QED  BY <2>1, <3>1, <3>2 DEF IInv, SessionsConserved
  <2>4. Leases!Take(c, session'[c])
    BY <2>1, <2>2, <2>3 DEF Leases!Take
  <2>. QED  BY <2>1, <2>4 DEF Leases!Next
<1>2. CASE HandlerWrites(c) \/ ReturnSession(c)
  <2>1. session[c] # NoSession /\ conn[c] = NoCode
    BY <1>2 DEF IInv, Control, HandlerWrites, ReturnSession
  <2>2. session' = [session EXCEPT ![c] = NoSession] /\ UNCHANGED <<conn, attached>>
    BY <1>0, <1>2 DEF HandlerWrites, ReturnSession
  <2>3. Leases!Give(c)
    BY <2>1, <2>2 DEF Leases!Give
  <2>. QED  BY <2>3 DEF Leases!Next
<1>3. CASE Attach(c)
  <2>1. Leases!Mount(code[c]) /\ code[c] \in Codes
    BY <1>0, <1>3, Held DEF Attach, Leases!Mount
  <2>. QED  BY <2>1 DEF Leases!Next
<1>4. CASE CreateDatabase(c)
  <2>1. code[c] \in Codes /\ session[c] # NoSession /\ conn[c] = NoCode /\ code[c] \notin attached
    BY <1>4, Held DEF CreateDatabase, IInv, Control, CountsAgree
  <2>2. conn' = [conn EXCEPT ![c] = code[c]]
    BY <1>0, <1>4 DEF CreateDatabase
  <2>. PICK e \in Codes : e = code[c]
    BY <2>1
  <2>3. Leases!Create(c, e)
    BY <1>4, <2>1, <2>2 DEF CreateDatabase, Leases!Create
  <2>4. \E d \in Codes : Leases!Connect(c, d) \/ Leases!Create(c, d)
    BY <2>3
  <2>. QED  BY <2>4, Zenon DEF Leases!Next
<1>5. CASE OpenAttached(c)
  <2>1. code[c] \in Codes /\ session[c] # NoSession /\ conn[c] = NoCode /\ code[c] \in attached
    BY <1>5, Held DEF OpenAttached, IInv, Control, CountsAgree
  <2>2. conn' = [conn EXCEPT ![c] = code[c]]
    BY <1>0, <1>5 DEF OpenAttached
  <2>. PICK e \in Codes : e = code[c]
    BY <2>1
  <2>3. Leases!Connect(c, e)
    BY <1>5, <2>1, <2>2 DEF OpenAttached, Leases!Connect
  <2>4. \E d \in Codes : Leases!Connect(c, d) \/ Leases!Create(c, d)
    BY <2>3
  <2>. QED  BY <2>4, Zenon DEF Leases!Next
<1>6. CASE CloseDatabase(c)
  <2>1. code[c] \in Codes /\ conn[c] # NoCode
    BY <1>6, Held, InstanceAssumption DEF CloseDatabase
  <2>2. conn' = [conn EXCEPT ![c] = NoCode]
    BY <1>0, <1>6 DEF CloseDatabase
  <2>3. Leases!Disconnect(c)
    BY <1>6, <2>1, <2>2 DEF CloseDatabase, Leases!Disconnect
  <2>. QED  BY <2>3 DEF Leases!Next
<1>7. CASE DetachDatabase(c)
  <2>1. code[c] \in Codes /\ Users(code[c]) = {}
    BY <1>7, Held, Counts DEF DetachDatabase, IInv, Control
  <2>2. \A b \in Clients : conn[b] # code[c]
    BY <2>1, InstanceAssumption DEF Users, Counted
  <2>3. UNCHANGED <<session, conn>>
    BY <1>0, <1>7 DEF DetachDatabase
  <2>4. Leases!Dismount(code[c])
    BY <1>7, <2>2, <2>3 DEF DetachDatabase, Leases!Dismount
  <2>. QED  BY <2>1, <2>4 DEF Leases!Next
<1>8. CASE UNCHANGED <<session, code, attached>> /\ \A b \in Clients : pc'[b] = "open" <=> pc[b] = "open"
  BY <1>8
<1>9. CASE OpenDatabase(c) \/ CreateSessionFails(c)
  <2>1. UNCHANGED <<session, attached>> /\ \A b \in Clients \ {c} : pc'[b] = pc[b] /\ code'[b] = code[b]
    BY <1>0, <1>9 DEF OpenDatabase, CreateSessionFails
  <2>2. pc[c] # "open" /\ pc'[c] # "open"
    BY <1>0, <1>9 DEF OpenDatabase, CreateSessionFails
  <2>. QED  BY <2>1, <2>2
<1>. QED  BY <1>0, <1>1, <1>2, <1>3, <1>4, <1>5, <1>6, <1>7, <1>8, <1>9 DEF Step, AttachFindsNoFile, OpenFails, HandlerReads,
    BeginTransaction, Commit, EndTransaction, ReleaseResource

(* Sessions are lent to one client at a time, and databases stay mounted     *)
(* while a client is connected.                                              *)
THEOREM Refinement ==
  ASSUME "race" \notin Usage
  PROVE  Spec => ImplementsLeases
<1>1. Init => Leases!Init
  BY DEF Init, Leases!Init
<1>2. IInv /\ IInv' /\ [Next]_vars => [Leases!Next]_<<session, [c \in Clients |-> IF pc[c] = "open" THEN code[c] ELSE NoCode], attached>>
  BY StepRefines DEF Next, Shutdown, Gone, vars, client, engine
<1>3. Spec => []IInv
  BY Invariance
<1>. QED  BY <1>1, <1>2, <1>3, PTL DEF Spec, ImplementsLeases, Leases!Spec
===============================================================================
