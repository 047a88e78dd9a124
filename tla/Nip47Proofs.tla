---------------------------- MODULE Nip47Proofs -----------------------------
(***************************************************************************)
(* Proofs about Nip47Controller, for any number of connections, requests   *)
(* and kills: types, the one listener, the answers and the apps file.      *)
(***************************************************************************)
EXTENDS Nip47Controller, FiniteSetTheorems, TLAPS

-----------------------------------------------------------------------------
(* Types.                                                                  *)

\* The listener of a connection does not exist before its handler starts it.
NotStarted ==
  \A a \in Apps : conn[a] \in {"new", "add", "stop", "spawn"} => listener[a] = "none"

TypeInv == TypeOK /\ NotStarted

\* Files that do not parse, one with some apps, and what one text over another makes.
LEMMA FileTypes ==
  /\ Unreadable("empty") \in File /\ Unreadable("torn") \in File
  /\ \A S \in SUBSET Apps : Good(S) \in File /\ Overlay(S) \subseteq File
BY DEF File, Good, Unreadable, Overlay

\* What a start makes of the memory is well typed, and nobody listens yet.
LEMMA RestartTypes == ASSUME TypeInv, Restart, crashes' \in 0..MaxCrashes PROVE TypeInv'
<1> USE DEF TypeInv, TypeOK, Restart
<1>1. file.apps \subseteq Apps /\ InFlight \subseteq Apps
  BY DEF File, InFlight
<1>2. down' \in BOOLEAN
  BY <1>1
<1>3. listener' \in [Listeners -> {"none", "spawned", "listening", "stopped"}]
  BY <1>1
<1>4. conn' \in [Apps -> {"new", "add", "stop", "spawn", "serialise", "truncate", "fill",
                          "done", "failed", "cut"}]
  BY DEF Handling, Ended
<1>5. NotStarted'
  BY Nip47Assumption, <1>1 DEF NotStarted, Handling, Ended, Listeners
<1> QED
  BY <1>1, <1>2, <1>3, <1>4, <1>5

\* Every step keeps the types.
LEMMA TypeStep == TypeInv /\ [Next]_vars => TypeInv'
<1> SUFFICES ASSUME TypeInv, [Next]_vars PROVE TypeInv'
  OBVIOUS
<1> USE DEF TypeInv, TypeOK, NotStarted
<1>1. ASSUME NEW a \in Apps, NEW ok \in BOOLEAN, PublishInfoEvent(a, ok)
      PROVE  TypeInv'
  BY <1>1 DEF PublishInfoEvent, Step, controller, relay, process
<1>2. ASSUME NEW a \in Apps, AddApp(a)
      PROVE  TypeInv'
  BY <1>2 DEF AddApp, Step, relay, process
<1>3. ASSUME NEW a \in Apps, NEW l \in Listeners, StopListening(a, l)
      PROVE  TypeInv'
  BY <1>3 DEF StopListening, Step, process, Listeners
<1>4. ASSUME NEW a \in Apps, SpawnListener(a)
      PROVE  TypeInv'
  BY <1>4 DEF SpawnListener, Step, relay, process, Listeners
<1>5. ASSUME NEW a \in Apps, SerialiseApps(a)
      PROVE  TypeInv'
  BY <1>5 DEF SerialiseApps, Serialise, Writing, Step, controller, relay, process
<1>6. ASSUME NEW a \in Apps, NEW ok \in BOOLEAN, TruncateFile(a, ok) \/ FillFile(a, ok)
      PROVE  TypeInv'
  <2>1. UNCHANGED <<controller, relay, process, data, crossed>> /\ conn[a] \in {"truncate", "fill"}
    BY <1>6 DEF TruncateFile, FillFile, Step
  <2>2. file' \in {file, Unreadable("empty"), Unreadable("torn")} \cup Overlay(data[a])
    BY <1>6 DEF TruncateFile, FillFile
  <2>3. PICK to \in {"fill", "done", "failed", "cut"} : conn' = [conn EXCEPT ![a] = to]
    BY <1>6 DEF TruncateFile, FillFile, Step
  <2>4. file' \in File
    <3>1. file \in File /\ data[a] \in SUBSET Apps
      OBVIOUS
    <3> HIDE DEF TypeInv, TypeOK, NotStarted
    <3> QED
      BY <2>2, <3>1, FileTypes
  <2>5. \A b \in Apps : conn'[b] \in {"new", "add", "stop", "spawn"}
                         => conn[b] \in {"new", "add", "stop", "spawn"}
    BY <2>3
  <2>6. conn' \in [Apps -> {"new", "add", "stop", "spawn", "serialise", "truncate", "fill",
                            "done", "failed", "cut"}]
    BY <2>3
  <2> QED
    BY <2>1, <2>4, <2>5, <2>6 DEF controller, relay, process
<1>7. ASSUME NEW a \in Senders, NEW method \in {"known", "other"},
             SendRequest(a, method)
      PROVE  TypeInv'
  BY <1>7, Nip47Assumption DEF SendRequest, Listening, process
<1>8. ASSUME NEW l \in Listeners, Subscribe(l)
      PROVE  TypeInv'
  BY <1>8 DEF Subscribe, relay, process, Listeners
<1>9. ASSUME NEW l \in Listeners, NEW a \in Apps, TakeEvent(l, a)
      PROVE  TypeInv'
  BY <1>9 DEF TakeEvent, process
<1>10. ASSUME NEW l \in Listeners, NEW a \in Apps, DecryptEvent(l, a)
       PROVE  TypeInv'
  BY <1>10 DEF DecryptEvent, Work, controller, process
<1>11. ASSUME NEW l \in Listeners, NEW a \in Apps, RunMethod(l, a)
       PROVE  TypeInv'
  <2>1. CASE Restart /\ UNCHANGED crashes
    BY <2>1, RestartTypes
  <2>2. CASE Work(l, a, "run", "publish") /\ UNCHANGED <<controller, asked, answered, keyed,
                  lost, process, conn, data, file, crossed>>
    BY <2>2 DEF Work, controller, process
  <2> QED
    BY <1>11, <2>1, <2>2 DEF RunMethod
<1>12. ASSUME NEW l \in Listeners, NEW a \in Apps, NEW ok \in BOOLEAN,
              PublishResponse(l, a, ok)
       PROVE  TypeInv'
  <2>1. /\ answered' = answered \/ answered' = [answered EXCEPT ![a] = @ + 1]
        /\ lost' \in {lost, lost \cup {a}}
    BY <1>12 DEF PublishResponse
  <2>2. answered' \in [Apps -> Nat]
    <3>1. answered \in [Apps -> Nat]
      OBVIOUS
    <3> HIDE DEF TypeInv, TypeOK, NotStarted
    <3> QED
      BY <2>1, <3>1
  <2>4. lost' \subseteq Apps
    BY <2>1
  <2>3. /\ UNCHANGED <<controller, asked, keyed, process, conn, data, file, crossed>>
        /\ work' = [work EXCEPT ![l][a] = "done"]
    BY <1>12 DEF PublishResponse, Work
  <2> QED
    BY <2>2, <2>3, <2>4 DEF controller, process
<1>13. CASE SetKeys
  BY <1>13 DEF SetKeys, controller, process
<1>14. CASE Crash
  <2>1. Restart /\ crashes < MaxCrashes /\ crashes' = crashes + 1
    BY <1>14 DEF Crash
  <2>2. crashes \in 0..MaxCrashes
    OBVIOUS
  <2> HIDE DEF TypeInv, TypeOK, NotStarted
  <2>3. crashes' \in 0..MaxCrashes
    BY <2>1, <2>2, Nip47Assumption
  <2> QED
    BY <2>1, <2>3, RestartTypes
<1>15. CASE UNCHANGED vars
  BY <1>15 DEF vars, controller, relay, process
<1> QED
  BY <1>1, <1>2, <1>3, <1>4, <1>5, <1>6, <1>7, <1>8, <1>9, <1>10, <1>11, <1>12, <1>13,
     <1>14, <1>15 DEF Next, Handle, Listen, Answer

LEMMA TypeInit == Init => TypeInv
<1> SUFFICES ASSUME Init PROVE TypeInv
  OBVIOUS
<1>1. file \in File
  BY FileTypes DEF Init
<1>2. crashes \in 0..MaxCrashes
  BY Nip47Assumption DEF Init
<1> QED
  BY <1>1, <1>2, Nip47Assumption DEF Init, TypeInv, TypeOK, NotStarted, Listeners

\* The controller's variables keep their types, and only a listener that listens
\* holds requests: a stopped one has given up its subscription.
THEOREM TypeCorrect == Spec => []TypeOK
<1>1. TypeInv => TypeOK
  BY DEF TypeInv
<1> QED
  BY <1>1, TypeInit, TypeStep, PTL DEF Spec

-----------------------------------------------------------------------------
(* One listener.                                                           *)

\* The handlers that have stopped a listener and are about to start the next.
Spawning == {a \in Apps : conn[a] = "spawn"}

\* Who has the token: a listener, or a handler between two of them.
OneToken ==
  /\ down => Live = {}
  /\ ~down => \/ \E l \in Listeners : Live = {l} /\ Spawning = {}
              \/ \E a \in Apps : Live = {} /\ Spawning = {a}

\* A step that stops, starts and spawns nothing leaves the token where it is.
LEMMA TokenKept ==
  ASSUME OneToken, Live' = Live, Spawning' = Spawning, down' = down
  PROVE  OneToken'
BY DEF OneToken

\* A start has one listener, unless it panics.
LEMMA RestartToken ==
  ASSUME TypeInv, Restart
  PROVE  OneToken'
<1>1. ASSUME NEW a \in Apps PROVE conn'[a] # "spawn"
  BY DEF Restart, Handling, Ended
<1>2. Spawning' = {}
  BY <1>1 DEF Spawning
<1>3. Live' = IF file.text = "good" THEN {Boot} ELSE {}
  BY DEF Restart, Live, Listeners
<1>4. down' = (file.text # "good")
  BY DEF Restart
<1> QED
  BY <1>2, <1>3, <1>4 DEF OneToken, Listeners

\* Every step passes the token on or leaves it alone.
LEMMA TokenStep ==
  ASSUME TypeInv, OneToken, [Next]_vars
  PROVE  OneToken'
<1> USE DEF TypeInv, TypeOK
<1>1. ASSUME NEW a \in Apps, NEW from, NEW to, Step(a, from, to), from # "spawn",
             to # "spawn", UNCHANGED <<listener, down>>
      PROVE  OneToken'
  <2>1. Live' = Live /\ Spawning' = Spawning
    BY <1>1 DEF Step, Live, Spawning
  <2> QED
    BY <1>1, <2>1, TokenKept
<1>2. ASSUME UNCHANGED <<conn, listener, down>>
      PROVE  OneToken'
  <2>1. Live' = Live /\ Spawning' = Spawning
    BY <1>2 DEF Live, Spawning
  <2> QED
    BY <1>2, <2>1, TokenKept
<1>3. ASSUME NEW a \in Apps, NEW ok \in BOOLEAN, PublishInfoEvent(a, ok)
      PROVE  OneToken'
  <2>1. Step(a, "new", "add") \/ Step(a, "new", "failed")
    BY <1>3 DEF PublishInfoEvent
  <2> QED
    BY <1>1, <1>3, <2>1 DEF PublishInfoEvent, controller, process
<1>4. ASSUME NEW a \in Apps, AddApp(a) \/ SerialiseApps(a)
      PROVE  OneToken'
  BY <1>1, <1>4 DEF AddApp, SerialiseApps, Serialise, controller, process
<1>5. ASSUME NEW a \in Apps, NEW l \in Listeners, StopListening(a, l)
      PROVE  OneToken'
  <2>1. /\ listener' = [listener EXCEPT ![l] = "stopped"] /\ listener[l] = "listening"
        /\ conn' = [conn EXCEPT ![a] = "spawn"]
        /\ down' = down /\ ~down
    BY <1>5 DEF StopListening, Step, process
  <2>2. l \in Live /\ Live' = Live \ {l}
    BY <2>1 DEF Live
  <2>3. Spawning' = Spawning \cup {a}
    BY <2>1 DEF Spawning
  <2>4. Live = {l} /\ Spawning = {}
    BY <2>1, <2>2 DEF OneToken
  <2> QED
    BY <2>2, <2>3, <2>4 DEF OneToken
<1>6. ASSUME NEW a \in Apps, SpawnListener(a)
      PROVE  OneToken'
  <2>1. /\ listener' = [listener EXCEPT ![a] = "spawned"] /\ conn[a] = "spawn"
        /\ conn' = [conn EXCEPT ![a] = "serialise"]
        /\ down' = down /\ ~down
    BY <1>6 DEF SpawnListener, Step, process
  <2>2. Live' = Live \cup {a}
    BY <2>1 DEF Live, Listeners
  <2>3. a \in Spawning /\ Spawning' = Spawning \ {a}
    BY <2>1 DEF Spawning
  <2>4. Live = {} /\ Spawning = {a}
    BY <2>1, <2>3 DEF OneToken
  <2>5. Live' = {a} /\ Spawning' = {} /\ ~down'
    BY <2>1, <2>2, <2>3, <2>4
  <2> QED
    BY <2>5 DEF OneToken, Listeners
<1>7. ASSUME NEW a \in Apps, NEW ok \in BOOLEAN, TruncateFile(a, ok) \/ FillFile(a, ok)
      PROVE  OneToken'
  <2>1. \E from \in {"truncate", "fill"}, to \in {"fill", "done", "failed", "cut"} :
          Step(a, from, to)
    BY <1>7 DEF TruncateFile, FillFile
  <2>2. UNCHANGED <<listener, down>>
    BY <1>7 DEF TruncateFile, FillFile, controller, process
  <2> QED
    BY <1>1, <2>1, <2>2
<1>8. ASSUME NEW l \in Listeners, Subscribe(l)
      PROVE  OneToken'
  <2>1. Live' = Live /\ Spawning' = Spawning
    BY <1>8 DEF Subscribe, Live, Spawning
  <2> QED
    BY <1>8, <2>1, TokenKept DEF Subscribe, process
<1>9. ASSUME NEW l \in Listeners, NEW a \in Apps, TakeEvent(l, a)
      PROVE  OneToken'
  BY <1>2, <1>9 DEF TakeEvent, process
<1>10. ASSUME NEW l \in Listeners, NEW a \in Apps, Answer(l, a)
       PROVE  OneToken'
  <2>1. Restart \/ UNCHANGED <<conn, listener, down>>
    BY <1>10 DEF Answer, DecryptEvent, RunMethod, PublishResponse, controller, process
  <2> QED
    BY <1>2, <2>1, RestartToken
<1>11. ASSUME NEW a \in Senders, NEW method \in {"known", "other"},
              SendRequest(a, method)
       PROVE  OneToken'
  BY <1>2, <1>11 DEF SendRequest, process
<1>12. CASE SetKeys
  BY <1>2, <1>12 DEF SetKeys, controller, process
<1>13. CASE Crash
  BY <1>13, RestartToken DEF Crash
<1>14. CASE UNCHANGED vars
  BY <1>2, <1>14 DEF vars, controller, process
<1> QED
  BY <1>3, <1>4, <1>5, <1>6, <1>7, <1>8, <1>9, <1>10, <1>11, <1>12, <1>13, <1>14
     DEF Next, Handle, Listen

LEMMA TokenInit == Init => OneToken
<1> SUFFICES ASSUME Init PROVE OneToken
  OBVIOUS
<1>1. Live = {Boot}
  BY Nip47Assumption DEF Init, Live, Listeners
<1>2. Spawning = {}
  BY DEF Init, Spawning
<1>3. ~down
  BY DEF Init
<1> QED
  BY <1>1, <1>2, <1>3 DEF OneToken, Listeners

\* However many connections are made at once, and wherever the process is killed,
\* there is exactly one listener or one handler about to start it.
THEOREM ExactlyOneListener == Spec => []OneListener
<1>1. ASSUME OneToken PROVE OneListener
  <2>1. \A x : Cardinality({x}) = 1
    BY FS_Singleton
  <2>2. Cardinality({}) = 0
    BY FS_EmptySet
  <2>3. SUFFICES ASSUME ~down
                 PROVE  Cardinality(Live) + Cardinality(Spawning) = 1
    BY DEF OneListener, Spawning
  <2>4. CASE \E l \in Listeners : Live = {l} /\ Spawning = {}
    <3>1. Cardinality(Live) = 1 /\ Cardinality(Spawning) = 0
      BY <2>1, <2>2, <2>4, Zenon
    <3> QED
      BY <3>1
  <2>5. CASE \E a \in Apps : Live = {} /\ Spawning = {a}
    <3>1. Cardinality(Live) = 0 /\ Cardinality(Spawning) = 1
      BY <2>1, <2>2, <2>5, Zenon
    <3> QED
      BY <3>1
  <2> QED
    BY <1>1, <2>3, <2>4, <2>5 DEF OneToken
<1>2. TypeInv /\ OneToken /\ [Next]_vars => (TypeInv /\ OneToken)'
  BY TypeStep, TokenStep
<1> QED
  BY <1>1, <1>2, TypeInit, TokenInit, PTL DEF Spec

-----------------------------------------------------------------------------
(* Answers.                                                                *)

\* The request of app a has come to listener l.
Has(l, a) == a \in events[l] \/ work[l][a] # "none"

\* A request comes to one listener, moves on from its subscription to a goroutine, and
\* is through with once it is answered.
AnswerFor(a) ==
  /\ \A l, m \in Listeners : Has(l, a) /\ Has(m, a) => l = m
  /\ \A l \in Listeners : a \in events[l] => work[l][a] = "none"
  /\ asked[a] = "nothing" => answered[a] = 0 /\ \A l \in Listeners : ~Has(l, a)
  /\ answered[a] \in {0, 1}
  /\ answered[a] = 1 =>
       \A l \in Listeners : a \notin events[l] /\ work[l][a] \in {"none", "done"}

AnswerInv == \A a \in Apps : AnswerFor(a)

\* A step that takes requests from a subscription, or all of them from the memory,
\* asks and answers nothing.
LEMMA AnswerKept ==
  ASSUME AnswerInv, UNCHANGED <<asked, answered>>,
         \A l \in Listeners : events'[l] \subseteq events[l],
         \A l \in Listeners, a \in Apps : work'[l][a] \in {work[l][a], "none"}
  PROVE  AnswerInv'
BY DEF AnswerInv, AnswerFor, Has

\* What happens to other requests is of no concern to the one of app a.
LEMMA AnswerApart ==
  ASSUME NEW a \in Apps, AnswerFor(a), asked'[a] = asked[a], answered'[a] = answered[a],
         \A l \in Listeners : /\ a \in events'[l] <=> a \in events[l]
                              /\ work'[l][a] = work[l][a]
  PROVE  AnswerFor(a)'
BY DEF AnswerFor, Has

\* Nothing of what a start forgets was answered.
LEMMA RestartAnswer == ASSUME AnswerInv, Restart PROVE AnswerInv'
<1>1. \A l \in Listeners : events'[l] = {} /\ \A a \in Apps : work'[l][a] = "none"
  BY DEF Restart
<1>2. UNCHANGED <<asked, answered>>
  BY DEF Restart
<1> QED
  BY <1>1, <1>2, AnswerKept

\* A goroutine goes on with its request.
LEMMA WorkAnswer ==
  ASSUME TypeInv, AnswerInv, NEW l \in Listeners, NEW a \in Apps,
         NEW from \in {"decrypt", "run", "publish"}, NEW to \in {"run", "publish", "done"},
         Work(l, a, from, to), UNCHANGED <<events, asked>>,
         \/ answered' = answered
         \/ to = "done" /\ answered' = [answered EXCEPT ![a] = @ + 1]
  PROVE  AnswerInv'
<1>1. /\ work \in [Listeners -> [Apps -> {"none", "decrypt", "run", "publish", "done"}]]
      /\ answered \in [Apps -> Nat]
  BY DEF TypeInv, TypeOK
<1>2. \A m \in Listeners, b \in Apps :
        work'[m][b] = IF m = l /\ b = a THEN to ELSE work[m][b]
  BY <1>1 DEF Work
<1>3. work[l][a] = from /\ work[l][a] # "none"
  BY DEF Work
<1>4. /\ answered[a] = 0 /\ asked[a] # "nothing"
      /\ \A m \in Listeners : m # l => ~Has(m, a)
      /\ a \notin events[l]
  BY <1>3 DEF AnswerInv, AnswerFor, Has
<1>5. \A b \in Apps : \/ answered'[b] = answered[b]
                      \/ to = "done" /\ b = a /\ answered'[b] = 1
  BY <1>1, <1>4
<1> SUFFICES ASSUME NEW b \in Apps
             PROVE  AnswerFor(b)'
  BY DEF AnswerInv
<1>6. CASE b = a
  BY <1>2, <1>3, <1>4, <1>5, <1>6 DEF AnswerFor, Has
<1>7. CASE b # a
  <2>1. \A m \in Listeners : work'[m][b] = work[m][b]
    BY <1>2, <1>7
  <2> QED
    BY <1>5, <1>7, <2>1, AnswerApart DEF AnswerInv
<1> QED
  BY <1>6, <1>7

\* Every step keeps the invariant.
LEMMA AnswerStep ==
  ASSUME TypeInv, OneToken, AnswerInv, [Next]_vars
  PROVE  AnswerInv'
<1>1. ASSUME UNCHANGED <<events, work, asked, answered>>
      PROVE  AnswerInv'
  BY <1>1, AnswerKept
<1>2. ASSUME NEW a \in Apps,
             \/ \E ok \in BOOLEAN : PublishInfoEvent(a, ok)
             \/ AddApp(a) \/ SpawnListener(a) \/ SerialiseApps(a)
             \/ \E ok \in BOOLEAN : TruncateFile(a, ok) \/ FillFile(a, ok)
      PROVE  AnswerInv'
  BY <1>1, <1>2 DEF PublishInfoEvent, AddApp, SpawnListener, SerialiseApps, Serialise,
     TruncateFile, FillFile, controller, relay
<1>3. ASSUME NEW a \in Apps, NEW l \in Listeners, StopListening(a, l)
      PROVE  AnswerInv'
  <2>1. \A m \in Listeners : events'[m] \subseteq events[m]
    BY <1>3 DEF StopListening, TypeInv, TypeOK
  <2> QED
    BY <1>3, <2>1, AnswerKept DEF StopListening
<1>4. ASSUME NEW a \in Senders, NEW method \in {"known", "other"},
             SendRequest(a, method)
      PROVE  AnswerInv'
  <2> a \in Apps
    BY Nip47Assumption
  <2>1. /\ asked[a] = "nothing" /\ UNCHANGED <<work, answered>>
        /\ asked' = [asked EXCEPT ![a] = method]
        /\ \A l \in Listeners : events'[l] = IF l \in Listening(a) THEN events[l] \cup {a}
                                              ELSE events[l]
    BY <1>4 DEF SendRequest
  <2>2. \A l, m \in Listening(a) : l = m
    <3>1. Listening(a) \subseteq Live
      BY DEF Listening, Live
    <3>2. \A l, m \in Live : l = m
      BY DEF OneToken
    <3> QED
      BY <3>1, <3>2
  <2>3. \A b \in Apps : asked'[b] = IF b = a THEN method ELSE asked[b]
    BY <2>1 DEF TypeInv, TypeOK
  <2>4. \A l \in Listeners : ~Has(l, a) /\ answered[a] = 0
    BY <2>1 DEF AnswerInv, AnswerFor
  <2>5. \A l \in Listeners : Has(l, a)' <=> l \in Listening(a)
    BY <2>1, <2>4 DEF Has
  <2>6. \A b \in Apps \ {a}, l \in Listeners : b \in events'[l] <=> b \in events[l]
    BY <2>1
  <2> SUFFICES ASSUME NEW b \in Apps
               PROVE  AnswerFor(b)'
    BY DEF AnswerInv
  <2>7. CASE b = a
    <3>1. \A l, m \in Listeners : Has(l, a)' /\ Has(m, a)' => l = m
      BY <2>2, <2>5
    <3>2. \A l \in Listeners : work'[l][a] = "none"
      BY <2>1, <2>4 DEF Has
    <3>3. asked'[a] # "nothing" /\ answered'[a] = 0
      BY <2>1, <2>3, <2>4 DEF Listeners
    <3>4. AnswerFor(a)'
      BY <3>1, <3>2, <3>3 DEF AnswerFor
    <3> QED
      BY <2>7, <3>4
  <2>8. CASE b # a
    BY <2>1, <2>3, <2>6, <2>8, AnswerApart DEF AnswerInv
  <2> QED
    BY <2>7, <2>8
<1>5. ASSUME NEW l \in Listeners, NEW a \in Apps, TakeEvent(l, a)
      PROVE  AnswerInv'
  <2>1. /\ a \in events[l] /\ UNCHANGED <<asked, answered>>
        /\ \A m \in Listeners : events'[m] = IF m = l THEN events[m] \ {a} ELSE events[m]
        /\ \A m \in Listeners, b \in Apps :
             work'[m][b] = IF m = l /\ b = a THEN "decrypt" ELSE work[m][b]
    BY <1>5 DEF TakeEvent, TypeInv, TypeOK
  <2> SUFFICES ASSUME NEW b \in Apps
               PROVE  AnswerFor(b)'
    BY DEF AnswerInv
  <2>2. CASE b = a
    <3>1. /\ work[l][a] = "none" /\ answered[a] = 0 /\ asked[a] # "nothing"
          /\ \A m \in Listeners : m # l => ~Has(m, a)
      BY <2>1 DEF AnswerInv, AnswerFor, Has
    <3>2. \A m \in Listeners : m # l => ~Has(m, a)'
      BY <2>1, <3>1 DEF Has
    <3>3. a \notin events'[l] /\ answered'[a] = 0 /\ asked'[a] # "nothing"
      BY <2>1, <3>1
    <3> QED
      BY <2>2, <3>2, <3>3 DEF AnswerFor, Has
  <2>3. CASE b # a
    <3>1. \A m \in Listeners : b \in events'[m] <=> b \in events[m]
      BY <2>1, <2>3
    <3>2. \A m \in Listeners : work'[m][b] = work[m][b]
      BY <2>1, <2>3
    <3> QED
      BY <2>1, <3>1, <3>2, AnswerApart DEF AnswerInv
  <2> QED
    BY <2>2, <2>3
<1>6. ASSUME NEW l \in Listeners, NEW a \in Apps, DecryptEvent(l, a)
      PROVE  AnswerInv'
  <2>1. \E to \in {"run", "done"} : Work(l, a, "decrypt", to)
    BY <1>6 DEF DecryptEvent
  <2> QED
    BY <1>6, <2>1, WorkAnswer DEF DecryptEvent, controller
<1>7. ASSUME NEW l \in Listeners, NEW a \in Apps, RunMethod(l, a)
      PROVE  AnswerInv'
  BY <1>7, RestartAnswer, WorkAnswer DEF RunMethod, controller
<1>8. ASSUME NEW l \in Listeners, NEW a \in Apps, NEW ok \in BOOLEAN,
             PublishResponse(l, a, ok)
      PROVE  AnswerInv'
  <2>1. \/ answered' = answered
        \/ answered' = [answered EXCEPT ![a] = @ + 1]
    BY <1>8 DEF PublishResponse
  <2> QED
    BY <1>8, <2>1, WorkAnswer DEF PublishResponse, controller
<1>9. ASSUME NEW l \in Listeners, Subscribe(l)
      PROVE  AnswerInv'
  BY <1>1, <1>9 DEF Subscribe, relay
<1>10. CASE SetKeys
  BY <1>1, <1>10 DEF SetKeys, controller
<1>11. CASE Crash
  BY <1>11, RestartAnswer DEF Crash
<1>12. CASE UNCHANGED vars
  BY <1>1, <1>12 DEF vars, controller, relay
<1> QED
  BY <1>2, <1>3, <1>4, <1>5, <1>6, <1>7, <1>8, <1>9, <1>10, <1>11, <1>12
     DEF Next, Handle, Listen, Answer

\* No request is answered twice, although listeners come and go and the process
\* may be killed while it works on one.
THEOREM AnsweredAtMostOnce == Spec => []AnsweredOnce
<1>1. Init => AnswerInv
  BY DEF Init, AnswerInv, AnswerFor, Has
<1>2. AnswerInv => AnsweredOnce
  BY DEF AnswerInv, AnswerFor, AnsweredOnce
<1>3. TypeInv /\ OneToken /\ AnswerInv /\ [Next]_vars
        => (TypeInv /\ OneToken /\ AnswerInv)'
  BY TypeStep, TokenStep, AnswerStep
<1> QED
  BY <1>1, <1>2, <1>3, TypeInit, TokenInit, PTL DEF Spec

-----------------------------------------------------------------------------
(* The apps file.                                                          *)

\* A handler that writes beside no other is alone while it writes; what it adds and
\* writes holds its own app.  Its app stays with the process, with the file, and with
\* everything a later handler is about to write.
HandlerInv(a) ==
  /\ a \in Writing /\ a \notin crossed => Writing = {a}
  /\ conn[a] \in {"stop", "spawn", "serialise", "truncate", "fill"} => a \in apps
  /\ a \in Writing => a \in data[a]

StoredInv(a) ==
  conn[a] = "done" /\ a \notin crossed =>
    /\ file.text = "good" => a \in file.apps
    /\ ~down => a \in apps /\ \A b \in Writing : a \in data[b]

\* While no two handlers have written at once, the file is empty under the one that
\* fills it, and parses unless it is being filled or a write of it was cut short.
ReadableInv ==
  /\ down => file.text # "good"
  /\ crossed = {} /\ (\E a \in Apps : conn[a] = "fill") => file.text = "empty"
  /\ file.text # "good" => crossed # {} \/ \E a \in Apps : conn[a] \in {"fill", "cut"}

FileInv ==
  /\ ReadableInv
  /\ \A a \in Apps : HandlerInv(a) /\ StoredInv(a)

\* The listener, the requests and the keys are of no concern to the apps file.
LEMMA FileKept ==
  ASSUME FileInv, UNCHANGED <<apps, conn, data, file, crossed, down>>
  PROVE  FileInv'
BY DEF FileInv, ReadableInv, HandlerInv, StoredInv, Writing

\* A start loads what the file holds, and no handler is left.
LEMMA FileRestart == ASSUME TypeInv, FileInv, Restart PROVE FileInv'
<1>1. /\ file' = file /\ crossed' = crossed
      /\ down' = (file.text # "good") /\ apps' = file.apps
      /\ conn' = [a \in Apps |-> IF conn[a] = "fill" THEN "cut"
                                 ELSE IF a \in Handling THEN "failed" ELSE conn[a]]
  BY DEF Restart
<1>2. \A a \in Apps : /\ conn'[a] \in {"new", "done", "failed", "cut"}
                      /\ conn'[a] = "done" => conn[a] = "done"
                      /\ conn[a] \in {"fill", "cut"} => conn'[a] = "cut"
  BY <1>1 DEF Handling, Ended
<1>3. Writing' = {}
  BY <1>2 DEF Writing
<1>4. ReadableInv'
  BY <1>1, <1>2 DEF FileInv, ReadableInv
<1> SUFFICES ASSUME NEW a \in Apps PROVE HandlerInv(a)' /\ StoredInv(a)'
  BY <1>4 DEF FileInv
<1>5. HandlerInv(a)'
  BY <1>2, <1>3 DEF HandlerInv
<1>6. StoredInv(a)'
  BY <1>1, <1>2, <1>3 DEF FileInv, StoredInv
<1> QED
  BY <1>5, <1>6

\* A step of the handler of app a moves this handler and no other.
LEMMA StepConn ==
  ASSUME TypeInv, NEW a \in Apps, NEW from, NEW to, Step(a, from, to)
  PROVE  /\ ~down /\ conn[a] = from
         /\ \A b \in Apps : conn'[b] = IF b = a THEN to ELSE conn[b]
         /\ Writing' = IF to \in {"truncate", "fill"} THEN Writing \cup {a}
                       ELSE Writing \ {a}
<1>1. /\ ~down /\ conn[a] = from
      /\ \A b \in Apps : conn'[b] = IF b = a THEN to ELSE conn[b]
  BY DEF Step, TypeInv, TypeOK
<1> QED
  BY <1>1 DEF Writing

\* Nothing is to be shown of the file while a handler does not write.
LEMMA ReadableKept ==
  ASSUME ReadableInv, UNCHANGED <<file, down>>, crossed \subseteq crossed',
         \A b \in Apps : conn[b] \in {"fill", "cut"} <=> conn'[b] \in {"fill", "cut"},
         \A b \in Apps : conn'[b] = "fill" => conn[b] = "fill"
  PROVE  ReadableInv'
<1>1. (crossed # {}) => (crossed' # {})
  OBVIOUS
<1> QED
  BY <1>1 DEF ReadableInv

\* A handler that does not write, moving on.
LEMMA IdleStep ==
  ASSUME TypeInv, FileInv, NEW a \in Apps,
         NEW from \in {"new", "add", "stop", "spawn"},
         NEW to \in {"add", "stop", "spawn", "serialise", "failed"}, Step(a, from, to),
         UNCHANGED <<data, file, crossed, down>>, apps \subseteq apps',
         to \in {"stop", "spawn", "serialise"} => a \in apps'
  PROVE  FileInv'
<1>1. /\ Writing' = Writing /\ a \notin Writing /\ conn[a] = from
      /\ \A b \in Apps : conn'[b] = IF b = a THEN to ELSE conn[b]
  BY StepConn DEF Writing
<1>2. ReadableInv'
  BY <1>1, ReadableKept DEF FileInv
<1>3. ASSUME NEW b \in Apps PROVE HandlerInv(b)' /\ StoredInv(b)'
  BY <1>1 DEF FileInv, HandlerInv, StoredInv, Writing
<1> QED
  BY <1>2, <1>3 DEF FileInv

\* Every step keeps the invariant.
LEMMA FileStep == ASSUME TypeInv, FileInv, [Next]_vars PROVE FileInv'
<1>1. ASSUME NEW a \in Apps, NEW ok \in BOOLEAN, PublishInfoEvent(a, ok)
      PROVE  FileInv'
  BY <1>1, IdleStep DEF PublishInfoEvent, controller, process
<1>2. ASSUME NEW a \in Apps, AddApp(a)
      PROVE  FileInv'
  BY <1>2, IdleStep DEF AddApp, process
<1>3. ASSUME NEW a \in Apps,
             \/ \E l \in Listeners : StopListening(a, l)
             \/ SpawnListener(a)
      PROVE  FileInv'
  <2>1. conn[a] \in {"stop", "spawn"} => a \in apps
    BY DEF FileInv, HandlerInv
  <2> QED
    BY <1>3, <2>1, IdleStep DEF StopListening, SpawnListener, Step, process
<1>4. ASSUME NEW a \in Apps, SerialiseApps(a)
      PROVE  FileInv'
  <2>1. /\ Step(a, "serialise", "truncate")
        /\ \A b \in Apps : data'[b] = IF b = a THEN apps ELSE data[b]
        /\ crossed' = IF Writing = {} THEN crossed ELSE crossed \cup Writing \cup {a}
        /\ UNCHANGED <<apps, file, down>>
    BY <1>4 DEF SerialiseApps, Serialise, controller, process, TypeInv, TypeOK
  <2>2. /\ ~down /\ conn[a] = "serialise" /\ Writing' = Writing \cup {a}
        /\ \A b \in Apps : conn'[b] = IF b = a THEN "truncate" ELSE conn[b]
    BY <2>1, StepConn
  <2>3. ReadableInv'
    BY <2>1, <2>2, ReadableKept DEF FileInv
  <2>4. ASSUME NEW b \in Apps PROVE HandlerInv(b)'
    BY <2>1, <2>2 DEF FileInv, HandlerInv
  <2>5. ASSUME NEW b \in Apps PROVE StoredInv(b)'
    <3>1. SUFFICES ASSUME conn[b] = "done", b \notin crossed
                   PROVE  /\ file.text = "good" => b \in file.apps
                          /\ b \in apps /\ \A c \in Writing' : b \in data'[c]
      BY <2>1, <2>2 DEF StoredInv
    <3>2. /\ file.text = "good" => b \in file.apps
          /\ b \in apps /\ \A c \in Writing : b \in data[c]
      BY <2>2, <3>1 DEF FileInv, StoredInv
    <3>3. Writing' \subseteq Apps
      BY DEF Writing
    <3> QED
      BY <2>1, <2>2, <3>2, <3>3
  <2> QED
    BY <2>3, <2>4, <2>5 DEF FileInv
<1>5. ASSUME NEW a \in Apps, NEW ok \in BOOLEAN, TruncateFile(a, ok)
      PROVE  FileInv'
  <2>1. /\ Step(a, "truncate", IF ok THEN "fill" ELSE "failed")
        /\ file' = IF ok THEN Unreadable("empty") ELSE file
        /\ UNCHANGED <<apps, data, crossed, down>>
    BY <1>5 DEF TruncateFile, controller, process
  <2>2. /\ conn[a] = "truncate" /\ ~down
        /\ \A b \in Apps : conn'[b] = IF b = a THEN IF ok THEN "fill" ELSE "failed"
                                      ELSE conn[b]
        /\ Writing' = IF ok THEN Writing \cup {a} ELSE Writing \ {a}
    BY <2>1, StepConn
  <2>3. a \in Writing /\ Writing' \subseteq Writing
    BY <2>2 DEF Writing
  <2>4. file'.text = "good" => file' = file
    BY <2>1 DEF Unreadable
  <2>5. ASSUME NEW b \in Apps PROVE HandlerInv(b)'
    BY <2>1, <2>2, <2>3 DEF FileInv, HandlerInv
  <2>6. ASSUME NEW b \in Apps PROVE StoredInv(b)'
    BY <2>1, <2>2, <2>3, <2>4 DEF FileInv, StoredInv
  <2>7. ReadableInv'
    <3>1. CASE ok
      <4>1. file'.text = "empty" /\ ~down' /\ conn'[a] = "fill"
        BY <2>1, <2>2, <3>1 DEF Unreadable
      <4> QED
        BY <4>1 DEF ReadableInv
    <3>2. CASE ~ok
      BY <2>1, <2>2, <3>2, ReadableKept DEF FileInv
    <3> QED
      BY <3>1, <3>2
  <2> QED
    BY <2>5, <2>6, <2>7 DEF FileInv
<1>6. ASSUME NEW a \in Apps, NEW ok \in BOOLEAN, FillFile(a, ok)
      PROVE  FileInv'
  <2>1. /\ Step(a, "fill", IF ok THEN "done" ELSE "cut")
        /\ file' \in IF ok THEN Overlay(data[a]) ELSE {file, Unreadable("torn")}
        /\ UNCHANGED <<apps, data, crossed, down>>
    BY <1>6 DEF FillFile, controller, process
  <2>2. /\ conn[a] = "fill" /\ ~down
        /\ \A b \in Apps : conn'[b] = IF b = a THEN IF ok THEN "done" ELSE "cut"
                                      ELSE conn[b]
        /\ Writing' = Writing \ {a}
    BY <2>1, StepConn
  <2>3. a \in Writing
    BY <2>2 DEF Writing
  <2>4. a \in apps /\ a \in data[a]
    BY <2>2, <2>3 DEF FileInv, HandlerInv
  <2>5. file'.text = "good" => file' = file \/ (ok /\ file'.apps = data[a])
    BY <2>1 DEF Overlay, Good, Unreadable
  <2>6. ok /\ file'.text = "good" => file'.apps = data[a]
    BY <2>1 DEF Overlay, Good, Unreadable
  <2>7. ASSUME NEW b \in Apps PROVE HandlerInv(b)'
    BY <2>1, <2>2, <2>3 DEF FileInv, HandlerInv
  <2>8. ASSUME NEW b \in Apps PROVE StoredInv(b)'
    <3>1. CASE b = a
      <4>1. a \notin crossed => Writing' = {}
        BY <2>2, <2>3 DEF FileInv, HandlerInv
      <4> QED
        BY <2>1, <2>2, <2>4, <2>6, <3>1, <4>1 DEF StoredInv
    <3>2. CASE b # a
      <4>1. conn'[b] = conn[b]
        BY <2>2, <3>2
      <4> QED
        BY <2>1, <2>2, <2>3, <2>5, <4>1 DEF FileInv, StoredInv
    <3> QED
      BY <3>1, <3>2
  <2>9. ReadableInv'
    <3>1. ok /\ crossed = {} => file'.text = "good"
      <4>1. crossed = {} => file.text = "empty"
        BY <2>2 DEF FileInv, ReadableInv
      <4> QED
        BY <2>1, <4>1 DEF Overlay, Good
    <3>2. crossed = {} => \A b \in Apps : conn'[b] # "fill"
      <4>1. crossed = {} => Writing' = {}
        BY <2>2, <2>3 DEF FileInv, HandlerInv
      <4> QED
        BY <2>2, <4>1 DEF Writing
    <3>3. ~ok => conn'[a] = "cut"
      BY <2>2
    <3> QED
      BY <2>1, <2>2, <3>1, <3>2, <3>3 DEF ReadableInv
  <2> QED
    BY <2>7, <2>8, <2>9 DEF FileInv
<1>7. ASSUME NEW l \in Listeners, Listen(l)
      PROVE  FileInv'
  BY <1>7, FileKept DEF Listen, Subscribe, TakeEvent, process
<1>8. ASSUME NEW l \in Listeners, NEW a \in Apps, Answer(l, a)
      PROVE  FileInv'
  <2>1. Restart \/ UNCHANGED <<apps, conn, data, file, crossed, down>>
    BY <1>8 DEF Answer, DecryptEvent, RunMethod, PublishResponse, controller, process
  <2> QED
    BY <2>1, FileKept, FileRestart
<1>9. ASSUME NEW a \in Senders, NEW method \in {"known", "other"}, SendRequest(a, method)
      PROVE  FileInv'
  BY <1>9, FileKept DEF SendRequest, process
<1>10. CASE SetKeys
  BY <1>10, FileKept DEF SetKeys, controller, process
<1>11. CASE Crash
  BY <1>11, FileRestart DEF Crash
<1>12. CASE UNCHANGED vars
  BY <1>12, FileKept DEF vars, controller, process
<1> QED
  BY <1>1, <1>2, <1>3, <1>4, <1>5, <1>6, <1>7, <1>8, <1>9, <1>10, <1>11, <1>12
     DEF Next, Handle

\* An app that was written while no other handler wrote stays with the process and in
\* every file that parses, through all that handlers, writes and starts do later; and the
\* file parses, and the process starts, unless a write was cut short or two met.
THEOREM ConnectedAppsSurvive == Spec => []AppsSurvive
<1>1. Init => FileInv
  BY DEF Init, FileInv, ReadableInv, HandlerInv, StoredInv, Writing, Good
<1>2. FileInv => AppsSurvive
  BY DEF FileInv, ReadableInv, StoredInv, AppsSurvive
<1>3. TypeInv /\ FileInv /\ [Next]_vars => (TypeInv /\ FileInv)'
  BY TypeStep, FileStep
<1> QED
  BY <1>1, <1>2, <1>3, TypeInit, PTL DEF Spec
=============================================================================
