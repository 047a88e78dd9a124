--------------------------- MODULE Nip47Controller --------------------------
(***************************************************************************)
(* Nostr Wallet Connect: the controller that listens on a relay for the    *)
(* requests of connected apps (pkg/networking/nwc/nip47_controller.go),    *)
(* POST /new-nwc-connection, which makes a connection, replaces the        *)
(* listener and stores the apps (internal/server/routes.go), and the apps  *)
(* file (pkg/database/db.go).                                              *)
(*                                                                         *)
(* A connection and the app it is made for have one name.  Each listener   *)
(* is named after the connection that started it, or Boot.  A listener     *)
(* subscribes once, to the apps of that moment, so that a new app needs a  *)
(* new listener.  The relay is external: it hands a request to every       *)
(* subscription that names the app at that moment, and keeps none.         *)
(* Each app sends one request.  Encryption and what an answer says are     *)
(* abstracted; that the methods of internal/nwc_server/server.go read the  *)
(* daemon's wallet, which a scanner without keys does not have, is not.    *)
(*                                                                         *)
(* c.apps is a map without a lock.  Go may end a process that writes and   *)
(* reads it at once, and StartListening ends one that cannot subscribe:    *)
(* both are among the crashes.                                             *)
(***************************************************************************)
EXTENDS Integers, FiniteSets

CONSTANTS
  Apps,         \* the connections that are asked for
  Senders,      \* bound: those whose apps send a request, once
  Boot,         \* the listener main starts
  MaxCrashes    \* bound: how often the process is killed

ASSUME Nip47Assumption == Boot \notin Apps /\ Senders \subseteq Apps /\ MaxCrashes \in Nat

Listeners == Apps \cup {Boot}

VARIABLES
  apps,       \* c.apps
  conn,       \* where the handler of each connection stands
  data,       \* what each handler has serialised
  file,       \* the apps file
  listener,   \* where each StartListening goroutine stands
  filters,    \* the apps it has subscribed to
  events,     \* the requests in sub.Events
  work,       \* where the processEvent goroutine stands for what l took of app a
  keyed,      \* d.Wallet is not nil
  asked,      \* the request each app has sent
  answered,   \* how often it was answered
  lost,       \* history: apps whose request did not come through
  crossed,    \* history: handlers that wrote the apps while another one did
  crashes, down

controller == <<apps, listener, filters, events>>
relay == <<asked, answered, work, keyed, lost>>
process == <<crashes, down>>
vars == <<controller, relay, process, conn, data, file, crossed>>

\* How the apps file reads: as some apps (or there is none), or not at all, with
\* nothing in it or with the tail of a longer text behind a shorter one.
File == [text : {"good", "empty", "torn"}, apps : SUBSET Apps]

Good(S) == [text |-> "good", apps |-> S]
Unreadable(text) == [text |-> text, apps |-> {}]

TypeOK ==
  /\ apps \subseteq Apps
  /\ conn \in [Apps -> {"new", "add", "stop", "spawn", "serialise", "truncate", "fill",
                        "done", "failed", "cut"}]
  /\ data \in [Apps -> SUBSET Apps]
  /\ file \in File
  /\ listener \in [Listeners -> {"none", "spawned", "listening", "stopped"}]
  /\ filters \in [Listeners -> SUBSET Apps]
  /\ events \in [Listeners -> SUBSET Apps]
  /\ work \in [Listeners -> [Apps -> {"none", "decrypt", "run", "publish", "done"}]]
  /\ keyed \in BOOLEAN
  /\ asked \in [Apps -> {"nothing", "known", "other"}]
  /\ answered \in [Apps -> Nat]
  /\ lost \subseteq Apps
  /\ crossed \subseteq Apps
  /\ crashes \in 0..MaxCrashes
  /\ down \in BOOLEAN
  /\ \A l \in Listeners : listener[l] # "listening" => events[l] = {}

\* A handler that fails has "cut" its write short if it had truncated the file.
Ended == {"done", "failed", "cut"}
Handling == {a \in Apps : conn[a] \notin {"new"} \cup Ended}

Step(a, from, to) == ~down /\ conn[a] = from /\ conn' = [conn EXCEPT ![a] = to]

-----------------------------------------------------------------------------
(* POST /new-nwc-connection.                                               *)

\* NewConnection publishes the info event, which may fail.
PublishInfoEvent(a, ok) ==
  /\ Step(a, "new", IF ok THEN "add" ELSE "failed")
  /\ UNCHANGED <<controller, relay, process, data, file, crossed>>

\* Slip: the new app is added and the listener left as it is.
AddAppOnly(a) ==
  /\ Step(a, "add", "serialise")
  /\ apps' = apps \cup {a}
  /\ UNCHANGED <<listener, filters, events, relay, process, data, file, crossed>>

AddApp(a) ==
  /\ Step(a, "add", "stop")
  /\ apps' = apps \cup {a}
  /\ UNCHANGED <<listener, filters, events, relay, process, data, file, crossed>>

\* Slip: the listener returns without Unsub.
StopWithoutUnsub(a, l) ==
  /\ Step(a, "stop", "spawn")
  /\ listener[l] = "listening"
  /\ listener' = [listener EXCEPT ![l] = "stopped"]
  /\ UNCHANGED <<apps, filters, events, relay, process, data, file, crossed>>

\* Slip: the stop is sent without waiting for a listener to take it.
StopIfListening(a, l) ==
  /\ Step(a, "stop", "spawn")
  /\ listener' = [listener EXCEPT ![l] = IF @ = "listening" THEN "stopped" ELSE @]
  /\ events' = [events EXCEPT ![l] = {}]
  /\ UNCHANGED <<apps, filters, relay, process, data, file, crossed>>

\* Slip: the listener unsubscribes nothing and goes on.
StopNothing(a, l) ==
  /\ Step(a, "stop", "spawn")
  /\ listener[l] = "listening"
  /\ UNCHANGED <<controller, relay, process, data, file, crossed>>

\* StopListening meets listener l in its select statement (the channel has no
\* buffer); Unsub drops what the subscription still holds.
StopListening(a, l) ==
  /\ Step(a, "stop", "spawn")
  /\ listener[l] = "listening"
  /\ listener' = [listener EXCEPT ![l] = "stopped"]
  /\ events' = [events EXCEPT ![l] = {}]
  /\ lost' = lost \cup events[l]
  /\ UNCHANGED <<apps, filters, asked, answered, work, keyed, process, data, file, crossed>>

\* Slip: no new listener is started.
SpawnNothing(a) ==
  /\ Step(a, "spawn", "serialise")
  /\ UNCHANGED <<controller, relay, process, data, file, crossed>>

\* go c.StartListening(): the handler does not wait for the subscription.
SpawnListener(a) ==
  /\ Step(a, "spawn", "serialise")
  /\ listener' = [listener EXCEPT ![a] = "spawned"]
  /\ UNCHANGED <<apps, filters, events, relay, process, data, file, crossed>>

\* WriteNip47ControllerToDB: the apps of this moment are serialised, then the
\* file is truncated and filled; each may fail.
Writing == {a \in Apps : conn[a] \in {"truncate", "fill"}}

Serialise(a, S) ==
  /\ Step(a, "serialise", "truncate")
  /\ data' = [data EXCEPT ![a] = S]
  /\ crossed' = IF Writing = {} THEN crossed ELSE crossed \cup Writing \cup {a}
  /\ UNCHANGED <<controller, relay, process, file>>

\* Slip: only the new app is written.
SerialiseNewApp(a) == Serialise(a, {a})

SerialiseApps(a) == Serialise(a, apps)

TruncateFile(a, ok) ==
  /\ Step(a, "truncate", IF ok THEN "fill" ELSE "failed")
  /\ file' = IF ok THEN Unreadable("empty") ELSE file
  /\ UNCHANGED <<controller, relay, process, data, crossed>>

\* Each handler writes from the start of the file it has opened.  A text that is not
\* sure to cover the one another handler has written since may leave its tail.
Overlay(S) ==
  {Good(S)} \cup IF file.text = "empty" \/ (file.text = "good" /\ file.apps \subseteq S)
                   THEN {} ELSE {Unreadable("torn")}

FillFile(a, ok) ==
  /\ Step(a, "fill", IF ok THEN "done" ELSE "cut")
  /\ file' \in IF ok THEN Overlay(data[a]) ELSE {file, Unreadable("torn")}
  /\ UNCHANGED <<controller, relay, process, data, crossed>>

-----------------------------------------------------------------------------
(* The listener.                                                           *)

\* StartListening subscribes to the apps of this moment.
Subscribe(l) ==
  /\ ~down
  /\ listener[l] = "spawned"
  /\ listener' = [listener EXCEPT ![l] = "listening"]
  /\ filters' = [filters EXCEPT ![l] = apps]
  /\ UNCHANGED <<apps, events, relay, process, conn, data, file, crossed>>

Listening(a) == {l \in Listeners : listener[l] = "listening" /\ a \in filters[l]}

\* The app that was given the URI sends a request.
SendRequest(a, method) ==
  /\ conn[a] = "done"
  /\ asked[a] = "nothing"
  /\ asked' = [asked EXCEPT ![a] = method]
  /\ events' = [l \in Listeners |-> IF l \in Listening(a) THEN events[l] \cup {a}
                                    ELSE events[l]]
  /\ lost' = IF Listening(a) = {} THEN lost \cup {a} ELSE lost
  /\ UNCHANGED <<apps, listener, filters, answered, work, keyed, process, conn, data, file,
                 crossed>>

\* case ev := <-sub.Events: a goroutine runs processEvent.
TakeEvent(l, a) ==
  /\ listener[l] = "listening"
  /\ a \in events[l]
  /\ events' = [events EXCEPT ![l] = @ \ {a}]
  /\ work' = [work EXCEPT ![l][a] = "decrypt"]
  /\ UNCHANGED <<apps, listener, filters, asked, answered, keyed, lost, process, conn, data,
                 file, crossed>>

-----------------------------------------------------------------------------
(* processEvent.                                                           *)

Work(l, a, from, to) == work[l][a] = from /\ work' = [work EXCEPT ![l][a] = to]

\* DecryptEvent looks the sender up in the apps of this moment; a request of one
\* that is not there is dropped without an answer.
DecryptEvent(l, a) ==
  /\ Work(l, a, "decrypt", IF a \in apps THEN "run" ELSE "done")
  /\ UNCHANGED <<controller, asked, answered, keyed, lost, process, conn, data, file, crossed>>

InFlight == {a \in Apps : \E l \in Listeners : \/ a \in events[l]
                                               \/ work[l][a] \notin {"none", "done"}}

\* A start loads the apps and listens; it panics if the file does not parse.
Restart ==
  /\ down' = (file.text # "good")
  /\ apps' = file.apps
  /\ conn' = [a \in Apps |-> IF conn[a] = "fill" THEN "cut"
                             ELSE IF a \in Handling THEN "failed" ELSE conn[a]]
  /\ listener' = [l \in Listeners |-> IF l = Boot /\ ~down' THEN "spawned" ELSE "none"]
  /\ filters' = [l \in Listeners |-> {}]
  /\ events' = [l \in Listeners |-> {}]
  /\ work' = [l \in Listeners |-> [a \in Apps |-> "none"]]
  /\ lost' = lost \cup InFlight
  /\ data' = [a \in Apps |-> {}]
  /\ UNCHANGED <<asked, answered, keyed, file, crossed>>

\* Slip: the method waits until there is a wallet.
RunMethodWhenKeyed(l, a) ==
  /\ keyed
  /\ Work(l, a, "run", "publish")
  /\ UNCHANGED <<controller, asked, answered, keyed, lost, process, conn, data, file, crossed>>

\* A method that is not registered is answered with an error.  The others read the
\* wallet: without one the goroutine panics, which ends the process.
RunMethod(l, a) ==
  \/ /\ keyed \/ asked[a] = "other"
     /\ Work(l, a, "run", "publish")
     /\ UNCHANGED <<controller, asked, answered, keyed, lost, process, conn, data, file,
                    crossed>>
  \/ /\ ~keyed /\ asked[a] = "known"
     /\ work[l][a] = "run"
     /\ Restart
     /\ UNCHANGED crashes

PublishResponse(l, a, ok) ==
  /\ Work(l, a, "publish", "done")
  /\ IF ok THEN answered' = [answered EXCEPT ![a] = @ + 1] /\ UNCHANGED lost
           ELSE lost' = lost \cup {a} /\ UNCHANGED answered
  /\ UNCHANGED <<controller, asked, keyed, process, conn, data, file, crossed>>

-----------------------------------------------------------------------------
(* The process.                                                            *)

\* PUT /new-keys gives the daemon a wallet.
SetKeys ==
  /\ ~down /\ ~keyed
  /\ keyed' = TRUE
  /\ UNCHANGED <<controller, asked, answered, work, lost, process, conn, data, file, crossed>>

Crash ==
  /\ ~down
  /\ crashes < MaxCrashes
  /\ crashes' = crashes + 1
  /\ Restart

-----------------------------------------------------------------------------
Init ==
  /\ apps = {}
  /\ conn = [a \in Apps |-> "new"]
  /\ data = [a \in Apps |-> {}]
  /\ file = Good({})
  /\ listener = [l \in Listeners |-> IF l = Boot THEN "spawned" ELSE "none"]
  /\ filters = [l \in Listeners |-> {}]
  /\ events = [l \in Listeners |-> {}]
  /\ work = [l \in Listeners |-> [a \in Apps |-> "none"]]
  /\ keyed \in BOOLEAN
  /\ asked = [a \in Apps |-> "nothing"]
  /\ answered = [a \in Apps |-> 0]
  /\ lost = {}
  /\ crossed = {}
  /\ crashes = 0
  /\ down = FALSE

\* The steps of a handler that has begun.
Handle(a) ==
  \/ AddApp(a)
  \/ \E l \in Listeners : StopListening(a, l)
  \/ SpawnListener(a)
  \/ SerialiseApps(a)
  \/ \E ok \in BOOLEAN : TruncateFile(a, ok) \/ FillFile(a, ok)

Listen(l) == Subscribe(l) \/ \E a \in Apps : TakeEvent(l, a)

Answer(l, a) ==
  DecryptEvent(l, a) \/ RunMethod(l, a) \/ \E ok \in BOOLEAN : PublishResponse(l, a, ok)

Next ==
  \/ \E a \in Apps : (\E ok \in BOOLEAN : PublishInfoEvent(a, ok)) \/ Handle(a)
  \/ \E a \in Senders, method \in {"known", "other"} : SendRequest(a, method)
  \/ \E l \in Listeners : Listen(l) \/ \E a \in Apps : Answer(l, a)
  \/ SetKeys
  \/ Crash

Spec == Init /\ [][Next]_vars

-----------------------------------------------------------------------------
(* Safety.                                                                 *)

\* "stop and restart listening so new app is being listened for" (105): however
\* many connections are made at once, there is one listener, or one handler that
\* has stopped the last one and is about to start the next.
Live == {l \in Listeners : listener[l] \in {"spawned", "listening"}}

OneListener ==
  ~down => Cardinality(Live) + Cardinality({a \in Apps : conn[a] = "spawn"}) = 1

\* A request is answered at most once, although listeners come and go.
AnsweredOnce == \A a \in Apps : answered[a] <= 1

\* An app that was written while no other handler wrote (routes.go:176, db.go:25) is
\* known to the process and in the file, however the handlers met before, and through
\* every later connection and restart, whichever of them meet then: as long as the file
\* parses.  It fails to parse, and the process to start, only while a handler writes it,
\* after a write was cut short, or after two handlers have written one over the other.
AppsSurvive ==
  /\ \A a \in Apps : conn[a] = "done" /\ a \notin crossed
                       => /\ down \/ a \in apps
                          /\ file.text = "good" => a \in file.apps
  /\ down \/ file.text # "good"
       => crossed # {} \/ \E a \in Apps : conn[a] \in {"fill", "cut"}

-----------------------------------------------------------------------------
(* Fairness: goroutines run.  Nobody has to ask for a connection or to send a *)
(* request.                                                                 *)

Fairness ==
  /\ \A a \in Apps : WF_vars(Handle(a))
  /\ \A l \in Listeners : WF_vars(Listen(l)) /\ \A a \in Apps : WF_vars(Answer(l, a))

FairSpec == Spec /\ Fairness

\* A handler that has begun ends: the stop it sends always finds a listener.
ConnectionEnds == \A a \in Apps : a \in Handling ~> a \notin Handling

\* Every app the controller knows is listened for in the end.
EveryAppListenedFor == \A a \in Apps : a \in apps ~> a \notin apps \/ Listening(a) # {}

\* A request is answered, with an error if need be, unless it found no subscription
\* or met the replacement of the listener, the end of the process or a failing relay:
\* the app that sent it is always known to the listener that took it.
RequestAnswered ==
  \A a \in Apps : asked[a] # "nothing" ~> answered[a] > 0 \/ a \in lost
=============================================================================
