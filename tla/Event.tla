-------------------------------- MODULE Event --------------------------------
(***************************************************************************)
(* stdext/aop: an event keeps its connections in a dcl_list, newest first, *)
(* and fire calls their listeners one after another.  A listener is client *)
(* code: it may connect others, disconnect itself or others, and fire the  *)
(* event again.  fire reads the next connection before it calls the        *)
(* listener; a listener that disconnects just that one leaves fire with a  *)
(* connection that points at itself ("stranded" below).  Connections are   *)
(* the numbers from 1 on, in the order they are made.                      *)
(***************************************************************************)
EXTENDS DclListOps, FiniteSets

CONSTANTS
  MaxConn,    \* bound: connections ever made
  MaxDepth    \* bound: fires under way at a time

ASSUME EventAssumption == MaxConn \in Nat /\ MaxDepth \in Nat

Conn == 1..MaxConn
Event == 0     \* m_connections

VARIABLES
  links,       \* m_next and m_prev of the list and of every connection
  made,       \* how many connections were made
  handles,    \* the connections a Connection object holds
  fires,      \* the calls of fire, innermost first
  stranded    \* history: a connection some fire was about to visit was disconnected

evars == <<links, made, handles, fires, stranded>>

EInit ==
  /\ links = Unlinked({Event} \cup Conn)
  /\ made = 0
  /\ handles = {}
  /\ fires = << >>
  /\ stranded = FALSE

\* Client code runs outside fire, or in the listener the innermost fire called.
ClientRuns == fires # << >> => fires[1].calling

\* addListener; the handle is held, as the test says it must be
AddListener ==
  /\ ClientRuns /\ made < MaxConn
  /\ made' = made + 1
  /\ links' = InsertFront(links, Event, made')
  /\ handles' = handles \cup {made'}
  /\ UNCHANGED <<fires, stranded>>

\* Connection::disconnect, or its destructor
Disconnect(c) ==
  /\ ClientRuns /\ c \in handles
  /\ links' = Erase(links, c)
  /\ handles' = handles \ {c}
  /\ stranded' = (stranded \/ \E i \in DOMAIN fires : fires[i].next = c)
  /\ UNCHANGED <<made, fires>>

\* fire begins at the newest connection.
BeginFire ==
  /\ ClientRuns /\ Len(fires) < MaxDepth
  /\ fires' = <<[next |-> FirstOf(links, Event), calling |-> FALSE,
                 called |-> << >>, expected |-> handles]>> \o fires
  /\ UNCHANGED <<links, made, handles, stranded>>

\* Mutant: the loop advances twice; it does not advance.
CallListenerSkips ==
  LET c == fires[1].next IN
  /\ fires # << >> /\ ~fires[1].calling /\ ~Done(Event, c)
  /\ fires' = [fires EXCEPT ![1].next = links.next[links.next[c]], ![1].calling = TRUE,
                            ![1].called = Append(@, c)]
  /\ UNCHANGED <<links, made, handles, stranded>>

CallListenerStays ==
  LET c == fires[1].next IN
  /\ fires # << >> /\ ~fires[1].calling /\ ~Done(Event, c)
  /\ Len(fires[1].called) <= MaxConn
  /\ fires' = [fires EXCEPT ![1].calling = TRUE, ![1].called = Append(@, c)]
  /\ UNCHANGED <<links, made, handles, stranded>>

\* The next connection is read, then the listener is called.  A stranded
\* fire calls for ever; it is followed to its second call of a listener.
CallListener ==
  LET c == fires[1].next IN
  /\ fires # << >> /\ ~fires[1].calling /\ ~Done(Event, c)
  /\ Len(fires[1].called) <= MaxConn
  /\ fires' = [fires EXCEPT ![1].next = links.next[c], ![1].calling = TRUE,
                            ![1].called = Append(@, c)]
  /\ UNCHANGED <<links, made, handles, stranded>>

ListenerReturns ==
  /\ fires # << >> /\ fires[1].calling
  /\ fires' = [fires EXCEPT ![1].calling = FALSE]
  /\ UNCHANGED <<links, made, handles, stranded>>

EndFire ==
  /\ fires # << >> /\ ~fires[1].calling /\ Done(Event, fires[1].next)
  /\ fires' = Tail(fires)
  /\ UNCHANGED <<links, made, handles, stranded>>

FireStep == CallListener \/ ListenerReturns \/ EndFire

ENext ==
  \/ AddListener
  \/ \E c \in Conn : Disconnect(c)
  \/ BeginFire
  \/ FireStep

(***************************************************************************)
(* fire is a loop of the calling thread, so it goes on; a listener returns *)
(* sooner or later, whatever it fires meanwhile.                           *)
(***************************************************************************)
Fairness ==
  /\ WF_evars(CallListener \/ EndFire)
  /\ \A d \in 1..MaxDepth : SF_evars(Len(fires) = d /\ ListenerReturns)

ESpec == EInit /\ [][ENext]_evars /\ Fairness
-----------------------------------------------------------------------------
Listed == Forward(links, Event, MaxConn + 1)

ListedNewestFirst ==
  /\ Elems(Listed) = handles
  /\ \A i, j \in DOMAIN Listed : i < j => Listed[i] > Listed[j]

\* The list holds the connections with a handle, each once, newest first,
\* whatever listeners connect and disconnect while it is walked; and a fire
\* calls no listener twice and none before a newer one, also across nested
\* fires, unless it was stranded.
CalledOnceInOrder ==
  /\ ListedNewestFirst
  /\ ~stranded =>
       \A k \in DOMAIN fires :
         LET called == fires[k].called IN
         \A i, j \in DOMAIN called : i < j => called[i] > called[j]

\* When a fire ends it has called every listener that was connected when it
\* began and still is, and none that was not: one connected meanwhile waits
\* for the next fire, one disconnected before its turn is left out.
NobodyMissed ==
  [][Len(fires') < Len(fires) /\ ~stranded =>
       /\ fires[1].expected \cap handles \subseteq Elems(fires[1].called)
       /\ Elems(fires[1].called) \subseteq fires[1].expected]_evars

\* A fire returns when its listeners do, unless it was stranded.
FireReturns == (fires # << >>) ~> (fires = << >> \/ stranded)
=============================================================================
