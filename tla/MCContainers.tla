---------------------------- MODULE MCContainers ----------------------------
(***************************************************************************)
(* The data structures over allocators, one at a time: what is not the     *)
(* client's stays as it began.                                             *)
(*   lists: two of four nodes: an erase at either end and in the middle, a *)
(*     swap of lists of different lengths, cleared lists with nodes left.  *)
(*   an event: four connections and two fires, one inside a listener of    *)
(*     the other: listeners that disconnect themselves, older and newer    *)
(*     ones, and connect one while the list is walked twice.               *)
(*   hash tables: two of up to four elements over three keys, growing from *)
(*     one bucket to three; one exception of client code anywhere.         *)
(***************************************************************************)
EXTENDS DclList, Event, HashTable

VARIABLES
  client     \* "lists", "event" or "tables"

Primes == <<1, 2, 3>>
KeyItself == [k \in Key |-> k]

MCInit ==
  /\ client \in {"lists", "event", "tables"}
  /\ Init /\ EInit /\ HInit
  /\ client # "tables" => multi /\ Len(buckets[Main]) = 1

MCNext ==
  \/ client = "lists" /\ Next /\ UNCHANGED <<client, evars, hvars>>
  \/ client = "event" /\ ENext /\ UNCHANGED <<client, vars, hvars>>
  \/ client = "tables" /\ HNext /\ UNCHANGED <<client, vars, evars>>

mcvars == <<client, vars, evars, hvars>>
MCSpec == MCInit /\ [][MCNext]_mcvars /\ Fairness
=============================================================================
