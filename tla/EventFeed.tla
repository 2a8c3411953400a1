------------------------------ MODULE EventFeed ------------------------------
(***************************************************************************)
(* What the event stream of one conversation promises a consumer that      *)
(* stops and resumes, without buffers, queues or generators: events 1, 2,  *)
(* 3, ... are appended, and each consumer is handed them in order, once,   *)
(* and skips an event only after it has been told that it missed it.       *)
(* The one exception is a consumer's first subscription, which begins      *)
(* wherever the retained history begins.                                   *)
(* Source: the header of src/src/events.mjs (lines 11-15, 61-71).          *)
(***************************************************************************)
EXTENDS Naturals

CONSTANT Watchers

VARIABLES
    appended,   \* number of events published so far
    position,   \* position[w]: the last event consumer w was handed, 0 if none
    announced   \* announced[w]: the events w was told it had missed

feedVars == <<appended, position, announced>>

FeedInit ==
    /\ appended = 0
    /\ position = [w \in Watchers |-> 0]
    /\ announced = [w \in Watchers |-> {}]

Append1 ==
    /\ appended' = appended + 1
    /\ UNCHANGED <<position, announced>>

\* A gap signal names only events that come next for w and that exist.
Announce(w) ==
    /\ position[w] > 0
    /\ \E upTo \in (position[w] + 1)..appended :
          announced' = [announced EXCEPT ![w] = @ \union ((position[w] + 1)..upTo)]
    /\ UNCHANGED <<appended, position>>

Deliver(w) ==
    /\ \E n \in (position[w] + 1)..appended :
          /\ \/ position[w] = 0
             \/ (position[w] + 1)..(n - 1) \subseteq announced[w]
          /\ n \notin announced[w]
          /\ position' = [position EXCEPT ![w] = n]
    /\ UNCHANGED <<appended, announced>>

FeedNext == Append1 \/ \E w \in Watchers : Announce(w) \/ Deliver(w)

FeedSpec == FeedInit /\ [][FeedNext]_feedVars
=============================================================================
