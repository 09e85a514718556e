------------------------------ MODULE HeaderFeed ------------------------------
(***************************************************************************)
(* What the data provider promises to whoever synchronises relay headers.  *)
(*                                                                         *)
(* The relay chain is offered as segments.  A segment that starts at s is  *)
(* first published "dry" with a stop dry[s]; later it may be widened: a    *)
(* request that reaches from s to wide[s], past several dry segments.  A   *)
(* reader at s takes either and continues at the stop plus one, so a stop  *)
(* must always be followed by the start of another segment, or by the      *)
(* place where the next one will be published.                             *)
(***************************************************************************)
EXTENDS Integers

CONSTANTS First,    \* the first relay header that is offered
          Heights   \* the relay heights of the model

VARIABLES dry,      \* start of a published segment -> its stop
          wide      \* start of a widened segment -> the stop of the wide request

feedVars == <<dry, wide>>

Published == DOMAIN dry
Stops == {dry[s] : s \in Published}

\* n continues the feed: a segment starts there, or all published ones end before.
Continues(n) == n \in Published \/ \A s \in Published : dry[s] < n

FeedInit ==
    /\ dry = [s \in {} |-> 0]
    /\ wide = [s \in {} |-> 0]

\* A new segment begins where the last published one ended.
Publish(s, e) ==
    /\ s <= e
    /\ IF Published = {} THEN s = First
                         ELSE s - 1 \in Stops /\ \A t \in Published : dry[t] < s
    /\ dry' = [t \in Published \cup {s} |-> IF t = s THEN e ELSE dry[t]]
    /\ UNCHANGED wide

\* One batch lets every segment that starts in a..e reach to e, itself a stop.
Widen(a, e) ==
    /\ a \in Published
    /\ e \in Stops
    /\ a <= e
    /\ wide' = [s \in DOMAIN wide \cup {t \in Published : t \in a..e} |->
                    IF s \in a..e THEN e ELSE wide[s]]
    /\ UNCHANGED dry

FeedNext == \E s, e \in Heights : Publish(s, e) \/ Widen(s, e)

FeedSpec == FeedInit /\ [][FeedNext]_feedVars

\* A reader that consumes a segment, dry or wide, is at the start of another one
\* or at the end of the feed: never inside a segment, where nothing is stored.
NoDeadEnd ==
    /\ \A s \in Published : Continues(dry[s] + 1)
    /\ \A s \in DOMAIN wide : Continues(wide[s] + 1)
===============================================================================
