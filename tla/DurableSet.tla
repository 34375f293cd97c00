------------------------------ MODULE DurableSet ------------------------------
(***************************************************************************)
(* What the hub store promises of the points it accepts, whatever it does  *)
(* with logs, tails and chunks: a series accepts points in time order, a   *)
(* group commit makes exactly the accepted points durable, and a crash     *)
(* leaves exactly the durable ones.  StoreLog implements it.               *)
(***************************************************************************)
EXTENDS Integers

CONSTANTS Keys,    \* the series keys
          Times    \* the hub times, in seconds

VARIABLES held,     \* the points the store answers for
          durable   \* the points the next open finds

absVars == <<held, durable>>

AbsInit == held = {} /\ durable = {}

\* A point later than every point its series holds.
AbsAccept ==
    \E k \in Keys, t \in Times :
        /\ \A u \in Times : <<k, u>> \in held => u < t
        /\ held' = held \cup {<<k, t>>}
        /\ UNCHANGED durable

\* A group commit: all that is held becomes durable, nothing durable is lost.
AbsCommit == durable' = held /\ UNCHANGED held

\* A crash, or a store that stops without committing.
AbsLose == held' = durable /\ UNCHANGED durable

AbsNext == AbsAccept \/ AbsCommit \/ AbsLose

AbsSpec == AbsInit /\ [][AbsNext]_absVars
===============================================================================
