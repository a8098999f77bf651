------------------------------ MODULE TokenLife -------------------------------
(***************************************************************************)
(* What a session token promises to its bearer and to the shop, whatever   *)
(* rows, copies and requests under way stand behind it: it is new until it *)
(* has been issued, live until it expires or is logged out, may fade for a *)
(* while in which it is still let in now and then, and is over for good.   *)
(* Sessions implements this specification.                                 *)
(***************************************************************************)

CONSTANTS
    Tokens       \* the tokens Login may generate

VARIABLES
    life,        \* where a token is in its life
    letIn        \* the tokens whose bearer is let in by this very step

vars == <<life, letIn>>

Lives == {"new", "live", "fading", "over"}

Init ==
    /\ life = [t \in Tokens |-> "new"]
    /\ letIn = {}

\* The lives a token may go on to.  One that could not be saved is over
\* before it has begun.
Later(l) ==
    CASE l = "new"    -> {"new", "live", "over"}
      [] l = "live"   -> {"live", "fading", "over"}
      [] l = "fading" -> {"fading", "over"}
      [] l = "over"   -> {"over"}

\* Only a token that is live or fading is let in.
Admissible == {t \in Tokens : life[t] \in {"live", "fading"}}

Next ==
    /\ life' \in [Tokens -> Lives]
    /\ \A t \in Tokens : life'[t] \in Later(life[t])
    /\ letIn' \subseteq Admissible

Spec == Init /\ [][Next]_vars
===============================================================================
