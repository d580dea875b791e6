-------------------------------- MODULE Ramp --------------------------------
(***************************************************************************)
(* What the pools promise of a parameter that "changes gradually": a value *)
(* that moves only while time passes, only towards its announced target,   *)
(* and that has arrived when the announced deadline comes.  An update that *)
(* is announced, replaced or stopped at an instant does not move the value *)
(* at that instant, so the price a trader sees in a block does not depend  *)
(* on where in the block the update falls.                                 *)
(*                                                                         *)
(* StableAmplification and LBPool are shown to implement this module.      *)
(***************************************************************************)
EXTENDS Integers

VARIABLES now, value, target, deadline

vars == <<now, value, target, deadline>>

\* y lies on the way from x to z, ends included.
OnTheWay(x, y, z) == \/ x <= y /\ y <= z
                     \/ z <= y /\ y <= x

\* At rest or already announced: a value still on its way has time to arrive.
Init == deadline > now \/ value = target

\* Time passes: the value may move towards the target, no further.
Advance == /\ now' > now
           /\ OnTheWay(value, value', target)
           /\ now' >= deadline => value' = target
           /\ UNCHANGED <<target, deadline>>

\* A new target, reached later than now; the value itself does not jump.
Retarget == /\ deadline' > now
            /\ UNCHANGED <<now, value>>

\* The value stays where it is from now on.
Freeze == /\ target' = value
          /\ deadline' = now
          /\ UNCHANGED <<now, value>>

Next == Advance \/ Retarget \/ Freeze

Spec == Init /\ [][Next]_vars
=============================================================================
