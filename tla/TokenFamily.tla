---------------------------- MODULE TokenFamily ----------------------------
(***************************************************************************)
(* What one login promises, seen from outside the refresh-token table.      *)
(*                                                                         *)
(* A family is one login.  It holds one usable refresh token, or none while *)
(* the token is being replaced, and a family that holds nothing and is not  *)
(* being rotated has ended: no step brings it back.  A token that has been  *)
(* lost is never usable again.                                             *)
(*                                                                         *)
(* RefreshTokens implements this specification for the families whose       *)
(* rotations do not overlap; its other families draw tokens too.            *)
(***************************************************************************)
CONSTANTS Families,        \* the logins
          Tokens           \* the refresh tokens, each issued at most once

VARIABLES born,            \* the families that have been started
          holds,           \* [Families -> SUBSET Tokens] the usable tokens
          rotating,        \* the families a rotation may still write to
          issued           \* every token ever issued

famVars == <<born, holds, rotating, issued>>

Init ==
    /\ born = {}
    /\ holds = [f \in Families |-> {}]
    /\ rotating = {}
    /\ issued = {}

\* A sign-in creates a family and its first token.
Start(f, t) ==
    /\ f \notin born
    /\ t \notin issued
    /\ born' = born \cup {f}
    /\ holds' = [holds EXCEPT ![f] = {t}]
    /\ issued' = issued \cup {t}
    /\ UNCHANGED rotating

\* Somebody presented the usable token.
Begin(f) ==
    /\ f \notin rotating
    /\ holds[f] # {}
    /\ rotating' = rotating \cup {f}
    /\ UNCHANGED <<born, holds, issued>>

\* The tokens of some families stop being usable: burned, revoked or expired.
Lose(F) ==
    /\ holds' = [f \in Families |-> IF f \in F THEN {} ELSE holds[f]]
    /\ UNCHANGED <<born, rotating, issued>>

\* The rotation writes the replacement; the old token is already gone.
Replace(f, t) ==
    /\ f \in rotating
    /\ holds[f] = {}
    /\ t \notin issued
    /\ holds' = [holds EXCEPT ![f] = {t}]
    /\ rotating' = rotating \ {f}
    /\ issued' = issued \cup {t}
    /\ UNCHANGED born

\* The rotation ends without a replacement.
Abandon(f) ==
    /\ f \in rotating
    /\ rotating' = rotating \ {f}
    /\ UNCHANGED <<born, holds, issued>>

\* A login that is none of Families draws a token.
Elsewhere(t) ==
    /\ t \notin issued
    /\ issued' = issued \cup {t}
    /\ UNCHANGED <<born, holds, rotating>>

Next ==
    \/ \E t \in Tokens : Elsewhere(t)
    \/ \E f \in Families, t \in Tokens : Start(f, t) \/ Replace(f, t)
    \/ \E f \in Families : Begin(f) \/ Abandon(f)
    \/ \E F \in SUBSET Families : Lose(F)

Spec == Init /\ [][Next]_famVars
=============================================================================
