------------------------------ MODULE Membership ------------------------------
(***************************************************************************)
(* Who belongs to an application: the membership rows                       *)
(* (packages/db/src/queries/members.ts), invitations and transfers          *)
(* (packages/db/src/queries/lifecycle.ts, packages/core/src/invitation.ts), *)
(* and the first sign-in through the token route, which makes a stranger a  *)
(* member (apps/web/src/app/api/v1/auth/token/route.ts).                    *)
(*                                                                         *)
(* Each statement is a step of a request.  The role column of a membership  *)
(* is left out: no check of the gateway reads it.  What a transfer does to  *)
(* refresh tokens is RefreshTokens!RevokeOnApp.                             *)
(***************************************************************************)
EXTENDS Naturals

CONSTANTS
    People,
    Invitations,    \* ids of invitation rows, the same as their tokens
    Handlers        \* requests about memberships in progress at once

Sites == {"here", "there"}      \* the application the gateway serves, and another
Other(site) == IF site = "here" THEN "there" ELSE "here"

VARIABLES
    members,        \* infra_app_members, by application
    invitations,    \* infra_invitations
    handler,        \* the requests in progress
    settled,        \* history: people who belong somewhere and whom nobody removed
    moves, moveBound \* bound: calls about memberships, of a behaviour

memberVars == <<members, invitations, handler, settled, moves, moveBound>>

AtRest == [pc |-> "idle"]
NotSent == [sent |-> FALSE]

InitMembers(here, bound) ==
    /\ members = [s \in Sites |-> IF s = "here" THEN here ELSE {}]
    /\ invitations = [v \in Invitations |-> NotSent]
    /\ handler = [h \in Handlers |-> AtRest]
    /\ settled = here
    /\ moves = 0 /\ moveBound = bound

Called == moves < moveBound /\ moves' = moves + 1 /\ UNCHANGED moveBound
GoesOn == UNCHANGED <<moves, moveBound>>
Starts(h, state) == Called /\ handler[h] = AtRest /\ handler' = [handler EXCEPT ![h] = state]
Continues(h, from, pc) == GoesOn /\ handler[h].pc = from /\ handler' = [handler EXCEPT ![h].pc = pc]
Returns(h, from) == GoesOn /\ handler[h].pc = from /\ handler' = [handler EXCEPT ![h] = AtRest]

\* A transfer of this person is under way.
Moving(u) == \E h \in Handlers : handler[h].pc = "leave" /\ handler[h].who = u

Enters(u, site) ==
    /\ members' = [members EXCEPT ![site] = @ \cup {u}]
    /\ settled' = IF Moving(u) THEN settled ELSE settled \cup {u}

-----------------------------------------------------------------------------
(* Invitations: bound to a person, by the address *)

inviteMember(v, u) ==
    /\ Called /\ invitations[v] = NotSent
    /\ invitations' = [invitations EXCEPT ![v] =
           [sent |-> TRUE, to |-> u, accepted |-> FALSE, revoked |-> FALSE, lapsed |-> FALSE]]
    /\ UNCHANGED <<members, handler, settled>>

LapseInvitation(v) ==
    /\ Called /\ invitations[v].sent /\ ~invitations[v].lapsed
    /\ invitations' = [invitations EXCEPT ![v].lapsed = TRUE]
    /\ UNCHANGED <<members, handler, settled>>

\* WHERE accepted_at IS NULL.
revokeInvitation(v) ==
    /\ Called /\ invitations[v].sent /\ ~invitations[v].accepted
    /\ invitations' = [invitations EXCEPT ![v].revoked = TRUE]
    /\ UNCHANGED <<members, handler, settled>>

Acceptable(v, u) ==
    LET row == invitations[v] IN
    row.sent /\ ~row.revoked /\ ~row.accepted /\ ~row.lapsed /\ row.to = u

\* acceptInvitation reads the row, marks it whatever it has become, ...
OpenInvitation(h, v, u) ==
    /\ Acceptable(v, u) /\ Starts(h, [pc |-> "mark", invitation |-> v, who |-> u])
    /\ UNCHANGED <<members, invitations, settled>>

MarkAccepted(h) ==
    /\ Continues(h, "mark", "join")
    /\ invitations' = [invitations EXCEPT ![handler[h].invitation].accepted = TRUE]
    /\ UNCHANGED <<members, settled>>

\* ... and adds the member, who may be one already.
JoinInvited(h) ==
    /\ Returns(h, "join") /\ Enters(handler[h].who, "here")
    /\ UNCHANGED invitations

-----------------------------------------------------------------------------
(* Transfers and removal *)

\* Mutant: the old membership goes first.
TransferOutFirst(h, u, from) ==
    /\ Starts(h, [pc |-> "leave", who |-> u, from |-> from])
    /\ members' = [members EXCEPT ![from] = @ \ {u}]
    /\ settled' = IF Moving(u) THEN settled \ {u} ELSE settled
    /\ UNCHANGED invitations

\* transferMembership adds the new membership, ...
transferMembership(h, u, from) ==
    /\ Starts(h, [pc |-> "leave", who |-> u, from |-> from])
    /\ members' = [members EXCEPT ![Other(from)] = @ \cup {u}]
    /\ settled' = IF Moving(u) THEN settled \ {u} ELSE settled \cup {u}
    /\ UNCHANGED invitations

\* ... then removes the old one.
LeaveOld(h) ==
    /\ Returns(h, "leave")
    /\ members' = [members EXCEPT ![handler[h].from] = @ \ {handler[h].who}]
    /\ UNCHANGED <<invitations, settled>>

removeMember(u, site) ==
    /\ Called /\ u \in members[site]
    /\ members' = [members EXCEPT ![site] = @ \ {u}]
    /\ settled' = settled \ {u}
    /\ UNCHANGED <<invitations, handler>>

-----------------------------------------------------------------------------
(* The password grant of the token route *)

\* getMembership finds nobody, ...
SignInNew(h, u) ==
    /\ u \notin members["here"] /\ Starts(h, [pc |-> "add", who |-> u])
    /\ UNCHANGED <<members, invitations, settled>>

\* ... addMember upserts, and the default role comes last.
addMember(h) ==
    /\ Continues(h, "add", "role") /\ Enters(handler[h].who, "here")
    /\ UNCHANGED invitations

\* What follows it on these tables: nothing.
Welcomed(h) == Returns(h, "role") /\ UNCHANGED <<members, invitations, settled>>

\* A function dies between two statements.
HandlerDies(h) ==
    /\ GoesOn /\ handler[h] # AtRest /\ handler' = [handler EXCEPT ![h] = AtRest]
    /\ UNCHANGED <<members, invitations, settled>>

Belonging ==
    \/ \E u \in People :
        \/ \E site \in Sites : removeMember(u, site)
        \/ \E v \in Invitations : inviteMember(v, u)
        \/ \E h \in Handlers :
            \/ SignInNew(h, u)
            \/ \E v \in Invitations : OpenInvitation(h, v, u)
            \/ \E site \in Sites : transferMembership(h, u, site)
    \/ \E v \in Invitations : LapseInvitation(v) \/ revokeInvitation(v)
    \/ \E h \in Handlers :
        MarkAccepted(h) \/ JoinInvited(h) \/ LeaveOld(h) \/ addMember(h) \/ HandlerDies(h)

\* What a system that serves these requests may do to these tables.
MemberSpec ==
    /\ \E here \in SUBSET People, bound \in Nat : InitMembers(here, bound)
    /\ [][Belonging \/ \E h \in Handlers : Welcomed(h)]_memberVars

-----------------------------------------------------------------------------
(* Properties *)

\* Somebody who joined by a sign-in, an invitation or a transfer belongs to
\* one of the two applications until somebody removes them: no transfer,
\* acceptance or sign-in that overlaps or dies leaves them nowhere ("Moves a
\* member between apps", lifecycle.ts:250).  Two transfers of one person that
\* overlap do, and nothing is said of them.
NeverNowhere == \A u \in settled : \E site \in Sites : u \in members[site]
=============================================================================
