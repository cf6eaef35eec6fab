----------------------------- MODULE KeyLease -----------------------------
(***************************************************************************)
(* What browser input promises a game, with no pages, no network and no    *)
(* socket: at any time at most one client holds the lease, only the holder *)
(* changes which keys are held, and whoever loses the lease leaves no key  *)
(* behind.                                                                 *)
(***************************************************************************)
CONSTANTS Clients, Keys, NoClient

VARIABLES holder,    \* the client that controls the game, or NoClient
          held       \* the keys the game holds once it has read its input

leaseVars == <<holder, held>>

LeaseInit == holder = NoClient /\ held = {}

MayControl(c) == holder \in {NoClient, c} /\ holder' = c

Claim(c) == MayControl(c) /\ UNCHANGED held

Press(c, k) == MayControl(c) /\ held' = held \cup {k}

Lift(c, k) == MayControl(c) /\ held' = held \ {k}

\* The holder lets go, its lease expires, or the run ends.
Release == holder' = NoClient /\ held' = {}

\* The game is gone; its holder has yet to notice.
GameGone == held' = {} /\ UNCHANGED holder

LeaseNext ==
    \/ \E c \in Clients : Claim(c) \/ \E k \in Keys : Press(c, k) \/ Lift(c, k)
    \/ Release
    \/ GameGone

LeaseSpec == LeaseInit /\ [][LeaseNext]_leaseVars

=============================================================================
