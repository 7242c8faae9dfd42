---------------------------- MODULE MCSdkSession ----------------------------
(* Small instances of SdkSession for TLC. *)
EXTENDS SdkSession, TLC

\* A RefreshFn of one's own, then the one of createServerClient.
MCSetups ==
    {[readsReply |-> TRUE, operations |-> {"get", "force", "signOut"}],
     [readsReply |-> TRUE, operations |-> {"get", "signIn"}],
     [readsReply |-> FALSE, operations |-> {"get", "signIn", "signOut"}]}

Symmetry == Permutations(Callers) \cup Permutations(Managers)
=============================================================================
