----------------------------- MODULE MCChatRoom -----------------------------
(***************************************************************************)
(* Instances of ChatRoom for TLC.  The clients of ChatRoom may send for    *)
(* ever; here each has MaxSends segments to send, and nothing is explored  *)
(* after the server has died.                                              *)
(***************************************************************************)
EXTENDS ChatRoom, TLC

CONSTANTS u1, u2, hello,
          MaxSends  \* bound: segments of one client

VARIABLE sends  \* sends[u]: how many segments of u have entered its connection

Symmetry == Permutations(Users)

MCInit == Init /\ sends = [u \in Users |-> 0]

Counts ==
  /\ sends' = [u \in Users |-> sends[u] + (IF Len(up'[u]) > Len(up[u]) THEN 1 ELSE 0)]
  /\ \A u \in Users : sends'[u] <= MaxSends

MCNext == alive /\ Next /\ Counts

MCSpec == MCInit /\ [][MCNext]_<<vars, sends>>
MCFairSpec == MCSpec /\ Fairness
=============================================================================
