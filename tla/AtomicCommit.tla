----------------------------- MODULE AtomicCommit ------------------------------
(***************************************************************************)
(* What the publisher promises the rollups about cross-chain transactions, *)
(* whatever the queueing, the timeouts and the message traffic: instances  *)
(* that run at the same time span disjoint chains, and each ends at most   *)
(* once, committed only with the consent of every chain it spans.          *)
(***************************************************************************)
CONSTANTS
  Participants(_)  \* the chains an instance spans

VARIABLES
  active,     \* instances under way
  committed,  \* instances decided true
  aborted,    \* instances decided false
  ballots     \* votes cast: [xt, chain, vote]

vars == <<active, committed, aborted, ballots>>

Init == active = {} /\ committed = {} /\ aborted = {} /\ ballots = {}

Cast(b) ==
  /\ ballots' = ballots \cup {b}
  /\ UNCHANGED <<active, committed, aborted>>

Start(x) ==
  /\ x \notin active \cup committed \cup aborted
  /\ \A y \in active : Participants(x) \cap Participants(y) = {}
  /\ active' = active \cup {x}
  /\ UNCHANGED <<committed, aborted, ballots>>

Commit(x) ==
  /\ x \in active
  /\ \A c \in Participants(x) : [xt |-> x, chain |-> c, vote |-> TRUE] \in ballots
  /\ active' = active \ {x}
  /\ committed' = committed \cup {x}
  /\ UNCHANGED <<aborted, ballots>>

\* Several instances may be given up together
Abort(xts) ==
  /\ xts \subseteq active
  /\ active' = active \ xts
  /\ aborted' = aborted \cup xts
  /\ UNCHANGED <<committed, ballots>>

Next ==
  \/ \E b \in ballots' : Cast(b)
  \/ \E x \in active' : Start(x)
  \/ \E x \in active : Commit(x)
  \/ \E xts \in SUBSET active : Abort(xts)

Spec == Init /\ [][Next]_vars

================================================================================
