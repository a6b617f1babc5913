--------------------------- MODULE SearchService ---------------------------
(***************************************************************************)
(* What the read endpoints of a worker promise, with no word of a cache:    *)
(* every reply is the answer of some version of the databases that was in   *)
(* place at the request or no longer than a window before it.  The windows  *)
(* are the CACHE_TTL_ settings plus the longest query.                      *)
(***************************************************************************)
EXTENDS Integers

CONSTANTS
  Clients,
  Requests,
  Versions,        \* the versions of the databases, from 1
  Respond(_, _),   \* the answer of a version to a request
  Bad(_),          \* a request that is refused for its parameters
  Denial,          \* that refusal
  Window(_),       \* how old the answer to a request may be
  Nothing

VARIABLES
  clock,
  version,    \* the version in place
  replaced,   \* replaced[v]: when version v was replaced, or Nothing
  asked,      \* asked[c]: the request a client waits for, or Nothing
  came,       \* came[c]: when it came, 0 for no request
  reply       \* what the last step has replied: [to, body], or Nothing

vars == <<clock, version, replaced, asked, came, reply>>

Init ==
  /\ clock = 0
  /\ version \in Versions
  /\ replaced = [v \in Versions |-> Nothing]
  /\ asked = [c \in Clients |-> Nothing]
  /\ came = [c \in Clients |-> 0]
  /\ reply = Nothing

Pass == clock' = clock + 1 /\ reply' = Nothing /\ UNCHANGED <<version, replaced, asked, came>>

Publish ==
  /\ version' = version + 1 /\ version' \in Versions
  /\ replaced' = [replaced EXCEPT ![version] = clock]
  /\ reply' = Nothing
  /\ UNCHANGED <<clock, asked, came>>

Ask(c, r) ==
  /\ asked[c] = Nothing
  /\ asked' = [asked EXCEPT ![c] = r]
  /\ came' = [came EXCEPT ![c] = clock]
  /\ reply' = Nothing
  /\ UNCHANGED <<clock, version, replaced>>

\* A version that is recent enough for the request of c.
Recent(c, v) ==
  v = version \/ (replaced[v] # Nothing /\ replaced[v] >= came[c] - Window(asked[c]))

Reply(c) ==
  /\ asked[c] # Nothing
  /\ \E v \in Versions :
       /\ Recent(c, v)
       /\ reply' = [to |-> c, body |-> IF Bad(asked[c]) THEN Denial
                                       ELSE Respond(v, asked[c])]
  /\ asked' = [asked EXCEPT ![c] = Nothing]
  /\ came' = [came EXCEPT ![c] = 0]
  /\ UNCHANGED <<clock, version, replaced>>

\* Work on a request, of which nothing is seen.
Work == reply' = Nothing /\ UNCHANGED <<clock, version, replaced, asked, came>>

\* The worker is restarted: whoever waits waits for nothing.
Restart ==
  /\ asked' = [c \in Clients |-> Nothing]
  /\ came' = [c \in Clients |-> 0]
  /\ reply' = Nothing
  /\ UNCHANGED <<clock, version, replaced>>

Next ==
  \/ Pass \/ Publish \/ Work \/ Restart
  \/ \E c \in Clients : Reply(c) \/ \E r \in Requests : Ask(c, r)

Spec == Init /\ [][Next]_vars
=============================================================================
