-------------------------- MODULE EnvelopeRelease --------------------------
(***************************************************************************)
(* What emergency access promises about one recovery envelope: it is handed *)
(* out only on a request that stood for its whole wait, and that was made   *)
(* after the envelope was stored.                                           *)
(***************************************************************************)
EXTENDS Naturals

CONSTANTS Waits,    \* the wait periods a grantor may choose, in days
          MaxTime   \* the last day considered

VARIABLES phase,    \* "closed", "waiting" or "open"
          since,    \* the day of the request, 0 when closed
          wait,     \* the wait it is held to
          env,      \* the day the envelope was stored, 0 when closed
          released, \* the envelopes handed out, named by that day
          now

vars == <<phase, since, wait, env, released, now>>

Phases == {"closed", "waiting", "open"}

Init ==
  /\ phase = "closed" /\ since = 0 /\ env = 0
  /\ wait = 0
  /\ released = {}
  /\ now = 1

\* A request starts to wait.  One made on the day of a new designation or a
\* carry may see the envelope and the wait replaced under it on that day.
Ask ==
  /\ phase # "open"
  /\ phase' = "waiting" /\ since' = now
  /\ wait' \in Waits
  /\ env' \in 1..now
  /\ UNCHANGED <<released, now>>

\* A decline, a revocation, an invalidation or a new designation.
Close ==
  /\ phase' = "closed" /\ since' = 0 /\ wait' = 0 /\ env' = 0
  /\ UNCHANGED <<released, now>>

Elapsed == since + wait <= now

Open ==
  /\ phase = "waiting" /\ Elapsed
  /\ phase' = "open"
  /\ UNCHANGED <<since, wait, env, released, now>>

Release ==
  /\ \/ phase = "open"
     \/ phase = "waiting" /\ Elapsed
  /\ released' = released \cup {env}
  /\ UNCHANGED <<phase, since, wait, env, now>>

Tick ==
  /\ now < MaxTime
  /\ now' = now + 1
  /\ UNCHANGED <<phase, since, wait, env, released>>

Next == Ask \/ Close \/ Open \/ Release \/ Tick

Spec == Init /\ [][Next]_vars
=============================================================================
