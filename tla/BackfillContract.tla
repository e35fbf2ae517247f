-------------------------- MODULE BackfillContract --------------------------
(***************************************************************************)
(* What the backfill of one stream promises its caller, without ranges,    *)
(* pages or checkpoints: objects are delivered one at a time, at least     *)
(* once; `complete' is reported only when every object of the run's        *)
(* time_range has been delivered, save those the stream abandoned when a   *)
(* request was cut or its backfill_limit was reached; a crash takes the    *)
(* caller's view back to the last answer it received, never the            *)
(* deliveries.  Cf. docs/engine-refactor/sync-lifecycle.md.                *)
(***************************************************************************)
CONSTANT Objects

VARIABLES
  scope,      \* objects in the time_range of the current run
  status,     \* stream status the caller sees
  delivered,  \* objects delivered so far
  abandoned,  \* objects nobody will look for again
  saved       \* status and scope of the last answer

vars == <<scope, status, delivered, abandoned, saved>>

Init ==
  /\ scope = {} /\ delivered = {} /\ abandoned = {}
  /\ status = "not_started"
  /\ saved = [status |-> status, scope |-> scope]

\* A request with a new run_id; it starts the stream or finds nothing to do.
\* The second kind answers at once.
StartRun ==
  /\ scope' \in SUBSET Objects
  /\ \/ status' = "started" /\ saved' = saved
     \/ status' = "not_started"
        /\ saved' = [status |-> status', scope |-> scope']
  /\ UNCHANGED <<delivered, abandoned>>

\* A request that continues the run.
Restart ==
  /\ status \in {"not_started", "started"}
  /\ status' = "started"
  /\ UNCHANGED <<scope, delivered, abandoned, saved>>

Deliver ==
  /\ status = "started"
  /\ \E i \in Objects : delivered' = delivered \cup {i}
  /\ UNCHANGED <<scope, status, abandoned, saved>>

Abandon ==
  /\ \E S \in SUBSET (Objects \ delivered) : abandoned' = abandoned \cup S
  /\ UNCHANGED <<scope, status, delivered>>

\* At a backfill_limit the request goes on, at a cut it answers.
AbandonAtLimit == Abandon /\ status = "started" /\ saved' = saved
AbandonAtCut   == Abandon /\ saved' = [status |-> status, scope |-> scope]

Finish ==
  /\ status = "started"
  /\ scope \subseteq delivered \cup abandoned
  /\ status' = "completed"
  /\ UNCHANGED <<scope, delivered, abandoned, saved>>

GiveUp ==
  /\ status = "started"
  /\ status' \in {"errored", "skipped"}
  /\ UNCHANGED <<scope, delivered, abandoned, saved>>

Crash ==
  /\ scope' = saved.scope
  /\ status' = saved.status
  /\ UNCHANGED <<delivered, abandoned, saved>>

Next ==
  \/ StartRun \/ Restart
  \/ Deliver
  \/ AbandonAtLimit \/ AbandonAtCut
  \/ Finish \/ GiveUp
  \/ Crash

Spec == Init /\ [][Next]_vars
=============================================================================
