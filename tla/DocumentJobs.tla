---------------------------- MODULE DocumentJobs ----------------------------
(***************************************************************************)
(* What Studio's documents may expect of its worker thread: a document has *)
(* at most one operation at a time, an accepted operation is worked on and *)
(* then applied, exactly once each, and a document is only discarded when  *)
(* it has none.                                                            *)
(***************************************************************************)
CONSTANT Docs

VARIABLES
  stage,   \* how far each document is with its operation
  defined  \* nothing has been done to a discarded document

vars == <<stage, defined>>

Stages == {"unopened", "idle", "accepted", "worked", "gone"}

Init == stage = [d \in Docs |-> "unopened"] /\ defined = TRUE

Advance(d, from, to) ==
  /\ stage[d] = from
  /\ stage' = [stage EXCEPT ![d] = to]
  /\ UNCHANGED defined

Open(d)   == Advance(d, "unopened", "idle")
Accept(d) == Advance(d, "idle", "accepted")
Work(d)   == Advance(d, "accepted", "worked")
Apply(d)  == Advance(d, "worked", "idle")

Discard(ds) ==
  /\ \A d \in ds : stage[d] = "idle"
  /\ stage' = [d \in Docs |-> IF d \in ds THEN "gone" ELSE stage[d]]
  /\ UNCHANGED defined

\* Once a discarded document is used, anything may happen.
Misuse ==
  /\ \E d \in Docs : stage[d] = "gone"
  /\ defined' = FALSE
  /\ UNCHANGED stage

Next ==
  /\ defined
  /\ \/ \E d \in Docs : Open(d) \/ Accept(d) \/ Work(d) \/ Apply(d)
     \/ \E ds \in SUBSET Docs : Discard(ds)
     \/ Misuse

\* An accepted operation is applied in the end.
Served == \A d \in Docs : stage[d] = "accepted" ~> stage[d] = "idle" \/ ~defined

Spec == Init /\ [][Next]_vars /\ Served
=============================================================================
