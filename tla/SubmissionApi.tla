----------------------------- MODULE SubmissionApi -----------------------------
(***************************************************************************)
(* One contestant's uploads (middleware/auth.go, handlers/submission.go).  *)
(* Every request has a handler of its own; they meet in Redis, MinIO,      *)
(* Postgres and Kafka only, and each call to one of these may fail, may    *)
(* take effect although it reports an error, and may be the last one the   *)
(* handler makes.                                                          *)
(***************************************************************************)
EXTENDS Naturals, FiniteSets

CONSTANTS
  Upload,        \* POST /v1/submissions
  Limit,         \* submissions in an hour (10)
  MaxTroubles    \* bound: failing calls and handlers cut off

ASSUME SubmissionAssumption ==
  IsFiniteSet(Upload) /\ Limit \in Nat \ {0} /\ MaxTroubles \in Nat

VARIABLES
  upload,      \* where the handler of an upload is, or its answer
  counter,     \* rate_limit:submission:<contestant>; 0: no such key
  expiring,    \* has that key an expiry?
  objects,     \* the submissions whose file is in MinIO
  submissions, \* the ones that have a row in Postgres
  jobs,        \* the ones whose build job is in Kafka
  troubles,
  admitted     \* history: uploads the limit let through since the counter's
               \* key was made

limiter == <<counter, expiring, admitted>>
stored  == <<objects, submissions, jobs>>
apiVars == <<upload, limiter, stored, troubles>>

ApiInit ==
  /\ upload = [u \in Upload |-> "new"]
  /\ counter = 0 /\ expiring = FALSE
  /\ objects = {} /\ submissions = {} /\ jobs = {}
  /\ troubles = 0
  /\ admitted = {}

-----------------------------------------------------------------------------
(* A call ends well, with an error, or with an error after taking effect. *)

Outcomes == {"ok", "error", "unheard"}
Took(out) == out # "error"
Trouble(out) ==
  IF out = "ok" THEN UNCHANGED troubles
  ELSE troubles < MaxTroubles /\ troubles' = troubles + 1

To(u, step) == upload' = [upload EXCEPT ![u] = step]
Either(u, out, well, ill) == To(u, IF out = "ok" THEN well ELSE ill)

-----------------------------------------------------------------------------
(* Auth: the rate limit. *)

\* Mutated form of over: one upload too many.
overByOne(n) == n > Limit + 1

over(n) == n > Limit

\* Is this the count that sets the expiry?
first(n) == n = 1

\* What an INCR adds.
counted(out) == IF Took(out) THEN 1 ELSE 0

\* INCR makes the key.  If it fails, the upload is let through unchecked.
Incr(u, out) ==
  /\ upload[u] = "new" /\ Trouble(out)
  /\ counter' = counter + counted(out)
  /\ \/ out # "ok" /\ To(u, "checked") /\ UNCHANGED admitted
     \/ /\ out = "ok"
        /\ IF first(counter') THEN To(u, "expire") /\ UNCHANGED admitted
           ELSE IF over(counter') THEN To(u, "refused") /\ UNCHANGED admitted
           ELSE To(u, "checked") /\ admitted' = admitted \cup {u}
  /\ UNCHANGED <<expiring, stored>>

\* EXPIRE: its error is not looked at.
SetExpiry(u, out) ==
  /\ upload[u] = "expire" /\ Trouble(out)
  /\ expiring' = (expiring \/ (Took(out) /\ counter > 0))
  /\ IF over(1) THEN To(u, "refused") /\ UNCHANGED admitted
     ELSE To(u, "checked") /\ admitted' = admitted \cup {u}
  /\ UNCHANGED <<counter, stored>>

\* An hour after EXPIRE.
HourIsOver ==
  /\ expiring /\ counter' = 0 /\ expiring' = FALSE /\ admitted' = {}
  /\ UNCHANGED <<upload, stored, troubles>>

-----------------------------------------------------------------------------
(* CreateSubmission *)

\* Mutated form of stepAfter: the job is sent before the row is there.
stepJobFirst(step) ==
  CASE step = "put" -> "produce" [] step = "produce" -> "insert" [] step = "insert" -> "accepted"

\* What follows a step that went well: the file, the row, the job.
stepAfter(step) ==
  CASE step = "put" -> "insert" [] step = "insert" -> "produce" [] step = "produce" -> "accepted"

\* STEP 1: the form, language, size, name and extension.  An upload refused
\* here has used up one of the contestant's.
Validate(u) ==
  /\ upload[u] = "checked"
  /\ \E step \in {"put", "invalid"} : To(u, step)
  /\ UNCHANGED <<limiter, stored, troubles>>

\* STEP 3
PutObject(u, out) ==
  /\ upload[u] = "put" /\ Trouble(out)
  /\ objects' = IF Took(out) THEN objects \cup {u} ELSE objects
  /\ Either(u, out, stepAfter("put"), "failed")
  /\ UNCHANGED <<limiter, submissions, jobs>>

\* STEP 4
Insert(u, out) ==
  /\ upload[u] = "insert" /\ Trouble(out)
  /\ submissions' = IF Took(out) THEN submissions \cup {u} ELSE submissions
  /\ Either(u, out, stepAfter("insert"), "failed")
  /\ UNCHANGED <<limiter, objects, jobs>>

\* STEPS 5 and 6: best effort, so an error is answered with 202 as well.
Produce(u, out) ==
  /\ upload[u] = "produce" /\ Trouble(out)
  /\ jobs' = IF Took(out) THEN jobs \cup {u} ELSE jobs
  /\ To(u, stepAfter("produce"))
  /\ UNCHANGED <<limiter, objects, submissions>>

Answered == {"refused", "invalid", "failed", "accepted", "cut"}

\* The API process dies, or the contestant hangs up.
CutOff(u) ==
  /\ upload[u] \notin {"new"} \cup Answered
  /\ troubles < MaxTroubles /\ troubles' = troubles + 1
  /\ To(u, "cut")
  /\ UNCHANGED <<limiter, stored>>

ApiNext ==
  \/ \E u \in Upload, out \in Outcomes :
       Incr(u, out) \/ SetExpiry(u, out) \/ PutObject(u, out) \/ Insert(u, out) \/ Produce(u, out)
  \/ \E u \in Upload : Validate(u) \/ CutOff(u)
  \/ HourIsOver

ApiSpec == ApiInit /\ [][ApiNext]_apiVars

-----------------------------------------------------------------------------
(* Properties *)

ApiTypeOK ==
  /\ upload \in [Upload -> {"new", "expire", "checked", "put", "insert", "produce"} \cup Answered]
  /\ counter \in Nat /\ expiring \in BOOLEAN
  /\ jobs \subseteq Upload /\ submissions \subseteq Upload /\ objects \subseteq Upload
  /\ admitted \subseteq Upload
  /\ troubles \in 0 .. MaxTroubles

\* Whatever fails and wherever a handler is cut off, a build job names a
\* submission that has its row, a row one whose file is stored, and so does
\* the answer 202 (submission.go:84-124).
JobHasItsParts ==
  /\ jobs \subseteq submissions /\ submissions \subseteq objects
  /\ \A u \in Upload : upload[u] = "accepted" => u \in submissions

\* Between the making of the counter and its expiry no more than Limit
\* uploads are let through, however their handlers interleave; only a failing
\* INCR lets others through (auth.go:46-57).
LimitHolds == Cardinality(admitted) <= Limit
=============================================================================
