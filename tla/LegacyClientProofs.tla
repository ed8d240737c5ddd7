------------------------- MODULE LegacyClientProofs -------------------------
(***************************************************************************)
(* What the submissions of LegacyClient keep for any number of programs,   *)
(* files, threads in the pool, jobs and failures.  A program that has      *)
(* created a job has it to itself until it is submitted; the inductive     *)
(* invariant says how far the directory of that job has come.              *)
(***************************************************************************)
EXTENDS LegacyClient, FiniteSetTheorems, TLAPS

(***************************************************************************)
(* The invariant.  `k' is a call, `r' the record of a job.                 *)
(***************************************************************************)
Pending == {"queued", "sending"}

Begun(r) == r.state \notin {"none", "CONFIGURING"}

Busy(k) == k.step \notin {"idle", "create"}

Owns(k) == k.step \in {"token", "upload", "abort", "submit"}

Uploads(k) == k.step \in {"upload", "abort"}

HandOK(k, r) ==
    /\ r.op = k.op
    /\ Owns(k) => r.state = "CONFIGURING"
    /\ k.step = "wait" => Begun(r)
    /\ k.step \in {"upload", "submit"} => r.token
    /\ k.step = "upload" =>
           \A f \in Files \ Needed(k.op) : r.up[f] \notin Pending
    /\ k.step = "abort" => \A f \in Files : r.up[f] # "queued"
    /\ k.step = "submit" => /\ \A f \in Needed(k.op) : r.up[f] = "sent"
                            /\ \A f \in Files : r.up[f] \notin Pending

InHand ==
    \A c \in Callers : Busy(call[c]) =>
        call[c].job \in Jobs /\ HandOK(call[c], jobs[call[c].job])

Fine(r) ==
    /\ Begun(r) => r.token /\ \A f \in Needed(r.op) : r.up[f] = "sent"
    /\ r.state # "CONFIGURING" => \A f \in Files : r.up[f] \notin Pending
    /\ r.state = "FINISHED" /\ r.op # "run" => r.answer \in Sets

AllFine == \A j \in Jobs : Fine(jobs[j])

Owned ==
    \A j \in Jobs : (\E f \in Files : jobs[j].up[f] \in Pending) =>
        \E c \in Callers : Uploads(call[c]) /\ call[c].job = j

OwnedByOne ==
    \A c, d \in Callers :
        Owns(call[c]) /\ Owns(call[d]) /\ call[c].job = call[d].job => c = d

Directories == InHand /\ AllFine /\ Owned /\ OwnedByOne

Numbered == \E n \in 0..MaxJobs : Created = 1..n

ServedOK ==
    /\ serving.step # "idle" =>
           serving.job \in Jobs /\ Begun(jobs[serving.job])
    /\ serving.step = "save" /\ jobs[serving.job].op \notin Caches \cup {"run"}
           => serving.value \in Sets

SubmissionInv == LegacyTypeOK /\ Directories /\ Numbered /\ ServedOK

-----------------------------------------------------------------------------
(***************************************************************************)
(* The ways a step may change calls and jobs.                              *)
(***************************************************************************)
Shape == call \in [Callers -> CallOK] /\ jobs \in [Jobs -> JobOK]

LEMMA CallAndJobMove ==
    ASSUME Shape, Directories,
           NEW c \in Callers, NEW k \in CallOK,
           NEW j \in Jobs, NEW r \in JobOK,
           call' = [call EXCEPT ![c] = k], jobs' = [jobs EXCEPT ![j] = r],
           Fine(r),
           Busy(k) => k.job = j /\ HandOK(k, r),
           \A d \in Callers \ {c} : Busy(call[d]) /\ call[d].job = j =>
               HandOK(call[d], r),
           Owns(k) => \A d \in Callers \ {c} :
               ~(Owns(call[d]) /\ call[d].job = j),
           Uploads(call[c]) => call[c].job = j,
           (\E f \in Files : r.up[f] \in Pending) =>
               \E d \in Callers : IF d = c THEN Uploads(k) /\ k.job = j
                                  ELSE Uploads(call[d]) /\ call[d].job = j
    PROVE  Shape' /\ Directories'
<1>1. Shape'
    BY DEF Shape
<1>2. /\ call'[c] = k /\ \A d \in Callers \ {c} : call'[d] = call[d]
      /\ jobs'[j] = r /\ \A i \in Jobs \ {j} : jobs'[i] = jobs[i]
    BY DEF Shape
<1>3. InHand'
    <2> SUFFICES ASSUME NEW d \in Callers, Busy(call'[d])
                 PROVE  /\ call'[d].job \in Jobs
                        /\ HandOK(call'[d], jobs'[call'[d].job])
        BY DEF InHand, Busy, HandOK, Owns, Begun
    <2>1. CASE d = c
        BY <1>2, <2>1
    <2>2. CASE d # c /\ call[d].job = j
        BY <1>2, <2>2
    <2>3. CASE d # c /\ call[d].job # j
        BY <1>2, <2>3 DEF Directories, InHand
    <2> QED
        BY <2>1, <2>2, <2>3
<1>4. AllFine'
    <2>1. \A i \in Jobs : Fine(jobs'[i])
        BY <1>2 DEF Directories, AllFine
    <2> QED
        BY <2>1 DEF AllFine, Fine, Begun
<1>5. Owned'
    <2> SUFFICES ASSUME NEW i \in Jobs, NEW f \in Files,
                        jobs'[i].up[f] \in Pending
                 PROVE  \E d \in Callers :
                            Uploads(call'[d]) /\ call'[d].job = i
        BY DEF Owned, Uploads, Pending
    <2>1. CASE i = j
        <3>1. PICK d \in Callers : IF d = c THEN Uploads(k) /\ k.job = j
                                   ELSE Uploads(call[d]) /\ call[d].job = j
            BY <1>2, <2>1
        <3> QED
            BY <1>2, <2>1, <3>1
    <2>2. CASE i # j
        <3>1. PICK d \in Callers : Uploads(call[d]) /\ call[d].job = i
            BY <1>2, <2>2 DEF Directories, Owned
        <3> QED
            BY <1>2, <2>2, <3>1
    <2> QED
        BY <2>1, <2>2
<1>6. OwnedByOne'
    <2> SUFFICES ASSUME NEW d \in Callers, NEW e \in Callers,
                        Owns(call'[d]), Owns(call'[e]),
                        call'[d].job = call'[e].job
                 PROVE  d = e
        BY DEF OwnedByOne, Owns
    <2>1. Owns(k) => Busy(k)
        BY DEF Owns, Busy
    <2> QED
        BY <1>2, <2>1 DEF Directories, OwnedByOne
<1> QED
    BY <1>1, <1>3, <1>4, <1>5, <1>6 DEF Directories

\* A step of a call that leaves the jobs alone.
LEMMA CallMoves ==
    ASSUME Shape, Directories,
           NEW c \in Callers, NEW k \in CallOK,
           call' = [call EXCEPT ![c] = k], jobs' = jobs,
           Busy(k) => k.job \in Jobs /\ HandOK(k, jobs[k.job]),
           Owns(k) => Owns(call[c]) /\ k.job = call[c].job,
           Uploads(call[c]) => \/ Uploads(k) /\ k.job = call[c].job
                               \/ \A f \in Files :
                                    jobs[call[c].job].up[f] \notin Pending
    PROVE  Shape' /\ Directories'
<1>1. Shape'
    BY DEF Shape
<1>2. call'[c] = k /\ \A d \in Callers \ {c} : call'[d] = call[d]
    BY DEF Shape
<1>3. InHand'
    <2> SUFFICES ASSUME NEW d \in Callers, Busy(call'[d])
                 PROVE  /\ call'[d].job \in Jobs
                        /\ HandOK(call'[d], jobs'[call'[d].job])
        BY DEF InHand, Busy, HandOK, Owns, Begun
    <2> QED
        BY <1>2 DEF Directories, InHand
<1>4. AllFine'
    BY DEF Directories, AllFine
<1>5. Owned'
    <2> SUFFICES ASSUME NEW i \in Jobs, NEW f \in Files,
                        jobs'[i].up[f] \in Pending
                 PROVE  \E d \in Callers :
                            Uploads(call'[d]) /\ call'[d].job = i
        BY DEF Owned, Uploads, Pending
    <2>1. PICK d \in Callers : Uploads(call[d]) /\ call[d].job = i
        BY DEF Directories, Owned
    <2> QED
        BY <1>2, <2>1
<1>6. OwnedByOne'
    <2> SUFFICES ASSUME NEW d \in Callers, NEW e \in Callers,
                        Owns(call'[d]), Owns(call'[e]),
                        call'[d].job = call'[e].job
                 PROVE  d = e
        BY DEF OwnedByOne, Owns
    <2> QED
        BY <1>2 DEF Directories, OwnedByOne
<1> QED
    BY <1>1, <1>3, <1>4, <1>5, <1>6 DEF Directories

\* A step of a job that leaves the calls alone.
LEMMA JobMoves ==
    ASSUME Shape, Directories,
           NEW j \in Jobs, NEW r \in JobOK,
           call' = call, jobs' = [jobs EXCEPT ![j] = r],
           Fine(r),
           \A d \in Callers : Busy(call[d]) /\ call[d].job = j =>
               HandOK(call[d], r),
           \A f \in Files : r.up[f] \in Pending => jobs[j].up[f] \in Pending
    PROVE  Shape' /\ Directories'
<1>1. Shape'
    BY DEF Shape
<1>2. jobs'[j] = r /\ \A i \in Jobs \ {j} : jobs'[i] = jobs[i]
    BY DEF Shape
<1>3. InHand'
    <2> SUFFICES ASSUME NEW d \in Callers, Busy(call'[d])
                 PROVE  /\ call'[d].job \in Jobs
                        /\ HandOK(call'[d], jobs'[call'[d].job])
        BY DEF InHand, Busy, HandOK, Owns, Begun
    <2> QED
        BY <1>2 DEF Directories, InHand
<1>4. AllFine'
    <2>1. \A i \in Jobs : Fine(jobs'[i])
        BY <1>2 DEF Directories, AllFine
    <2> QED
        BY <2>1 DEF AllFine, Fine, Begun
<1>5. Owned'
    <2> SUFFICES ASSUME NEW i \in Jobs, NEW f \in Files,
                        jobs'[i].up[f] \in Pending
                 PROVE  \E d \in Callers :
                            Uploads(call'[d]) /\ call'[d].job = i
        BY DEF Owned, Uploads, Pending
    <2>1. jobs[i].up[f] \in Pending
        BY <1>2
    <2> QED
        BY <2>1 DEF Directories, Owned
<1>6. OwnedByOne'
    BY DEF Directories, OwnedByOne
<1> QED
    BY <1>1, <1>3, <1>4, <1>5, <1>6 DEF Directories

-----------------------------------------------------------------------------
(***************************************************************************)
(* Every action is one of these moves.                                     *)
(***************************************************************************)
LEMMA BeginKeeps ==
    ASSUME SubmissionInv, NEW c \in Callers, NEW op \in Ops,
           NEW arg \in Sets \cup {None}, Begin(c, op, arg)
    PROVE  Shape' /\ Directories'
<1> DEFINE k == [op |-> op, arg |-> arg, job |-> 0, step |-> "create",
                 tick |-> now, default |-> current]
<1>1. k \in CallOK
    BY DEF SubmissionInv, LegacyTypeOK, CallOK
<1>2. call' = [call EXCEPT ![c] = k] /\ jobs' = jobs
    BY DEF Begin
<1>3. ~Busy(k) /\ ~Owns(k) /\ ~Uploads(call[c])
    BY DEF Begin, Idle, Busy, Owns, Uploads
<1>4. Shape /\ Directories
    BY DEF SubmissionInv, LegacyTypeOK, Shape
<1> HIDE DEF k
<1> QED
    BY <1>1, <1>2, <1>3, <1>4, CallMoves

\* A call is over, whatever its end; none of its uploads is under way.
LEMMA ReturnKeeps ==
    ASSUME SubmissionInv, NEW c \in Callers, Return(c), jobs' = jobs,
           Uploads(call[c]) =>
               \A f \in Files : jobs[call[c].job].up[f] \notin Pending
    PROVE  Shape' /\ Directories'
<1>1. Idle \in CallOK
    BY LegacyAssumption DEF CallOK, Idle
<1>2. ~Busy(Idle) /\ ~Owns(Idle)
    BY DEF Idle, Busy, Owns
<1>3. Shape /\ Directories
    BY DEF SubmissionInv, LegacyTypeOK, Shape
<1> QED
    BY <1>1, <1>2, <1>3, CallMoves DEF Return

\* A call that owns a job goes on with it.
LEMMA StepIsCall ==
    ASSUME Shape, NEW c \in Callers, NEW step,
           [call[c] EXCEPT !.step = step] \in CallOK, At(c, step)
    PROVE  call' = [call EXCEPT ![c] = [call[c] EXCEPT !.step = step]]
BY DEF Shape, At

LEMMA GatherKeeps ==
    ASSUME SubmissionInv, NEW c \in Callers, Gather(c)
    PROVE  Shape' /\ Directories'
<1> DEFINE k == [call[c] EXCEPT !.step = "submit"]
           r == jobs[call[c].job]
<1>1. Shape /\ Directories /\ call[c] \in CallOK
    BY DEF SubmissionInv, LegacyTypeOK, Shape
<1>2. k \in CallOK /\ k.step = "submit" /\ k.op = call[c].op
      /\ k.job = call[c].job
    BY <1>1 DEF CallOK
<1>3. call' = [call EXCEPT ![c] = k] /\ jobs' = jobs
    BY <1>1 DEF Gather, At, Shape
<1>4. call[c].job \in Jobs /\ HandOK(call[c], r)
    BY <1>1 DEF Gather, Directories, InHand, Busy
<1>5. \A f \in Needed(call[c].op) : f \in Files /\ r.up[f] = "sent"
    BY DEF Gather, In, Job, Needed
<1>6. HandOK(k, r) /\ \A f \in Files : r.up[f] \notin Pending
    BY <1>2, <1>4, <1>5 DEF HandOK, Gather, Owns, Pending
<1>7. Owns(call[c])
    BY DEF Gather, Owns
<1> HIDE DEF k
<1> QED
    BY <1>1, <1>2, <1>3, <1>4, <1>6, <1>7, CallMoves

\* Whoever owns a job has it to itself.
LEMMA OwnerIsAlone ==
    ASSUME SubmissionInv, NEW c \in Callers, Owns(call[c])
    PROVE  /\ call[c].job \in Jobs
           /\ HandOK(call[c], jobs[call[c].job])
           /\ jobs[call[c].job] \in JobOK /\ call[c] \in CallOK
           /\ \A d \in Callers \ {c} :
                ~(Busy(call[d]) /\ call[d].job = call[c].job)
<1>1. call[c].job \in Jobs /\ HandOK(call[c], jobs[call[c].job])
    BY DEF SubmissionInv, Directories, InHand, Busy, Owns
<1>2. jobs[call[c].job] \in JobOK /\ call[c] \in CallOK
    BY <1>1 DEF SubmissionInv, LegacyTypeOK
<1>3. ASSUME NEW d \in Callers \ {c}, Busy(call[d]),
             call[d].job = call[c].job
      PROVE  FALSE
    <2>1. ~Owns(call[d])
        BY <1>3 DEF SubmissionInv, Directories, OwnedByOne
    <2>2. call[d].step = "wait"
        BY <1>3, <2>1 DEF SubmissionInv, LegacyTypeOK, CallOK, Busy, Owns
    <2>3. Begun(jobs[call[c].job])
        BY <1>3, <2>2 DEF SubmissionInv, Directories, InHand, HandOK
    <2> QED
        BY <1>1, <2>3 DEF HandOK, Begun
<1> QED
    BY <1>1, <1>2, <1>3

LEMMA CreatedIsCounted ==
    ASSUME SubmissionInv
    PROVE  /\ Cardinality(Created) \in 0..MaxJobs
           /\ Created = 1..Cardinality(Created)
<1>1. PICK n \in 0..MaxJobs : Created = 1..n
    BY DEF SubmissionInv, Numbered
<1>2. Cardinality(1..n) = n
    BY <1>1, FS_Interval, LegacyAssumption
<1> QED
    BY <1>1, <1>2

LEMMA CreateJobKeeps ==
    ASSUME SubmissionInv, NEW c \in Callers, CreateJob(c)
    PROVE  Shape' /\ Directories' /\ Numbered'
<1>1. PICK j : j = Cardinality(Created) + 1
    OBVIOUS
<1>2. /\ j \in Jobs /\ jobs[j].state = "none" /\ Created = 1..(j - 1)
    <2>1. j \in Jobs /\ Created = 1..(j - 1) /\ j \notin 1..(j - 1)
        BY <1>1, CreatedIsCounted, LegacyAssumption DEF CreateJob, Jobs
    <2> QED
        BY <2>1 DEF Created
<1> DEFINE r == [NoJob EXCEPT !.state = "CONFIGURING", !.op = call[c].op,
                              !.arg = call[c].arg]
<1>3. Shape /\ Directories /\ call[c] \in CallOK
    BY DEF SubmissionInv, LegacyTypeOK, Shape
<1>4. /\ r \in JobOK /\ r.state = "CONFIGURING" /\ r.op = call[c].op
      /\ \A f \in Files : r.up[f] \notin Pending
    BY <1>3 DEF CallOK, JobOK, NoJob, Pending
<1>5. Fine(r)
    BY <1>4 DEF Fine, Begun
<1>6. \A d \in Callers : ~(Busy(call[d]) /\ call[d].job = j)
    <2> SUFFICES ASSUME NEW d \in Callers, Busy(call[d]), call[d].job = j
                 PROVE  FALSE
        OBVIOUS
    <2>1. HandOK(call[d], jobs[j]) /\ call[d] \in CallOK
        BY <1>3 DEF Directories, InHand, Shape
    <2> QED
        BY <1>2, <2>1 DEF HandOK, Begun, Busy, Owns, CallOK
<1>7. \A d \in Callers : ~(Owns(call[d]) /\ call[d].job = j)
    BY <1>6 DEF Owns, Busy
<1>8. ~Uploads(call[c])
    BY DEF CreateJob, Uploads
<1>9. jobs' = [jobs EXCEPT ![j] = r]
    BY <1>1 DEF CreateJob
<1>10. Numbered'
    <2>1. Created' = Created \cup {j}
        BY <1>2, <1>3, <1>4, <1>9 DEF Created, Shape
    <2>2. Created' = 1..j /\ j \in 0..MaxJobs
        BY <1>2, <2>1, LegacyAssumption DEF Jobs
    <2> QED
        BY <2>2 DEF Numbered
<1>11. CASE call' = [call EXCEPT ![c].step = "token", ![c].job = j]
    <2> DEFINE k == [call[c] EXCEPT !.step = "token", !.job = j]
    <2>1. call' = [call EXCEPT ![c] = k]
        BY <1>11
    <2>2. k \in CallOK /\ k.job = j /\ k.step = "token" /\ k.op = call[c].op
        BY <1>2, <1>3 DEF CallOK
    <2>3. HandOK(k, r)
        BY <1>4, <2>2 DEF HandOK, Owns
    <2> HIDE DEF k, r
    <2>4. /\ Busy(k) => k.job = j /\ HandOK(k, r)
          /\ \A d \in Callers \ {c} : Busy(call[d]) /\ call[d].job = j =>
                 HandOK(call[d], r)
          /\ Owns(k) => \A d \in Callers \ {c} :
                 ~(Owns(call[d]) /\ call[d].job = j)
          /\ Uploads(call[c]) => call[c].job = j
        BY <1>6, <1>7, <1>8, <2>2, <2>3
    <2>5. (\E f \in Files : r.up[f] \in Pending) =>
               \E d \in Callers : IF d = c THEN Uploads(k) /\ k.job = j
                                  ELSE Uploads(call[d]) /\ call[d].job = j
        BY <1>4
    <2>6. Shape' /\ Directories'
        BY <1>2, <1>3, <1>4, <1>5, <1>9, <2>1, <2>2, <2>4, <2>5,
           CallAndJobMove
    <2> QED
        BY <2>6, <1>10
<1>12. CASE Return(c)
    <2>1. Idle \in CallOK /\ ~Busy(Idle) /\ ~Owns(Idle)
        BY LegacyAssumption DEF CallOK, Idle, Busy, Owns
    <2>2. call' = [call EXCEPT ![c] = Idle]
        BY <1>12 DEF Return
    <2> HIDE DEF r
    <2>3. Shape' /\ Directories'
        BY <1>2, <1>3, <1>4, <1>5, <1>6, <1>8, <1>9, <2>1, <2>2,
           CallAndJobMove
    <2> QED
        BY <2>3, <1>10
<1> QED
    BY <1>1, <1>11, <1>12 DEF CreateJob

LEMMA UploadTokenKeeps ==
    ASSUME SubmissionInv, NEW c \in Callers, UploadToken(c)
    PROVE  Shape' /\ Directories'
<1>1. Owns(call[c]) /\ ~Uploads(call[c])
    BY DEF UploadToken, Owns, Uploads
<1>2. PICK j \in Jobs : j = call[c].job
    BY <1>1, OwnerIsAlone
<1> DEFINE needed == Needed(call[c].op)
           r == [jobs[j] EXCEPT !.token = TRUE,
                                !.up = [f \in Files |-> IF f \in needed
                                                        THEN "queued"
                                                        ELSE "none"]]
           k == [call[c] EXCEPT !.step = "upload"]
<1>3. Shape /\ Directories
    BY DEF SubmissionInv, LegacyTypeOK, Shape
<1>4. /\ HandOK(call[c], jobs[j])
      /\ jobs[j] \in JobOK /\ call[c] \in CallOK
      /\ \A d \in Callers \ {c} : ~(Busy(call[d]) /\ call[d].job = j)
      /\ \A d \in Callers \ {c} : ~(Owns(call[d]) /\ call[d].job = j)
    BY <1>1, <1>2, OwnerIsAlone DEF Busy, Owns
<1>5. /\ r \in JobOK /\ r.token /\ r.op = jobs[j].op
      /\ r.state = jobs[j].state
      /\ \A f \in Files : r.up[f] = IF f \in needed THEN "queued"
                                                    ELSE "none"
    BY <1>4 DEF JobOK
<1>6. k \in CallOK /\ k.step = "upload" /\ k.op = call[c].op /\ k.job = j
    BY <1>2, <1>4 DEF CallOK
<1>7. HandOK(k, r)
    BY <1>1, <1>4, <1>5, <1>6 DEF HandOK, Owns, Pending
<1>8. Fine(r)
    BY <1>1, <1>4, <1>5 DEF HandOK, Fine, Begun
<1>9. jobs' = [jobs EXCEPT ![j] = r] /\ call' = [call EXCEPT ![c] = k]
    BY <1>2, <1>3 DEF UploadToken, At, Shape
<1>10. Uploads(k)
    BY <1>6 DEF Uploads
<1> HIDE DEF k, r, needed
<1>11. /\ Busy(k) => k.job = j /\ HandOK(k, r)
       /\ \A d \in Callers \ {c} : Busy(call[d]) /\ call[d].job = j =>
              HandOK(call[d], r)
       /\ Owns(k) => \A d \in Callers \ {c} :
              ~(Owns(call[d]) /\ call[d].job = j)
       /\ Uploads(call[c]) => call[c].job = j
    BY <1>2, <1>4, <1>6, <1>7
<1>12. (\E f \in Files : r.up[f] \in Pending) =>
            \E d \in Callers : IF d = c THEN Uploads(k) /\ k.job = j
                               ELSE Uploads(call[d]) /\ call[d].job = j
    BY <1>6, <1>10
<1>13. r \in JobOK /\ k \in CallOK
    BY <1>5, <1>6
<1> QED
    BY <1>3, <1>8, <1>9, <1>11, <1>12, <1>13, CallAndJobMove

LEMMA StartUploadKeeps ==
    ASSUME SubmissionInv, NEW c \in Callers, NEW f \in Files,
           StartUpload(c, f)
    PROVE  Shape' /\ Directories'
<1>1. Owns(call[c])
    BY DEF StartUpload, Uploading, Owns
<1>2. PICK j \in Jobs : j = call[c].job
    BY <1>1, OwnerIsAlone
<1> DEFINE r == [jobs[j] EXCEPT !.up = [jobs[j].up EXCEPT ![f] = "sending"]]
<1>3. Shape /\ Directories
    BY DEF SubmissionInv, LegacyTypeOK, Shape
<1>4. /\ HandOK(call[c], jobs[j])
      /\ jobs[j] \in JobOK /\ call[c] \in CallOK
      /\ \A d \in Callers \ {c} : ~(Busy(call[d]) /\ call[d].job = j)
    BY <1>1, <1>2, OwnerIsAlone
<1>5. /\ r \in JobOK /\ r.token = jobs[j].token /\ r.op = jobs[j].op
      /\ r.state = jobs[j].state
      /\ \A g \in Files : r.up[g] = IF g = f THEN "sending"
                                             ELSE jobs[j].up[g]
    BY <1>4 DEF JobOK
<1>6. /\ call[c].step \in {"upload", "abort"} /\ jobs[j].up[f] = "queued"
      /\ jobs' = [jobs EXCEPT ![j] = r] /\ call' = call
    BY <1>2 DEF StartUpload, Uploading, In, Job, Mark, clients
<1>7. HandOK(call[c], r)
    BY <1>4, <1>5, <1>6 DEF HandOK, Owns, Pending
<1>8. Fine(r)
    BY <1>1, <1>4, <1>5 DEF HandOK, Fine, Begun
<1>9. \A g \in Files : r.up[g] \in Pending => jobs[j].up[g] \in Pending
    BY <1>5, <1>6 DEF Pending
<1> HIDE DEF r
<1> QED
    BY <1>3, <1>4, <1>5, <1>6, <1>7, <1>8, <1>9, JobMoves

LEMMA EndUploadKeeps ==
    ASSUME SubmissionInv, NEW j \in Jobs, NEW f \in Files, EndUpload(j, f)
    PROVE  Shape' /\ Directories'
<1>1. PICK stage \in {"sent", "failed"} : Mark(j, f, stage)
    BY DEF EndUpload
<1>2. jobs[j].up[f] = "sending" /\ call' = call
    BY DEF EndUpload, clients
<1>3. PICK c \in Callers : Uploads(call[c]) /\ call[c].job = j
    BY <1>2 DEF SubmissionInv, Directories, Owned, Pending
<1>4. Owns(call[c]) /\ call[c].step \in {"upload", "abort"}
    BY <1>3 DEF Uploads, Owns
<1> DEFINE r == [jobs[j] EXCEPT !.up = [jobs[j].up EXCEPT ![f] = stage]]
<1>5. Shape /\ Directories
    BY DEF SubmissionInv, LegacyTypeOK, Shape
<1>6. /\ HandOK(call[c], jobs[j])
      /\ jobs[j] \in JobOK
      /\ \A d \in Callers \ {c} : ~(Busy(call[d]) /\ call[d].job = j)
    BY <1>3, <1>4, OwnerIsAlone
<1>7. /\ r \in JobOK /\ r.token = jobs[j].token /\ r.op = jobs[j].op
      /\ r.state = jobs[j].state
      /\ \A g \in Files : r.up[g] = IF g = f THEN stage ELSE jobs[j].up[g]
    BY <1>6 DEF JobOK
<1>8. jobs' = [jobs EXCEPT ![j] = r]
    BY <1>1 DEF Mark
<1>9. HandOK(call[c], r)
    BY <1>4, <1>6, <1>7 DEF HandOK, Owns, Pending
<1>10. Fine(r)
    BY <1>4, <1>6, <1>7 DEF HandOK, Fine, Begun
<1>11. \A g \in Files : r.up[g] \in Pending => jobs[j].up[g] \in Pending
    BY <1>7 DEF Pending
<1> HIDE DEF r
<1>12. \A d \in Callers : Busy(call[d]) /\ call[d].job = j =>
           HandOK(call[d], r)
    BY <1>6, <1>9
<1> QED
    BY <1>2, <1>5, <1>7, <1>8, <1>10, <1>11, <1>12, JobMoves

LEMMA CancelKeeps ==
    ASSUME SubmissionInv, NEW c \in Callers, Cancel(c)
    PROVE  Shape' /\ Directories'
<1>1. Owns(call[c]) /\ Uploads(call[c]) /\ call[c].step = "upload"
    BY DEF Cancel, Owns, Uploads
<1>2. PICK j \in Jobs : j = call[c].job
    BY <1>1, OwnerIsAlone
<1> DEFINE r == [jobs[j] EXCEPT !.up = [f \in Files |->
                     IF jobs[j].up[f] = "queued" THEN "cancelled"
                                                 ELSE jobs[j].up[f]]]
           k == [call[c] EXCEPT !.step = "abort"]
<1>3. Shape /\ Directories
    BY DEF SubmissionInv, LegacyTypeOK, Shape
<1>4. /\ HandOK(call[c], jobs[j])
      /\ jobs[j] \in JobOK /\ call[c] \in CallOK
      /\ \A d \in Callers \ {c} : ~(Busy(call[d]) /\ call[d].job = j)
      /\ \A d \in Callers \ {c} : ~(Owns(call[d]) /\ call[d].job = j)
    BY <1>1, <1>2, OwnerIsAlone DEF Busy, Owns
<1>5. /\ r \in JobOK /\ r.token = jobs[j].token /\ r.op = jobs[j].op
      /\ r.state = jobs[j].state
      /\ \A f \in Files : r.up[f] # "queued"
    BY <1>4 DEF JobOK
<1>6. k \in CallOK /\ k.step = "abort" /\ k.op = call[c].op /\ k.job = j
    BY <1>2, <1>4 DEF CallOK
<1>7. HandOK(k, r)
    BY <1>1, <1>4, <1>5, <1>6 DEF HandOK, Owns
<1>8. Fine(r)
    BY <1>1, <1>4, <1>5 DEF HandOK, Fine, Begun
<1>9. jobs' = [jobs EXCEPT ![j] = r] /\ call' = [call EXCEPT ![c] = k]
    <2>1. /\ jobs' = [jobs EXCEPT ![j].up =
                [f \in Files |-> IF f \in In(c, "queued")
                                 THEN "cancelled" ELSE jobs[j].up[f]]]
          /\ \A f \in Files : f \in In(c, "queued") <=>
                jobs[j].up[f] = "queued"
        BY <1>2, <1>3 DEF Cancel, In, Job, Shape
    <2>2. [f \in Files |-> IF f \in In(c, "queued") THEN "cancelled"
                                                    ELSE jobs[j].up[f]]
          = [f \in Files |-> IF jobs[j].up[f] = "queued" THEN "cancelled"
                                                    ELSE jobs[j].up[f]]
        BY <2>1
    <2> QED
        BY <1>3, <2>1, <2>2 DEF Cancel, At, Shape
<1>10. Uploads(k)
    BY <1>6 DEF Uploads
<1> HIDE DEF k, r
<1>11. /\ Busy(k) => k.job = j /\ HandOK(k, r)
       /\ \A d \in Callers \ {c} : Busy(call[d]) /\ call[d].job = j =>
              HandOK(call[d], r)
       /\ Owns(k) => \A d \in Callers \ {c} :
              ~(Owns(call[d]) /\ call[d].job = j)
       /\ Uploads(call[c]) => call[c].job = j
    BY <1>2, <1>4, <1>6, <1>7
<1>12. (\E f \in Files : r.up[f] \in Pending) =>
            \E d \in Callers : IF d = c THEN Uploads(k) /\ k.job = j
                               ELSE Uploads(call[d]) /\ call[d].job = j
    BY <1>6, <1>10
<1>13. r \in JobOK /\ k \in CallOK
    BY <1>5, <1>6
<1> QED
    BY <1>3, <1>8, <1>9, <1>11, <1>12, <1>13, CallAndJobMove

LEMMA SubmitJobKeeps ==
    ASSUME SubmissionInv, NEW c \in Callers, SubmitJob(c)
    PROVE  Shape' /\ Directories'
<1>1. Owns(call[c]) /\ ~Uploads(call[c]) /\ call[c].step = "submit"
    BY DEF SubmitJob, Owns, Uploads
<1>2. PICK j \in Jobs : j = call[c].job
    BY <1>1, OwnerIsAlone
<1> DEFINE r == [jobs[j] EXCEPT !.state = "QUEUED"]
           w == [call[c] EXCEPT !.step = "wait"]
<1>3. Shape /\ Directories
    BY DEF SubmissionInv, LegacyTypeOK, Shape
<1>4. /\ HandOK(call[c], jobs[j])
      /\ jobs[j] \in JobOK /\ call[c] \in CallOK
      /\ \A d \in Callers \ {c} : ~(Busy(call[d]) /\ call[d].job = j)
    BY <1>1, <1>2, OwnerIsAlone
<1>5. /\ r \in JobOK /\ r.token = jobs[j].token /\ r.op = jobs[j].op
      /\ r.state = "QUEUED" /\ r.up = jobs[j].up
    BY <1>4 DEF JobOK
<1>6. /\ w \in CallOK /\ w.step = "wait" /\ w.op = call[c].op /\ w.job = j
      /\ Idle \in CallOK
    BY <1>2, <1>4, LegacyAssumption DEF CallOK, Idle
<1>7. HandOK(w, r) /\ ~Owns(w)
    BY <1>4, <1>5, <1>6 DEF HandOK, Owns, Begun
<1>8. Fine(r)
    BY <1>1, <1>4, <1>5 DEF HandOK, Fine, Begun
<1>9. jobs' = [jobs EXCEPT ![j] = r]
    BY <1>2, <1>3 DEF SubmitJob
<1>10. PICK k \in CallOK :
            k \in {w, Idle} /\ call' = [call EXCEPT ![c] = k]
    BY <1>3, <1>6 DEF SubmitJob, At, Return, Shape
<1>11. /\ Busy(k) => k.job = j /\ HandOK(k, r)
       /\ \A d \in Callers \ {c} : Busy(call[d]) /\ call[d].job = j =>
              HandOK(call[d], r)
       /\ Owns(k) => \A d \in Callers \ {c} :
              ~(Owns(call[d]) /\ call[d].job = j)
       /\ Uploads(call[c]) => call[c].job = j
    <2>1. ~Busy(Idle) /\ ~Owns(Idle)
        BY DEF Busy, Idle, Owns
    <2> HIDE DEF r, w
    <2> QED
        BY <1>1, <1>4, <1>6, <1>7, <1>10, <2>1
<1>12. (\E f \in Files : r.up[f] \in Pending) =>
            \E d \in Callers : IF d = c THEN Uploads(k) /\ k.job = j
                               ELSE Uploads(call[d]) /\ call[d].job = j
    BY <1>1, <1>4, <1>5 DEF HandOK
<1>13. r \in JobOK /\ call' = [call EXCEPT ![c] = k]
    BY <1>5, <1>10
<1> HIDE DEF r, w
<1> QED
    BY <1>3, <1>8, <1>9, <1>11, <1>12, <1>13, CallAndJobMove

\* A job that HEAppE has begun moves on without its client.
LEMMA BegunMoves ==
    ASSUME SubmissionInv, NEW j \in Jobs, Begun(jobs[j]),
           NEW state \in {"RUNNING", "FINISHED", "FAILED"},
           NEW answer \in Sets \cup {0},
           state = "FINISHED" /\ jobs[j].op # "run" => answer \in Sets,
           call' = call,
           jobs' = [jobs EXCEPT ![j] = [jobs[j] EXCEPT !.state = state,
                                                       !.answer = answer]]
    PROVE  Shape' /\ Directories'
<1> DEFINE r == [jobs[j] EXCEPT !.state = state, !.answer = answer]
<1>1. Shape /\ Directories /\ jobs[j] \in JobOK /\ Fine(jobs[j])
    BY DEF SubmissionInv, LegacyTypeOK, Shape, Directories, AllFine
<1>2. /\ r \in JobOK /\ r.token = jobs[j].token /\ r.op = jobs[j].op
      /\ r.state = state /\ r.up = jobs[j].up /\ r.answer = answer
    BY <1>1 DEF JobOK
<1>3. Fine(r)
    BY <1>1, <1>2 DEF Fine, Begun
<1>4. \A d \in Callers : Busy(call[d]) /\ call[d].job = j =>
          HandOK(call[d], r)
    BY <1>1, <1>2 DEF Directories, InHand, HandOK, Begun
<1>5. \A f \in Files : r.up[f] \in Pending => jobs[j].up[f] \in Pending
    BY <1>2
<1>6. jobs' = [jobs EXCEPT ![j] = r]
    OBVIOUS
<1> HIDE DEF r
<1> QED
    BY <1>1, <1>2, <1>3, <1>4, <1>5, <1>6, JobMoves

LEMMA HEAppEKeeps ==
    ASSUME SubmissionInv, NEW j \in Jobs, StartJob(j) \/ Kill(j)
    PROVE  Shape' /\ Directories'
<1>1. PICK state \in {"RUNNING", "FAILED"} :
          jobs' = [jobs EXCEPT ![j].state = state]
    BY DEF StartJob, Kill
<1>2. Begun(jobs[j]) /\ call' = call
    BY DEF StartJob, Kill, Begun, clients
<1>3. jobs \in [Jobs -> JobOK]
    BY DEF SubmissionInv, LegacyTypeOK
<1>4. /\ jobs[j].answer \in Sets \cup {0}
      /\ [jobs[j] EXCEPT !.state = state]
            = [jobs[j] EXCEPT !.state = state, !.answer = jobs[j].answer]
    BY <1>3 DEF JobOK
<1>5. jobs' = [jobs EXCEPT ![j] = [jobs[j] EXCEPT !.state = state,
                                       !.answer = jobs[j].answer]]
    BY <1>1, <1>4
<1> QED
    BY <1>2, <1>4, <1>5, BegunMoves

LEMMA ConcludeKeeps ==
    ASSUME SubmissionInv, serving.step # "idle",
           NEW state \in {"FINISHED", "FAILED"},
           NEW answer \in Sets \cup {0}, Conclude(state, answer),
           state = "FINISHED" /\ Served.op # "run" => answer \in Sets,
           call' = call
    PROVE  Shape' /\ Directories'
<1>1. PICK j \in Jobs : j = serving.job /\ Begun(jobs[j])
    BY DEF SubmissionInv, ServedOK
<1>2. jobs \in [Jobs -> JobOK]
    BY DEF SubmissionInv, LegacyTypeOK
<1>3. CASE jobs[j].state = "RUNNING"
    <2>1. jobs' = [jobs EXCEPT ![j] = [jobs[j] EXCEPT !.state = state,
                                                      !.answer = answer]]
        BY <1>1, <1>3 DEF Conclude, Served
    <2>2. state = "FINISHED" /\ jobs[j].op # "run" => answer \in Sets
        BY <1>1 DEF Served
    <2> QED
        BY <1>1, <2>1, <2>2, BegunMoves
<1>4. CASE jobs[j].state # "RUNNING"
    <2>1. jobs' = jobs
        BY <1>1, <1>2, <1>4 DEF Conclude, Served
    <2> QED
        BY <2>1 DEF SubmissionInv, LegacyTypeOK, Shape, Directories, InHand,
           AllFine, Owned, OwnedByOne
<1> QED
    BY <1>3, <1>4

-----------------------------------------------------------------------------
(***************************************************************************)
(* Every step, then the rest of the invariant.                             *)
(***************************************************************************)
LEMMA StartKeeps ==
    ASSUME SubmissionInv, NEW c \in Callers, Start(c)
    PROVE  Shape' /\ Directories'
<1>1. CASE Login(c) \/ Close(c)
    <2>1. call' = call /\ jobs' = jobs
        BY <1>1 DEF Login, Close
    <2> QED
        BY <2>1 DEF SubmissionInv, LegacyTypeOK, Shape, Directories, InHand,
           AllFine, Owned, OwnedByOne
<1>2. CASE \E op \in Ops : \E arg \in Sets \cup {None} : Begin(c, op, arg)
    BY <1>2, BeginKeeps
<1>3. CASE RunCircuits(c) \/ InitBackend(c) \/ GetPulla(c)
    BY <1>2, <1>3 DEF RunCircuits, InitBackend, GetPulla, Ops
<1>4. CASE \E id \in Sets \cup {None} :
            GetCalibrationSet(c, id) \/ GetDynamicArchitecture(c, id)
    BY <1>2, <1>4 DEF GetCalibrationSet, GetDynamicArchitecture, Ops
<1> QED
    BY <1>1, <1>3, <1>4 DEF Start

LEMMA StepKeeps ==
    ASSUME SubmissionInv, NEW c \in Callers, Step(c)
    PROVE  Shape' /\ Directories'
<1>1. CASE \/ FailToCreate(c) \/ FailToUploadToken(c) \/ FailRequest(c)
           \/ Answer(c) \/ ResultsFailed(c)
    <2>1. Return(c) /\ jobs' = jobs /\ ~Uploads(call[c])
        BY <1>1 DEF FailToCreate, FailToUploadToken, FailRequest, Answer,
           ResultsFailed, Uploads
    <2> QED
        BY <2>1, ReturnKeeps
<1>2. CASE Raise(c)
    <2>1. Return(c) /\ jobs' = jobs /\ Owns(call[c])
        BY <1>2 DEF Raise, Owns
    <2>2. HandOK(call[c], jobs[call[c].job])
        BY <2>1, OwnerIsAlone
    <2>3. \A f \in Files : jobs[call[c].job].up[f] \notin Pending
        BY <1>2, <2>2 DEF Raise, In, Job, HandOK, Pending
    <2> QED
        BY <2>1, <2>3, ReturnKeeps
<1>3. CASE \E f \in Files : StartUpload(c, f)
    BY <1>3, StartUploadKeeps
<1>4. CASE CreateJob(c)
    BY <1>4, CreateJobKeeps
<1>5. CASE UploadToken(c)
    BY <1>5, UploadTokenKeeps
<1>6. CASE Gather(c)
    BY <1>6, GatherKeeps
<1>7. CASE Cancel(c)
    BY <1>7, CancelKeeps
<1>8. CASE SubmitJob(c)
    BY <1>8, SubmitJobKeeps
<1> QED
    BY <1>1, <1>2, <1>3, <1>4, <1>5, <1>6, <1>7, <1>8 DEF Step

\* What the service answers from its caches, or from the IQM server, is a set.
LEMMA SaveKeeps ==
    ASSUME SubmissionInv, Save
    PROVE  Shape' /\ Directories'
<1>1. call' = call /\ serving.step # "idle"
    BY DEF Save, clients
<1>2. CASE Served.op \notin Caches
    <2>1. Conclude("FINISHED", serving.value)
        BY <1>2 DEF Save
    <2>2. serving.value \in Sets \cup {0}
        BY DEF SubmissionInv, LegacyTypeOK
    <2>3. Served.op # "run" => serving.value \in Sets
        BY <1>2 DEF SubmissionInv, ServedOK, Save, Served
    <2> QED
        BY <1>1, <2>1, <2>2, <2>3, ConcludeKeeps
<1>3. CASE Served.op \in Caches /\ Live(Served.op, StoreKey(Served.arg))
    <2>1. Conclude("FINISHED", store[Served.op][StoreKey(Served.arg)].set)
        BY <1>3 DEF Save
    <2>2. store[Served.op][StoreKey(Served.arg)].set \in Sets
        BY <1>3 DEF SubmissionInv, LegacyTypeOK, Live
    <2> QED
        BY <1>1, <2>1, <2>2, ConcludeKeeps
<1>4. CASE Served.op \in Caches /\ ~Live(Served.op, StoreKey(Served.arg))
    <2>1. Conclude("FAILED", 0)
        BY <1>4 DEF Save
    <2> QED
        BY <1>1, <2>1, ConcludeKeeps
<1> QED
    BY <1>2, <1>3, <1>4

LEMMA DirectoriesAreKept ==
    ASSUME SubmissionInv, Next
    PROVE  Shape' /\ Directories'
<1>1. CASE \E c \in Callers : Start(c) \/ Step(c)
    BY <1>1, StartKeeps, StepKeeps
<1>2. CASE \E j \in Jobs : Pool(j) \/ HEAppE(j)
    BY <1>2, EndUploadKeeps, HEAppEKeeps DEF Pool, HEAppE
<1>3. CASE FailToFetch
    <2>1. Conclude("FAILED", 0) /\ call' = call /\ serving.step # "idle"
        BY <1>3 DEF FailToFetch, clients
    <2> QED
        BY <2>1, ConcludeKeeps
<1>4. CASE Save
    BY <1>4, SaveKeeps
<1>5. CASE (\E j \in Jobs : TakeJob(j)) \/ LookUp \/ Fetch \/ Recalibrate
           \/ Tick
    <2>1. call' = call /\ jobs' = jobs
        BY <1>5 DEF TakeJob, LookUp, Fetch, Recalibrate, Tick, clients
    <2> QED
        BY <2>1 DEF SubmissionInv, LegacyTypeOK, Shape, Directories, InHand,
           AllFine, Owned, OwnedByOne
<1> QED
    BY <1>1, <1>2, <1>3, <1>4, <1>5 DEF Next, Service

\* How the record of a job may change once the job is there.
Stays(r, q) ==
    /\ q.state = "none" <=> r.state = "none"
    /\ Begun(r) => Begun(q) /\ q.op = r.op
    /\ r.state # "none" => q.arg = r.arg

LEMMA JobStays ==
    ASSUME Shape, NEW i \in Jobs, NEW r, Stays(jobs[i], r),
           jobs' = [jobs EXCEPT ![i] = r]
    PROVE  \A j \in Jobs : Stays(jobs[j], jobs'[j])
BY DEF Shape, Stays, Begun

LEMMA ConcludedJobStays ==
    ASSUME SubmissionInv, NEW state \in {"FINISHED", "FAILED"}, NEW answer,
           serving.step # "idle", Conclude(state, answer)
    PROVE  \A j \in Jobs : Stays(jobs[j], jobs'[j])
<1>1. PICK i \in Jobs : i = serving.job
    BY DEF SubmissionInv, ServedOK
<1>2. Shape
    BY DEF SubmissionInv, LegacyTypeOK, Shape
<1> DEFINE r == IF jobs[i].state = "RUNNING"
                THEN [jobs[i] EXCEPT !.state = state, !.answer = answer]
                ELSE jobs[i]
<1>3. jobs' = [jobs EXCEPT ![i] = r]
    BY <1>1 DEF Conclude, Served
<1>4. Stays(jobs[i], r)
    BY <1>2 DEF Shape, JobOK, Stays, Begun
<1> HIDE DEF r
<1> QED
    BY <1>2, <1>3, <1>4, JobStays

LEMMA JobsStay ==
    ASSUME SubmissionInv, Next, ~\E c \in Callers : CreateJob(c)
    PROVE  \A j \in Jobs : Stays(jobs[j], jobs'[j])
<1>1. Shape
    BY DEF SubmissionInv, LegacyTypeOK, Shape
<1>2. ASSUME NEW c \in Callers, Owns(call[c]), NEW r,
             r.state \in {"CONFIGURING", "QUEUED"},
             r.arg = jobs[call[c].job].arg
      PROVE  call[c].job \in Jobs /\ Stays(jobs[call[c].job], r)
    <2>1. call[c].job \in Jobs /\ jobs[call[c].job].state = "CONFIGURING"
        BY <1>2, OwnerIsAlone DEF HandOK
    <2> QED
        BY <1>2, <2>1 DEF Begun, Stays
<1>3. ASSUME NEW c \in Callers, Owns(call[c])
      PROVE  /\ call[c].job \in Jobs /\ jobs[call[c].job] \in JobOK
             /\ jobs[call[c].job].state = "CONFIGURING"
    BY <1>3, OwnerIsAlone DEF HandOK
<1>4. CASE jobs' = jobs
    BY <1>4 DEF Stays
<1>5. CASE \E c \in Callers : UploadToken(c)
    <2>1. PICK c \in Callers : UploadToken(c)
        BY <1>5
    <2>2. Owns(call[c])
        BY <2>1 DEF UploadToken, Owns
    <2> DEFINE r == [jobs[call[c].job] EXCEPT !.token = TRUE,
                         !.up = [f \in Files |->
                             IF f \in Needed(call[c].op)
                             THEN "queued" ELSE "none"]]
    <2>3. jobs' = [jobs EXCEPT ![call[c].job] = r]
        BY <1>1, <1>3, <2>1, <2>2 DEF UploadToken, Shape
    <2>4. r.state = "CONFIGURING" /\ r.arg = jobs[call[c].job].arg
        BY <1>3, <2>2 DEF JobOK
    <2> HIDE DEF r
    <2>5. call[c].job \in Jobs /\ Stays(jobs[call[c].job], r)
        BY <1>2, <2>2, <2>4
    <2> QED
        BY <1>1, <2>3, <2>5, JobStays
<1>6. CASE \E c \in Callers : \E f \in Files : StartUpload(c, f)
    <2>1. PICK c \in Callers, f \in Files : StartUpload(c, f)
        BY <1>6
    <2>2. Owns(call[c])
        BY <2>1 DEF StartUpload, Uploading, Owns
    <2> DEFINE r == [jobs[call[c].job] EXCEPT !.up =
                         [jobs[call[c].job].up EXCEPT ![f] = "sending"]]
    <2>3. jobs' = [jobs EXCEPT ![call[c].job] = r]
        BY <2>1 DEF StartUpload, Mark
    <2>4. r.state = "CONFIGURING" /\ r.arg = jobs[call[c].job].arg
        BY <1>3, <2>2 DEF JobOK
    <2> HIDE DEF r
    <2>5. call[c].job \in Jobs /\ Stays(jobs[call[c].job], r)
        BY <1>2, <2>2, <2>4
    <2> QED
        BY <1>1, <2>3, <2>5, JobStays
<1>7. CASE \E c \in Callers : Cancel(c)
    <2>1. PICK c \in Callers : Cancel(c)
        BY <1>7
    <2>2. Owns(call[c])
        BY <2>1 DEF Cancel, Owns
    <2> DEFINE r == [jobs[call[c].job] EXCEPT !.up =
                         [f \in Files |-> IF f \in In(c, "queued")
                                          THEN "cancelled"
                                          ELSE jobs[call[c].job].up[f]]]
    <2>3. jobs' = [jobs EXCEPT ![call[c].job] = r]
        BY <2>1 DEF Cancel
    <2>4. r.state = "CONFIGURING" /\ r.arg = jobs[call[c].job].arg
        BY <1>3, <2>2 DEF JobOK
    <2> HIDE DEF r
    <2>5. call[c].job \in Jobs /\ Stays(jobs[call[c].job], r)
        BY <1>2, <2>2, <2>4
    <2> QED
        BY <1>1, <2>3, <2>5, JobStays
<1>8. CASE \E c \in Callers : SubmitJob(c)
    <2>1. PICK c \in Callers : SubmitJob(c)
        BY <1>8
    <2>2. Owns(call[c])
        BY <2>1 DEF SubmitJob, Owns
    <2> DEFINE r == [jobs[call[c].job] EXCEPT !.state = "QUEUED"]
    <2>3. jobs' = [jobs EXCEPT ![call[c].job] = r]
        BY <2>1 DEF SubmitJob
    <2>4. r.state = "QUEUED" /\ r.arg = jobs[call[c].job].arg
        BY <1>3, <2>2 DEF JobOK
    <2> HIDE DEF r
    <2>5. call[c].job \in Jobs /\ Stays(jobs[call[c].job], r)
        BY <1>2, <2>2, <2>4
    <2> QED
        BY <1>1, <2>3, <2>5, JobStays
<1>9. CASE \E j \in Jobs : Pool(j)
    <2>1. PICK j \in Jobs, f \in Files, stage \in {"sent", "failed"} :
              Mark(j, f, stage)
        BY <1>9 DEF Pool, EndUpload
    <2> DEFINE r == [jobs[j] EXCEPT !.up = [jobs[j].up EXCEPT ![f] = stage]]
    <2>2. jobs' = [jobs EXCEPT ![j] = r]
        BY <2>1 DEF Mark
    <2>3. Stays(jobs[j], r)
        BY <1>1 DEF Shape, JobOK, Begun, Stays
    <2> HIDE DEF r
    <2> QED
        BY <1>1, <2>2, <2>3, JobStays
<1>10. CASE \E j \in Jobs : HEAppE(j)
    <2>1. PICK j \in Jobs, state \in {"RUNNING", "FAILED"} :
              /\ jobs[j].state \in {"QUEUED", "RUNNING"}
              /\ jobs' = [jobs EXCEPT ![j].state = state]
        BY <1>10 DEF HEAppE, StartJob, Kill
    <2> DEFINE r == [jobs[j] EXCEPT !.state = state]
    <2>2. jobs' = [jobs EXCEPT ![j] = r]
        BY <2>1
    <2>3. Stays(jobs[j], r)
        BY <1>1, <2>1 DEF Shape, JobOK, Begun, Stays
    <2> HIDE DEF r
    <2> QED
        BY <1>1, <2>2, <2>3, JobStays
<1>11. CASE FailToFetch \/ Save
    <2>1. serving.step # "idle"
        BY <1>11 DEF FailToFetch, Save
    <2>2. CASE FailToFetch
        BY <2>1, <2>2, ConcludedJobStays DEF FailToFetch
    <2>3. CASE Save
        <3>1. PICK state \in {"FINISHED", "FAILED"} :
                \E answer : Conclude(state, answer)
            BY <2>3 DEF Save
        <3> QED
            BY <2>1, <3>1, ConcludedJobStays
    <2> QED
        BY <1>11, <2>2, <2>3
<1>12. CASE \E c \in Callers : Start(c)
    BY <1>4, <1>12 DEF Start, Login, Close, RunCircuits, InitBackend,
       GetPulla, GetCalibrationSet, GetDynamicArchitecture, Begin
<1>13. CASE \E c \in Callers :
             \/ FailToCreate(c) \/ FailToUploadToken(c) \/ FailRequest(c)
             \/ Answer(c) \/ ResultsFailed(c) \/ Gather(c) \/ Raise(c)
    BY <1>4, <1>13 DEF FailToCreate, FailToUploadToken, FailRequest, Answer,
       ResultsFailed, Gather, Raise
<1>14. CASE (\E j \in Jobs : TakeJob(j)) \/ LookUp \/ Fetch \/ Recalibrate
            \/ Tick
    BY <1>4, <1>14 DEF TakeJob, LookUp, Fetch, Recalibrate, Tick, clients
<1> QED
    BY <1>5, <1>6, <1>7, <1>8, <1>9, <1>10, <1>11, <1>12, <1>13, <1>14
       DEF Next, Service, Step

LEMMA NumbersAreKept ==
    ASSUME SubmissionInv, Next
    PROVE  Numbered'
<1>1. CASE \E c \in Callers : CreateJob(c)
    BY <1>1, CreateJobKeeps
<1>2. CASE ~\E c \in Callers : CreateJob(c)
    <2>1. Created' = Created
        BY <1>2, JobsStay DEF Created, Stays
    <2> QED
        BY <2>1 DEF SubmissionInv, Numbered
<1> QED
    BY <1>1, <1>2

LEMMA BegunStaysBegun ==
    ASSUME SubmissionInv, Next, NEW j \in Jobs, Begun(jobs[j])
    PROVE  Begun(jobs'[j]) /\ jobs'[j].op = jobs[j].op
<1>1. CASE \E c \in Callers : CreateJob(c)
    <2>1. PICK c \in Callers : CreateJob(c)
        BY <1>1
    <2>2. PICK i : i = Cardinality(Created) + 1
        OBVIOUS
    <2>3. i \notin Created
        BY <2>2, CreatedIsCounted
    <2>4. j # i
        BY <2>3 DEF Created, Begun
    <2>5. PICK r : jobs' = [jobs EXCEPT ![i] = r]
        BY <2>1, <2>2 DEF CreateJob
    <2>6. jobs'[j] = jobs[j]
        BY <2>4, <2>5 DEF SubmissionInv, LegacyTypeOK
    <2> QED
        BY <2>6
<1>2. CASE ~\E c \in Callers : CreateJob(c)
    BY <1>2, JobsStay DEF Stays
<1> QED
    BY <1>1, <1>2

ServingOK ==
    serving \in [job : Jobs \cup {0}, value : Sets \cup {0},
                 step : {"idle", "lookup", "fetch", "save"}]

LEMMA FetchedIsSet ==
    ASSUME SubmissionInv, serving.step = "fetch"
    PROVE  /\ Fetched \in Sets \cup {0}
           /\ Served.op # "run" => Fetched \in Sets
<1>1. Served.arg \in Sets \cup {None} /\ current \in Sets
    BY DEF SubmissionInv, LegacyTypeOK, ServedOK, Served, JobOK
<1> QED
    BY <1>1 DEF Fetched, DefaultSet

LEMMA ServingIsKept ==
    ASSUME SubmissionInv, Next
    PROVE  ServedOK' /\ ServingOK'
<1>1. ServedOK /\ ServingOK
    BY DEF SubmissionInv, LegacyTypeOK, ServingOK
<1>2. CASE UNCHANGED serving
    <2>1. serving.step # "idle" =>
              /\ Begun(jobs'[serving.job])
              /\ jobs'[serving.job].op = jobs[serving.job].op
        BY <1>1, BegunStaysBegun DEF ServedOK
    <2>2. ServingOK'
        BY <1>1, <1>2 DEF ServingOK
    <2>3. ServedOK'
        BY <1>1, <1>2, <2>1 DEF ServedOK, ServingOK, Begun
    <2> QED
        BY <2>2, <2>3
<1>3. ASSUME NEW j \in Jobs, TakeJob(j)
      PROVE  ServedOK' /\ ServingOK'
    <2>1. Begun(jobs[j]) /\ serving' = [job |-> j, step |-> "lookup",
                                        value |-> 0]
        BY <1>3 DEF TakeJob, Begun
    <2>2. Begun(jobs'[j])
        BY <2>1, BegunStaysBegun
    <2> QED
        BY <2>1, <2>2 DEF ServedOK, ServingOK, Begun
<1>4. CASE LookUp
    <2>1. jobs' = jobs /\ serving.step # "idle"
        BY <1>4 DEF LookUp
    <2>2. CASE serving' = [serving EXCEPT !.step = "fetch"]
        BY <1>1, <2>1, <2>2 DEF ServedOK, ServingOK, Begun
    <2>3. CASE /\ serving' = [serving EXCEPT !.step = "save"]
               /\ Served.op \in Caches
        BY <1>1, <2>1, <2>3 DEF ServedOK, ServingOK, Begun, Served
    <2> QED
        BY <1>4, <2>2, <2>3 DEF LookUp
<1>5. CASE Fetch
    <2>1. jobs' = jobs /\ serving.step = "fetch"
        BY <1>5 DEF Fetch
    <2>2. PICK v : v = Fetched
        OBVIOUS
    <2>3. v \in Sets \cup {0} /\ (Served.op # "run" => v \in Sets)
        BY <2>1, <2>2, FetchedIsSet
    <2>4. serving' = [serving EXCEPT !.step = "save", !.value = v]
        BY <1>5, <2>2 DEF Fetch
    <2>5. ServingOK' /\ serving'.job = serving.job /\ serving'.value = v
        BY <1>1, <2>3, <2>4 DEF ServingOK
    <2> QED
        BY <1>1, <2>1, <2>3, <2>5 DEF ServedOK, Begun, Served
<1>6. CASE FailToFetch \/ Save
    <2>1. serving' = Resting
        BY <1>6 DEF FailToFetch, Save, Conclude
    <2> QED
        BY <2>1 DEF Resting, ServedOK, ServingOK, Begun
<1>7. CASE \E c \in Callers : Start(c)
    BY <1>2, <1>7 DEF Start, Login, Close, RunCircuits, InitBackend,
       GetPulla, GetCalibrationSet, GetDynamicArchitecture, Begin, service
<1>8. CASE \E c \in Callers : Step(c)
    BY <1>2, <1>8 DEF Step, CreateJob, FailToCreate, UploadToken,
       FailToUploadToken, StartUpload, Gather, Cancel, Raise, SubmitJob,
       FailRequest, Answer, ResultsFailed, service
<1>9. CASE \E j \in Jobs : Pool(j) \/ HEAppE(j)
    BY <1>2, <1>9 DEF Pool, HEAppE, EndUpload, StartJob, Kill, service
<1>10. CASE Recalibrate \/ Tick
    BY <1>2, <1>10 DEF Recalibrate, Tick, service
<1> QED
    BY <1>3, <1>4, <1>5, <1>6, <1>7, <1>8, <1>9, <1>10 DEF Next, Service

-----------------------------------------------------------------------------
(* The other variables. *)

LoginsOK ==
    /\ world \in DOMAIN Worlds
    /\ login \in [Callers -> {"none", "ready", "refused", "crashed"}]
    /\ open \subseteq {c \in Callers : login[c] = "ready"}

LearntOK ==
    /\ DOMAIN learnt = Callers
    /\ \A c \in Callers :
        /\ learnt[c] \in [DOMAIN learnt[c] -> Sets]
        /\ DOMAIN learnt[c] \subseteq Sets

StoreOK ==
    /\ DOMAIN store = Caches
    /\ \A k \in Caches :
        /\ store[k] \in [DOMAIN store[k] -> [set : Sets, until : Nat]]
        /\ DOMAIN store[k] \subseteq Sets \cup {0}

CountsOK ==
    /\ now \in 0..MaxTime /\ current \in Sets /\ faults \in 0..MaxFaults
    /\ history \in Seq(Sets) /\ Len(history) = now + 1

LEMMA TypeIsParts ==
    LegacyTypeOK <=> /\ Shape /\ ServingOK /\ LoginsOK
                     /\ LearntOK /\ StoreOK /\ CountsOK
BY DEF LegacyTypeOK, Shape, ServingOK, LoginsOK, LearntOK, StoreOK, CountsOK

LEMMA OutcomeIsOne ==
    ASSUME NEW a
    PROVE  Outcome(a) \in {"ready", "refused", "crashed"}
BY DEF Outcome

LEMMA LoginsAreKept ==
    ASSUME LoginsOK, Next
    PROVE  LoginsOK'
<1>1. CASE UNCHANGED <<world, login, open>>
    BY <1>1 DEF LoginsOK
<1>2. ASSUME NEW c \in Callers, Login(c)
      PROVE  LoginsOK'
    <2>1. PICK o \in {"ready", "refused", "crashed"} :
              login' = [login EXCEPT ![c] = o]
        BY <1>2, OutcomeIsOne DEF Login
    <2>2. login[c] = "none" /\ world' = world
        BY <1>2 DEF Login
    <2>3. open' = IF o = "ready" THEN open \cup {c} ELSE open
        BY <1>2, <2>1 DEF Login, LoginsOK
    <2> QED
        BY <2>1, <2>2, <2>3 DEF LoginsOK
<1>3. ASSUME NEW c \in Callers, Close(c)
      PROVE  LoginsOK'
    BY <1>3 DEF Close, LoginsOK
<1>4. ASSUME NEW c \in Callers, Start(c), ~Login(c), ~Close(c)
      PROVE  LoginsOK'
    BY <1>1, <1>4 DEF Start, RunCircuits, InitBackend, GetPulla,
       GetCalibrationSet, GetDynamicArchitecture, Begin
<1>5. CASE \E c \in Callers : Step(c)
    BY <1>1, <1>5 DEF Step, CreateJob, FailToCreate, UploadToken,
       FailToUploadToken, StartUpload, Gather, Cancel, Raise, SubmitJob,
       FailRequest, Answer, ResultsFailed, clients
<1>6. CASE \E j \in Jobs : Pool(j) \/ HEAppE(j)
    BY <1>1, <1>6 DEF Pool, HEAppE, EndUpload, StartJob, Kill, clients
<1>7. CASE Service \/ Recalibrate \/ Tick
    BY <1>1, <1>7 DEF Service, TakeJob, LookUp, Fetch, FailToFetch, Save,
       Recalibrate, Tick, clients
<1> QED
    BY <1>2, <1>3, <1>4, <1>5, <1>6, <1>7 DEF Next

LEMMA LearntIsKept ==
    ASSUME SubmissionInv, Next
    PROVE  LearntOK'
<1>1. LearntOK
    BY TypeIsParts DEF SubmissionInv
<1>2. CASE UNCHANGED learnt
    BY <1>1, <1>2 DEF LearntOK
<1>3. ASSUME NEW c \in Callers, Answer(c)
      PROVE  LearntOK'
    <2>1. CASE call[c].op = "arch"
        <3>1. PICK a : a = Job(c).answer
            OBVIOUS
        <3>2. call[c].job \in Jobs /\ HandOK(call[c], jobs[call[c].job])
            BY <1>3 DEF Answer, SubmissionInv, Directories, InHand, Busy
        <3>3. a \in Sets
            BY <1>3, <2>1, <3>1, <3>2 DEF Answer, Job, HandOK, Fine,
               SubmissionInv, Directories, AllFine
        <3>4. learnt' = [learnt EXCEPT ![c] =
                  [s \in DOMAIN learnt[c] \cup {a} |->
                      IF s = a THEN a ELSE learnt[c][s]]]
            BY <1>1, <1>3, <2>1, <3>1 DEF Answer, Learn, LearntOK
        <3>5. /\ DOMAIN learnt' = Callers
              /\ \A d \in Callers \ {c} : learnt'[d] = learnt[d]
              /\ learnt'[c] = [s \in DOMAIN learnt[c] \cup {a} |->
                                  IF s = a THEN a ELSE learnt[c][s]]
            BY <1>1, <3>4 DEF LearntOK
        <3>6. /\ learnt'[c] \in [DOMAIN learnt'[c] -> Sets]
              /\ DOMAIN learnt'[c] \subseteq Sets
            BY <1>1, <3>3, <3>5 DEF LearntOK
        <3> QED
            BY <1>1, <3>5, <3>6 DEF LearntOK
    <2>2. CASE call[c].op # "arch"
        BY <1>2, <1>3, <2>2 DEF Answer
    <2> QED
        BY <2>1, <2>2
<1>4. CASE \E c \in Callers : Start(c)
    BY <1>2, <1>4 DEF Start, Login, Close, RunCircuits, InitBackend,
       GetPulla, GetCalibrationSet, GetDynamicArchitecture, Begin
<1>5. ASSUME NEW c \in Callers, Step(c), ~Answer(c)
      PROVE  LearntOK'
    BY <1>2, <1>5 DEF Step, CreateJob, FailToCreate, UploadToken,
       FailToUploadToken, StartUpload, Gather, Cancel, Raise, SubmitJob,
       FailRequest, ResultsFailed, clients
<1>6. CASE \E j \in Jobs : Pool(j) \/ HEAppE(j)
    BY <1>2, <1>6 DEF Pool, HEAppE, EndUpload, StartJob, Kill, clients
<1>7. CASE Service \/ Recalibrate \/ Tick
    BY <1>2, <1>7 DEF Service, TakeJob, LookUp, Fetch, FailToFetch, Save,
       Recalibrate, Tick, clients
<1> QED
    BY <1>3, <1>4, <1>5, <1>6, <1>7 DEF Next

LEMMA StoreIsKept ==
    ASSUME SubmissionInv, Next
    PROVE  StoreOK'
<1>1. StoreOK /\ CountsOK
    BY TypeIsParts DEF SubmissionInv
<1>2. CASE UNCHANGED store
    BY <1>1, <1>2 DEF StoreOK
<1>3. CASE Fetch
    <2>1. CASE Served.op \in Caches
        <3>1. PICK op \in Caches : op = Served.op
            BY <2>1
        <3>2. PICK key : key = StoreKey(Served.arg)
            OBVIOUS
        <3>3. PICK e : e = Entry(key)
            OBVIOUS
        <3>4. key \in Sets \cup {0}
            BY <1>3, <3>2 DEF SubmissionInv, LegacyTypeOK, ServedOK, Fetch,
               Served, JobOK, StoreKey, KeyOf
        <3>5. Fetched \in Sets
            BY <1>3, <2>1, FetchedIsSet DEF Fetch, Caches
        <3>6. e \in [set : Sets, until : Nat]
            BY <1>1, <3>3, <3>5, LegacyAssumption DEF Entry, CountsOK
        <3>7. store' = [store EXCEPT ![op] =
                  [k \in DOMAIN store[op] \cup {key} |->
                      IF k = key THEN e ELSE store[op][k]]]
            BY <1>1, <1>3, <2>1, <3>1, <3>2, <3>3 DEF Fetch, StoreOK
        <3>8. /\ DOMAIN store' = Caches
              /\ \A k \in Caches \ {op} : store'[k] = store[k]
              /\ store'[op] = [k \in DOMAIN store[op] \cup {key} |->
                                  IF k = key THEN e ELSE store[op][k]]
            BY <1>1, <3>7 DEF StoreOK
        <3>9. /\ store'[op] \in [DOMAIN store'[op] ->
                                    [set : Sets, until : Nat]]
              /\ DOMAIN store'[op] \subseteq Sets \cup {0}
            BY <1>1, <3>4, <3>6, <3>8 DEF StoreOK
        <3> QED
            BY <1>1, <3>8, <3>9 DEF StoreOK
    <2>2. CASE Served.op \notin Caches
        BY <1>2, <1>3, <2>2 DEF Fetch
    <2> QED
        BY <2>1, <2>2
<1>4. CASE Tick
    <2>1. store' = [k \in Caches |->
              [s \in {s \in DOMAIN store[k] : store[k][s].until > now + 1}
                  |-> store[k][s]]]
        BY <1>4 DEF Tick
    <2>2. /\ DOMAIN store' = Caches
          /\ \A k \in Caches : \E T \in SUBSET DOMAIN store[k] :
                store'[k] = [s \in T |-> store[k][s]]
        BY <2>1
    <2>3. ASSUME NEW k \in Caches
          PROVE  /\ store'[k] \in [DOMAIN store'[k] ->
                                      [set : Sets, until : Nat]]
                 /\ DOMAIN store'[k] \subseteq Sets \cup {0}
        <3>1. PICK T \in SUBSET DOMAIN store[k] :
                  store'[k] = [s \in T |-> store[k][s]]
            BY <2>2
        <3> QED
            BY <1>1, <3>1 DEF StoreOK
    <2> QED
        BY <2>2, <2>3 DEF StoreOK
<1>5. CASE \E c \in Callers : Start(c)
    BY <1>2, <1>5 DEF Start, Login, Close, RunCircuits, InitBackend,
       GetPulla, GetCalibrationSet, GetDynamicArchitecture, Begin, service
<1>6. CASE \E c \in Callers : Step(c)
    BY <1>2, <1>6 DEF Step, CreateJob, FailToCreate, UploadToken,
       FailToUploadToken, StartUpload, Gather, Cancel, Raise, SubmitJob,
       FailRequest, Answer, ResultsFailed, service
<1>7. CASE \E j \in Jobs : Pool(j) \/ HEAppE(j)
    BY <1>2, <1>7 DEF Pool, HEAppE, EndUpload, StartJob, Kill, service
<1>8. CASE \/ \E j \in Jobs : TakeJob(j)
           \/ LookUp \/ FailToFetch \/ Save \/ Recalibrate
    BY <1>2, <1>8 DEF TakeJob, LookUp, FailToFetch, Save, Recalibrate, service
<1> QED
    BY <1>3, <1>4, <1>5, <1>6, <1>7, <1>8 DEF Next, Service

LEMMA FaultIsBounded ==
    ASSUME world \in DOMAIN Worlds, faults \in 0..MaxFaults,
           UNCHANGED faults \/ Fault
    PROVE  faults' \in 0..MaxFaults
BY LegacyAssumption DEF Fault, World

LEMMA CountsAreKept ==
    ASSUME LoginsOK, CountsOK, Next
    PROVE  CountsOK'
<1>1. CASE UNCHANGED outside /\ (UNCHANGED faults \/ Fault)
    <2>1. faults' \in 0..MaxFaults
        BY <1>1, FaultIsBounded DEF LoginsOK, CountsOK
    <2> QED
        BY <1>1, <2>1 DEF CountsOK, outside
<1>2. CASE Recalibrate
    <2>1. current' \in Sets
        BY <1>2, LegacyAssumption DEF Recalibrate, World, LoginsOK, CountsOK,
           Sets
    <2> QED
        BY <1>2, <2>1 DEF Recalibrate, CountsOK
<1>3. CASE Tick
    <2>1. now' \in 0..MaxTime
        BY <1>3, LegacyAssumption DEF Tick, World, LoginsOK, CountsOK
    <2>2. history' \in Seq(Sets) /\ Len(history') = now' + 1
        BY <1>3 DEF Tick, CountsOK
    <2> QED
        BY <1>3, <2>1, <2>2 DEF Tick, CountsOK
<1>4. CASE \E c \in Callers : Start(c)
    BY <1>1, <1>4 DEF Start, Login, Close, RunCircuits, InitBackend,
       GetPulla, GetCalibrationSet, GetDynamicArchitecture, Begin
<1>5. CASE \E c \in Callers : Step(c)
    <2>1. PICK c \in Callers : Step(c)
        BY <1>5
    <2>2. CASE CreateJob(c) \/ FailToCreate(c) \/ UploadToken(c)
               \/ FailToUploadToken(c) \/ \E f \in Files : StartUpload(c, f)
        BY <1>1, <2>2 DEF CreateJob, FailToCreate, UploadToken,
           FailToUploadToken, StartUpload
    <2>3. CASE Gather(c) \/ Cancel(c) \/ Raise(c) \/ SubmitJob(c)
               \/ FailRequest(c) \/ Answer(c) \/ ResultsFailed(c)
        BY <1>1, <2>3 DEF Gather, Cancel, Raise, SubmitJob, FailRequest,
           Answer, ResultsFailed
    <2> QED
        BY <2>1, <2>2, <2>3 DEF Step
<1>6. CASE \E j \in Jobs : Pool(j) \/ HEAppE(j)
    BY <1>1, <1>6 DEF Pool, HEAppE, EndUpload, StartJob, Kill
<1>7. CASE Service
    BY <1>1, <1>7 DEF Service, TakeJob, LookUp, Fetch, FailToFetch, Save
<1> QED
    BY <1>2, <1>3, <1>4, <1>5, <1>6, <1>7 DEF Next

-----------------------------------------------------------------------------
LEMMA SubmissionInit ==
    ASSUME Init
    PROVE  SubmissionInv
<1> USE LegacyAssumption DEF Init
<1>1. Shape
    <2>1. Idle \in CallOK
        BY DEF CallOK, Idle
    <2>2. NoJob \in JobOK
        BY DEF JobOK, NoJob
    <2> QED
        BY <2>1, <2>2 DEF Shape
<1>2. ServingOK /\ LoginsOK
    BY DEF ServingOK, LoginsOK, Resting
<1>3. LearntOK /\ StoreOK
    <2>1. << >> \in [DOMAIN << >> -> Sets] /\ DOMAIN << >> = {}
        OBVIOUS
    <2>2. << >> \in [DOMAIN << >> -> [set : Sets, until : Nat]]
        OBVIOUS
    <2> QED
        BY <2>1, <2>2 DEF LearntOK, StoreOK
<1>4. CountsOK
    BY DEF CountsOK, Sets
<1>5. Directories
    BY DEF Directories, InHand, AllFine, Owned, OwnedByOne, Busy, Owns,
       Uploads, Fine, Begun, Pending, NoJob, Idle
<1>6. Numbered
    <2>1. Created = {}
        BY DEF Created, NoJob
    <2>2. Created = 1..0 /\ 0 \in 0..MaxJobs
        BY <2>1
    <2> QED
        BY <2>2 DEF Numbered
<1>7. ServedOK
    BY DEF ServedOK, Resting
<1> QED
    BY <1>1, <1>2, <1>3, <1>4, <1>5, <1>6, <1>7, TypeIsParts
       DEF SubmissionInv

LEMMA SubmissionNext ==
    ASSUME SubmissionInv, [Next]_vars
    PROVE  SubmissionInv'
<1>1. CASE Next
    <2>1. LoginsOK /\ CountsOK
        BY TypeIsParts DEF SubmissionInv
    <2>2. /\ Shape' /\ Directories' /\ Numbered' /\ ServedOK' /\ ServingOK'
          /\ LoginsOK' /\ LearntOK' /\ StoreOK' /\ CountsOK'
        BY <1>1, <2>1, DirectoriesAreKept, NumbersAreKept, ServingIsKept,
           LoginsAreKept, LearntIsKept, StoreIsKept, CountsAreKept
    <2>3. LegacyTypeOK'
        BY <2>2 DEF LegacyTypeOK, Shape, ServingOK, LoginsOK, LearntOK,
           StoreOK, CountsOK
    <2> QED
        BY <2>2, <2>3 DEF SubmissionInv
<1>2. CASE UNCHANGED vars
    <2> USE <1>2 DEF vars
    <2>1. LegacyTypeOK'
        BY DEF SubmissionInv, LegacyTypeOK
    <2>2. Directories'
        BY DEF SubmissionInv, Directories, InHand, AllFine, Owned,
           OwnedByOne
    <2>3. Numbered' /\ ServedOK'
        BY DEF SubmissionInv, Numbered, Created, ServedOK
    <2> QED
        BY <2>1, <2>2, <2>3 DEF SubmissionInv
<1> QED
    BY <1>1, <1>2

LEMMA SubmissionHolds == Spec => []SubmissionInv
BY SubmissionInit, SubmissionNext, PTL DEF Spec

\* Type correctness of the legacy clients at work: `LegacyTypeOK'.
THEOREM LegacyIsTyped == Spec => []LegacyTypeOK
<1>1. SubmissionInv => LegacyTypeOK
    BY DEF SubmissionInv
<1> QED
    BY <1>1, SubmissionHolds, PTL

\* Whatever fails while the pool of client.py uploads the files of a job, and
\* however many programs do so, `submit_quantum_job' submits no job whose
\* token or one of whose files is not there.
THEOREM QueuedIsAlwaysComplete == Spec => []QueuedIsComplete
<1>1. SubmissionInv => QueuedIsComplete
    BY DEF SubmissionInv, Directories, AllFine, Fine, Begun, QueuedIsComplete
<1> QED
    BY <1>1, SubmissionHolds, PTL

\* No upload goes on, or waits for a thread, once the call it belongs to has
\* returned or raised: the `with' block of `submit_quantum_job' joins the pool
\* on every path out of it.
THEOREM UploadsAlwaysEndWithTheirCall == Spec => []UploadsEndWithTheirCall
<1>1. SubmissionInv => UploadsEndWithTheirCall
    BY DEF SubmissionInv, Directories, AllFine, Owned, Fine, Uploads,
       Uploading, Pending, UploadsEndWithTheirCall
<1> QED
    BY <1>1, SubmissionHolds, PTL

-----------------------------------------------------------------------------
(***************************************************************************)
(* How old an answer may be.  What is kept under "default" was the default *)
(* set, or newer, when the entry was made; what a call is owed is a bound  *)
(* that was fixed when the call began.                                     *)
(***************************************************************************)
Ascending ==
    /\ \A i, j \in 1..(now + 1) : i <= j => history[i] <= history[j]
    /\ \A i \in 1..(now + 1) : history[i] <= current

EntryOK(e) ==
    \E t \in 0..now : e.until = t + TTL /\ e.set >= history[t + 1]

EntriesOK == \A k \in Caches : 0 \in DOMAIN store[k] => EntryOK(store[k][0])

ArgKept ==
    \A c \in Callers : Busy(call[c]) =>
        jobs[call[c].job].arg = call[c].arg

Past ==
    \A c \in Callers : call[c].step # "idle" =>
        call[c].tick <= now /\ call[c].default <= current

\* `k' waits for what the service is asked for without a name.
Unnamed == {"set", "init", "pulla", "arch"}

Awaits(k) == k.step = "wait" /\ k.arg = None /\ k.op \in Unnamed

Oldest(t) == IF t + 1 - TTL < 0 THEN 1 ELSE history[t + 2 - TTL]

Owed(k) == IF k.op = "arch" THEN Oldest(k.tick) ELSE k.default

AnswersOK ==
    \A c \in Callers :
        Awaits(call[c]) /\ jobs[call[c].job].state = "FINISHED" =>
            jobs[call[c].job].answer >= Owed(call[c])

SavingOK ==
    \A c \in Callers :
        Awaits(call[c]) /\ serving.step = "save"
            /\ serving.job = call[c].job =>
        /\ call[c].op = "set" /\ 0 \in DOMAIN store["set"] =>
               store["set"][0].set >= call[c].default
        /\ call[c].op \in {"init", "pulla"} =>
               serving.value >= call[c].default

FreshInv ==
    /\ SubmissionInv
    /\ Ascending /\ EntriesOK
    /\ ArgKept /\ Past
    /\ AnswersOK /\ SavingOK

-----------------------------------------------------------------------------
LEMMA CountsAreNumbers ==
    ASSUME CountsOK
    PROVE  /\ now \in Nat /\ current \in Nat
           /\ \A i \in 1..(now + 1) : history[i] \in Nat
<1>1. now \in Nat /\ Sets \subseteq Nat
    BY LegacyAssumption DEF CountsOK, Sets
<1>2. \A i \in 1..(now + 1) : history[i] \in Sets
    BY <1>1 DEF CountsOK
<1> QED
    BY <1>1, <1>2 DEF CountsOK

\* The clock, the default set and what was the default set only go on.
LEMMA OutsideGoesOn ==
    ASSUME SubmissionInv, Ascending, Next
    PROVE  /\ Ascending' /\ CountsOK /\ CountsOK'
           /\ now <= now' /\ current <= current'
           /\ \A i \in 1..(now + 1) : history'[i] = history[i]
<1>1. CountsOK /\ CountsOK'
    BY TypeIsParts, CountsAreKept DEF SubmissionInv
<1>2. /\ now \in Nat /\ current \in Nat
      /\ \A i \in 1..(now + 1) : history[i] \in Nat
    BY <1>1, CountsAreNumbers
<1>3. CASE UNCHANGED outside
    <2>1. now' = now /\ history' = history /\ current' = current
        BY <1>3 DEF outside
    <2>2. Ascending'
        BY <2>1 DEF Ascending
    <2> QED
        BY <1>1, <1>2, <2>1, <2>2
<1>4. CASE Recalibrate
    <2>1. current' = current + 1 /\ now' = now /\ history' = history
        BY <1>4 DEF Recalibrate
    <2>2. \A i \in 1..(now + 1) : history[i] <= current + 1
        BY <1>2 DEF Ascending
    <2>3. Ascending'
        BY <2>1, <2>2 DEF Ascending
    <2> QED
        BY <1>1, <1>2, <2>1, <2>3
<1>5. CASE Tick
    <2>1. now' = now + 1 /\ current' = current
        BY <1>5 DEF Tick
    <2>2. /\ \A i \in 1..(now + 1) : history'[i] = history[i]
          /\ history'[now + 2] = current
        BY <1>1, <1>2, <1>5 DEF Tick, CountsOK
    <2>3. \A i \in 1..(now + 2) : i \in 1..(now + 1) \/ i = now + 2
        BY <1>2
    <2>4. \A i \in 1..(now + 2) : history'[i] <= current
        BY <1>2, <2>2, <2>3 DEF Ascending
    <2>5. ASSUME NEW i \in 1..(now + 2), NEW j \in 1..(now + 2), i <= j
          PROVE  history'[i] <= history'[j]
        <3>1. CASE j = now + 2
            BY <2>2, <2>4, <3>1
        <3>2. CASE j \in 1..(now + 1)
            <4>1. i \in 1..(now + 1)
                BY <1>2, <2>5, <3>2
            <4> QED
                BY <2>2, <2>5, <3>2, <4>1 DEF Ascending
        <3> QED
            BY <2>3, <3>1, <3>2
    <2>6. now' + 1 = now + 2
        BY <1>2, <2>1
    <2>7. Ascending'
        BY <2>1, <2>4, <2>5, <2>6 DEF Ascending
    <2> QED
        BY <1>1, <1>2, <2>1, <2>2, <2>7
<1>6. CASE \E c \in Callers : Start(c)
    BY <1>3, <1>6 DEF Start, Login, Close, RunCircuits, InitBackend,
       GetPulla, GetCalibrationSet, GetDynamicArchitecture, Begin
<1>7. CASE \E c \in Callers : Step(c)
    BY <1>3, <1>7 DEF Step, CreateJob, FailToCreate, UploadToken,
       FailToUploadToken, StartUpload, Gather, Cancel, Raise, SubmitJob,
       FailRequest, Answer, ResultsFailed
<1>8. CASE \E j \in Jobs : Pool(j) \/ HEAppE(j)
    BY <1>3, <1>8 DEF Pool, HEAppE, EndUpload, StartJob, Kill
<1>9. CASE Service
    BY <1>3, <1>9 DEF Service, TakeJob, LookUp, Fetch, FailToFetch, Save
<1> QED
    BY <1>4, <1>5, <1>6, <1>7, <1>8, <1>9 DEF Next

\* An entry that was fresh enough stays so.
LEMMA EntryStaysOK ==
    ASSUME CountsOK, now' \in Nat, now <= now', NEW e, EntryOK(e),
           \A i \in 1..(now + 1) : history'[i] = history[i]
    PROVE  \E t \in 0..now' : e.until = t + TTL /\ e.set >= history'[t + 1]
<1>1. PICK t \in 0..now : e.until = t + TTL /\ e.set >= history[t + 1]
    BY DEF EntryOK
<1>2. now \in Nat
    BY DEF CountsOK
<1>3. t \in 0..now' /\ t + 1 \in 1..(now + 1)
    BY <1>2
<1>4. e.set >= history'[t + 1]
    BY <1>1, <1>3
<1> QED
    BY <1>1, <1>3, <1>4

\* What a job without an argument fetches is the default set.
LEMMA FetchKeepsDefault ==
    ASSUME SubmissionInv, Ascending, Fetch, Served.op \in Caches,
           StoreKey(Served.arg) = 0
    PROVE  EntryOK(Entry(0)) /\ Entry(0).set = current
<1>1. CountsOK
    BY TypeIsParts DEF SubmissionInv
<1>2. serving.job \in Jobs /\ Served \in JobOK
    BY DEF SubmissionInv, LegacyTypeOK, ServedOK, Fetch, Served
<1>3. Served.arg = None
    BY <1>2 DEF StoreKey, KeyOf, JobOK, Sets
<1>4. Fetched = current
    BY <1>3 DEF Fetched, DefaultSet, Caches
<1>5. Entry(0) = [set |-> current, until |-> now + TTL]
    BY <1>4 DEF Entry
<1>6. now \in Nat /\ now + 1 \in 1..(now + 1)
    BY <1>1, CountsAreNumbers
<1>7. history[now + 1] <= current /\ history[now + 1] \in Nat
      /\ current \in Nat
    BY <1>1, <1>6, CountsAreNumbers DEF Ascending
<1>8. now \in 0..now /\ current >= history[now + 1]
    BY <1>6, <1>7
<1> QED
    BY <1>5, <1>8 DEF EntryOK

LEMMA StoreAfterFetch ==
    ASSUME StoreOK, Fetch
    PROVE  /\ \A k \in Caches : k # Served.op => store'[k] = store[k]
           /\ Served.op \in Caches =>
                /\ DOMAIN store'[Served.op] =
                       DOMAIN store[Served.op] \cup {StoreKey(Served.arg)}
                /\ \A s \in DOMAIN store'[Served.op] :
                     store'[Served.op][s] =
                         IF s = StoreKey(Served.arg)
                         THEN Entry(StoreKey(Served.arg))
                         ELSE store[Served.op][s]
<1>1. CASE Served.op \in Caches
    <2>1. PICK op \in Caches : op = Served.op
        BY <1>1
    <2>2. PICK key : key = StoreKey(Served.arg)
        OBVIOUS
    <2>3. PICK e : e = Entry(key)
        OBVIOUS
    <2>4. store' = [store EXCEPT ![op] =
              [k \in DOMAIN store[op] \cup {key} |->
                  IF k = key THEN e ELSE store[op][k]]]
        BY <2>1, <2>2, <2>3 DEF Fetch, StoreOK
    <2>5. /\ \A k \in Caches \ {op} : store'[k] = store[k]
          /\ store'[op] = [k \in DOMAIN store[op] \cup {key} |->
                              IF k = key THEN e ELSE store[op][k]]
        BY <2>4 DEF StoreOK
    <2> QED
        BY <2>1, <2>2, <2>3, <2>5
<1>2. CASE Served.op \notin Caches
    BY <1>2 DEF Fetch
<1> QED
    BY <1>1, <1>2

LEMMA EntriesStayOK ==
    ASSUME SubmissionInv, Ascending, EntriesOK, Next
    PROVE  EntriesOK'
<1>1. /\ CountsOK /\ CountsOK' /\ now <= now' /\ StoreOK
      /\ \A i \in 1..(now + 1) : history'[i] = history[i]
    BY OutsideGoesOn, TypeIsParts DEF SubmissionInv
<1>2. \A e : EntryOK(e) =>
          \E t \in 0..now' : e.until = t + TTL /\ e.set >= history'[t + 1]
    <2>1. now' \in Nat
        BY <1>1 DEF CountsOK
    <2> QED
        BY <1>1, <2>1, EntryStaysOK
<1>3. SUFFICES ASSUME NEW k \in Caches, 0 \in DOMAIN store'[k]
               PROVE  EntryOK(store'[k][0])
    <2>1. \A k \in Caches : 0 \in DOMAIN store'[k] => EntryOK(store'[k][0])
        OBVIOUS
    <2> QED
        BY <1>2, <2>1 DEF EntriesOK, EntryOK
<1>5. CASE UNCHANGED store
    BY <1>3, <1>5 DEF EntriesOK
<1>6. CASE Fetch
    <2>1. CASE k = Served.op
        <3>1. CASE StoreKey(Served.arg) = 0
            BY <1>1, <1>3, <1>6, <2>1, <3>1, StoreAfterFetch,
               FetchKeepsDefault
        <3>2. CASE StoreKey(Served.arg) # 0
            <4>1. 0 \in DOMAIN store[k] /\ store'[k][0] = store[k][0]
                BY <1>1, <1>3, <1>6, <2>1, <3>2, StoreAfterFetch
            <4> QED
                BY <4>1 DEF EntriesOK
        <3> QED
            BY <3>1, <3>2
    <2>2. CASE k # Served.op
        BY <1>1, <1>3, <1>6, <2>2, StoreAfterFetch DEF EntriesOK
    <2> QED
        BY <2>1, <2>2
<1>7. CASE Tick
    <2>1. PICK T \in SUBSET DOMAIN store[k] :
              store'[k] = [s \in T |-> store[k][s]]
        BY <1>7 DEF Tick
    <2> QED
        BY <1>3, <2>1 DEF EntriesOK
<1>8. CASE \E c \in Callers : Start(c)
    BY <1>5, <1>8 DEF Start, Login, Close, RunCircuits, InitBackend,
       GetPulla, GetCalibrationSet, GetDynamicArchitecture, Begin, service
<1>9. CASE \E c \in Callers : Step(c)
    BY <1>5, <1>9 DEF Step, CreateJob, FailToCreate, UploadToken,
       FailToUploadToken, StartUpload, Gather, Cancel, Raise, SubmitJob,
       FailRequest, Answer, ResultsFailed, service
<1>10. CASE \E j \in Jobs : Pool(j) \/ HEAppE(j)
    BY <1>5, <1>10 DEF Pool, HEAppE, EndUpload, StartJob, Kill, service
<1>11. CASE \/ \E j \in Jobs : TakeJob(j)
            \/ LookUp \/ FailToFetch \/ Save \/ Recalibrate
    BY <1>5, <1>11 DEF TakeJob, LookUp, FailToFetch, Save, Recalibrate,
       service
<1> QED
    BY <1>6, <1>7, <1>8, <1>9, <1>10, <1>11 DEF Next, Service

-----------------------------------------------------------------------------
\* The ways a call goes on; `k' is the new one.
Turns(c, k) ==
    \/ k = call[c]
    \/ k = Idle
    \/ k.step = "create" /\ k.tick = now /\ k.default = current
    \/ /\ CreateJob(c)
       /\ k = [call[c] EXCEPT !.step = "token",
                              !.job = Cardinality(Created) + 1]
    \/ /\ Owns(call[c])
       /\ \E step \in {"upload", "abort", "submit"} :
            k = [call[c] EXCEPT !.step = step]
    \/ SubmitJob(c) /\ k = [call[c] EXCEPT !.step = "wait"]

LEMMA OtherCallStays ==
    ASSUME call \in [Callers -> CallOK], NEW c \in Callers, NEW d \in Callers,
           NEW k, call' = [call EXCEPT ![d] = k], Turns(d, k)
    PROVE  Turns(c, call'[c])
<1>1. CASE c = d
    BY <1>1
<1>2. CASE c # d
    BY <1>2 DEF Turns
<1> QED
    BY <1>1, <1>2

LEMMA CallTurns ==
    ASSUME call \in [Callers -> CallOK], Next, NEW c \in Callers
    PROVE  Turns(c, call'[c])
<1>1. CASE call' = call
    BY <1>1 DEF Turns
<1>2. ASSUME NEW d \in Callers, Return(d)
      PROVE  Turns(c, call'[c])
    <2>1. Turns(d, Idle)
        BY DEF Turns
    <2> QED
        BY <1>2, <2>1, OtherCallStays DEF Return
<1>3. ASSUME NEW d \in Callers, NEW op, NEW arg, Begin(d, op, arg)
      PROVE  Turns(c, call'[c])
    <2>1. PICK k : k = [op |-> op, arg |-> arg, job |-> 0,
                        step |-> "create", tick |-> now, default |-> current]
        OBVIOUS
    <2>2. call' = [call EXCEPT ![d] = k]
        BY <1>3, <2>1 DEF Begin
    <2>3. Turns(d, k)
        BY <2>1 DEF Turns
    <2> QED
        BY <2>2, <2>3, OtherCallStays
<1>4. ASSUME NEW d \in Callers, Owns(call[d]),
             NEW step \in {"upload", "abort", "submit"}, At(d, step)
      PROVE  Turns(c, call'[c])
    <2>1. PICK k : k = [call[d] EXCEPT !.step = step]
        OBVIOUS
    <2>2. call' = [call EXCEPT ![d] = k]
        BY <1>4, <2>1 DEF At
    <2>3. Turns(d, k)
        BY <1>4, <2>1 DEF Turns
    <2> QED
        BY <2>2, <2>3, OtherCallStays
<1>5. ASSUME NEW d \in Callers, SubmitJob(d)
      PROVE  Turns(c, call'[c])
    <2>1. CASE At(d, "wait")
        <3>1. PICK k : k = [call[d] EXCEPT !.step = "wait"]
            OBVIOUS
        <3>2. call' = [call EXCEPT ![d] = k]
            BY <2>1, <3>1 DEF At
        <3>3. Turns(d, k)
            BY <1>5, <3>1 DEF Turns
        <3> QED
            BY <3>2, <3>3, OtherCallStays
    <2> QED
        BY <1>2, <1>5, <2>1 DEF SubmitJob
<1>6. ASSUME NEW d \in Callers, CreateJob(d)
      PROVE  Turns(c, call'[c])
    <2>1. CASE ~Return(d)
        <3>1. PICK k : k = [call[d] EXCEPT !.step = "token",
                                           !.job = Cardinality(Created) + 1]
            OBVIOUS
        <3>2. call' = [call EXCEPT ![d] = k]
            BY <1>6, <2>1, <3>1 DEF CreateJob
        <3>3. Turns(d, k)
            BY <1>6, <3>1 DEF Turns
        <3> QED
            BY <3>2, <3>3, OtherCallStays
    <2> QED
        BY <1>2, <2>1
<1>7. ASSUME NEW d \in Callers, Start(d)
      PROVE  Turns(c, call'[c])
    <2>1. CASE Login(d) \/ Close(d)
        BY <1>1, <2>1 DEF Login, Close
    <2>2. CASE \E op, arg : Begin(d, op, arg)
        BY <1>3, <2>2
    <2> QED
        BY <1>7, <2>1, <2>2 DEF Start, RunCircuits, InitBackend, GetPulla,
           GetCalibrationSet, GetDynamicArchitecture
<1>8. ASSUME NEW d \in Callers, Step(d)
      PROVE  Turns(c, call'[c])
    <2>1. CASE \/ FailToCreate(d) \/ FailToUploadToken(d) \/ Raise(d)
               \/ FailRequest(d) \/ Answer(d) \/ ResultsFailed(d)
        BY <1>2, <2>1 DEF FailToCreate, FailToUploadToken, Raise,
           FailRequest, Answer, ResultsFailed
    <2>2. CASE UploadToken(d) \/ Gather(d) \/ Cancel(d)
        BY <1>4, <2>2 DEF UploadToken, Gather, Cancel, Owns
    <2>3. CASE \E f \in Files : StartUpload(d, f)
        BY <1>1, <2>3 DEF StartUpload, clients
    <2> QED
        BY <1>5, <1>6, <1>8, <2>1, <2>2, <2>3 DEF Step
<1>9. CASE \E j \in Jobs : Pool(j) \/ HEAppE(j)
    BY <1>1, <1>9 DEF Pool, HEAppE, EndUpload, StartJob, Kill, clients
<1>10. CASE Service \/ Recalibrate \/ Tick
    BY <1>1, <1>10 DEF Service, TakeJob, LookUp, Fetch, FailToFetch, Save,
       Recalibrate, Tick, clients
<1> QED
    BY <1>7, <1>8, <1>9, <1>10 DEF Next

LEMMA PastIsKept ==
    ASSUME SubmissionInv, Ascending, Past, Next
    PROVE  Past'
<1>1. /\ CountsOK /\ CountsOK' /\ now <= now' /\ current <= current'
    BY OutsideGoesOn
<1>2. /\ now \in Nat /\ current \in Nat /\ now' \in Nat /\ current' \in Nat
    <2>1. now' \in Nat /\ current' \in Nat
        BY <1>1, LegacyAssumption DEF CountsOK, Sets
    <2> QED
        BY <1>1, <2>1, CountsAreNumbers
<1>3. SUFFICES ASSUME NEW c \in Callers, NEW k, k = call'[c],
                      k.step # "idle"
               PROVE  k.tick <= now' /\ k.default <= current'
    BY DEF Past
<1>4. call \in [Callers -> CallOK]
    BY DEF SubmissionInv, LegacyTypeOK
<1>5. Turns(c, k)
    BY <1>3, <1>4, CallTurns
<1>6. call[c].tick \in Nat /\ call[c].default \in Nat
    BY <1>4, LegacyAssumption DEF CallOK, Sets
<1>7. CASE k.tick = now /\ k.default = current
    BY <1>1, <1>2, <1>7
<1>8. CASE /\ call[c].step # "idle"
           /\ k.tick = call[c].tick /\ k.default = call[c].default
    <2>1. call[c].tick <= now /\ call[c].default <= current
        BY <1>8 DEF Past
    <2> QED
        BY <1>1, <1>2, <1>6, <1>8, <2>1
<1>9. CASE k = call[c]
    BY <1>3, <1>8, <1>9
<1>10. k # Idle
    BY <1>3 DEF Idle
<1>11. ASSUME NEW step, NEW job,
              \/ k = [call[c] EXCEPT !.step = step]
              \/ k = [call[c] EXCEPT !.step = step, !.job = job]
       PROVE  k.tick = call[c].tick /\ k.default = call[c].default
    BY <1>4, <1>11 DEF CallOK
<1> QED
    BY <1>5, <1>7, <1>8, <1>9, <1>10, <1>11
       DEF Turns, Owns, CreateJob, SubmitJob

\* What a job was created with stays.
LEMMA ArgStays ==
    ASSUME SubmissionInv, Next, NEW j \in Jobs, jobs[j].state # "none"
    PROVE  jobs'[j].arg = jobs[j].arg
<1>1. ASSUME NEW c \in Callers, CreateJob(c)
      PROVE  jobs'[j].arg = jobs[j].arg
    <2>1. PICK i : i = Cardinality(Created) + 1
        OBVIOUS
    <2>2. i \notin Created
        BY <2>1, CreatedIsCounted
    <2>3. j # i
        BY <2>2 DEF Created
    <2>4. PICK r : jobs' = [jobs EXCEPT ![i] = r]
        BY <1>1, <2>1 DEF CreateJob
    <2> QED
        BY <2>3, <2>4 DEF SubmissionInv, LegacyTypeOK
<1> QED
    BY <1>1, JobsStay DEF Stays

LEMMA BusyHasJob ==
    ASSUME SubmissionInv, NEW c \in Callers, Busy(call[c])
    PROVE  /\ call[c] \in CallOK /\ call[c].job \in Jobs
           /\ HandOK(call[c], jobs[call[c].job])
           /\ jobs[call[c].job].state # "none"
<1>1. call[c] \in CallOK
    BY DEF SubmissionInv, LegacyTypeOK
<1>2. call[c].job \in Jobs /\ HandOK(call[c], jobs[call[c].job])
    BY DEF SubmissionInv, Directories, InHand
<1>3. Owns(call[c]) \/ call[c].step = "wait"
    BY <1>1 DEF CallOK, Owns, Busy
<1> QED
    BY <1>1, <1>2, <1>3 DEF HandOK, Begun

LEMMA ArgIsKept ==
    ASSUME SubmissionInv, ArgKept, Next
    PROVE  ArgKept'
<1>1. SUFFICES ASSUME NEW c \in Callers, NEW k, k = call'[c], Busy(k)
               PROVE  jobs'[k.job].arg = k.arg
    BY DEF ArgKept, Busy
<1>2. call \in [Callers -> CallOK]
    BY DEF SubmissionInv, LegacyTypeOK
<1>3. Turns(c, k)
    BY <1>1, <1>2, CallTurns
<1>4. CASE Busy(call[c]) /\ k.job = call[c].job /\ k.arg = call[c].arg
    BY <1>4, BusyHasJob, ArgStays DEF ArgKept
<1>5. CASE k = call[c]
    BY <1>1, <1>4, <1>5
<1>6. ASSUME NEW step, k = [call[c] EXCEPT !.step = step]
      PROVE  k.job = call[c].job /\ k.arg = call[c].arg
    BY <1>2, <1>6 DEF CallOK
<1>7. CASE /\ CreateJob(c)
           /\ k = [call[c] EXCEPT !.step = "token",
                                  !.job = Cardinality(Created) + 1]
    <2>1. PICK j : j = Cardinality(Created) + 1
        OBVIOUS
    <2>2. j \in Jobs
        BY <1>7, <2>1, CreatedIsCounted, LegacyAssumption DEF CreateJob, Jobs
    <2>3. PICK r : r = [NoJob EXCEPT !.state = "CONFIGURING",
                                     !.op = call[c].op, !.arg = call[c].arg]
        OBVIOUS
    <2>4. jobs' = [jobs EXCEPT ![j] = r]
        BY <1>7, <2>1, <2>3 DEF CreateJob
    <2>5. jobs'[j] = r
        BY <2>2, <2>4 DEF SubmissionInv, LegacyTypeOK
    <2>6. r.arg = call[c].arg
        BY <2>3 DEF NoJob
    <2>7. k.job = j /\ k.arg = call[c].arg
        BY <1>2, <1>7, <2>1 DEF CallOK
    <2> QED
        BY <2>5, <2>6, <2>7
<1>8. k # Idle /\ k.step # "create"
    BY <1>1 DEF Idle, Busy
<1>9. Owns(call[c]) \/ SubmitJob(c) => Busy(call[c])
    BY DEF Owns, SubmitJob, Busy
<1> QED
    BY <1>3, <1>4, <1>5, <1>6, <1>7, <1>8, <1>9 DEF Turns

-----------------------------------------------------------------------------
\* A call that waits either did before or has only now submitted its job.
LEMMA WaitFrom ==
    ASSUME SubmissionInv, Next, NEW c \in Callers, call'[c].step = "wait"
    PROVE  \/ call'[c] = call[c]
           \/ SubmitJob(c) /\ call'[c] = [call[c] EXCEPT !.step = "wait"]
<1>1. call[c] \in CallOK
    BY DEF SubmissionInv, LegacyTypeOK
<1>2. Turns(c, call'[c])
    BY CallTurns DEF SubmissionInv, LegacyTypeOK
<1>3. PICK k : k = call'[c]
    OBVIOUS
<1>4. k # Idle /\ k.step # "create"
    BY <1>3 DEF Idle
<1>5. \A step : k = [call[c] EXCEPT !.step = step] => step = "wait"
    BY <1>1, <1>3 DEF CallOK
<1>6. \A job : k # [call[c] EXCEPT !.step = "token", !.job = job]
    BY <1>1, <1>3 DEF CallOK
<1> QED
    BY <1>2, <1>3, <1>4, <1>5, <1>6 DEF Turns

\* Only the end of a command in the service finishes a job.
Ended(j) ==
    /\ Save /\ j = serving.job
    /\ \/ Served.op \notin Caches /\ jobs'[j].answer = serving.value
       \/ /\ Served.op \in Caches
          /\ Live(Served.op, StoreKey(Served.arg))
          /\ jobs'[j].answer = store[Served.op][StoreKey(Served.arg)].set

LEMMA FinishedFrom ==
    ASSUME SubmissionInv, Next, NEW j \in Jobs, jobs'[j].state = "FINISHED"
    PROVE  \/ jobs[j].state = "FINISHED" /\ jobs'[j].answer = jobs[j].answer
           \/ Ended(j)
<1>1. jobs \in [Jobs -> JobOK]
    BY DEF SubmissionInv, LegacyTypeOK
<1> DEFINE Same == /\ jobs[j].state = "FINISHED"
                   /\ jobs'[j].answer = jobs[j].answer
<1>2. CASE jobs' = jobs
    BY <1>2
<1>3. ASSUME NEW i, NEW r, jobs' = [jobs EXCEPT ![i] = r],
             i \in Jobs /\ r.state = "FINISHED" =>
                 /\ jobs[i].state = "FINISHED"
                 /\ r.answer = jobs[i].answer
      PROVE  Same
    <2>1. CASE i = j
        BY <1>1, <1>3, <2>1
    <2>2. CASE i # j
        BY <1>1, <1>3, <2>2
    <2> QED
        BY <2>1, <2>2
<1>4. ASSUME NEW i, NEW state, state # "FINISHED",
             jobs' = [jobs EXCEPT ![i].state = state]
      PROVE  Same
    <2>1. PICK r : r = [jobs[i] EXCEPT !.state = state]
        OBVIOUS
    <2>2. jobs' = [jobs EXCEPT ![i] = r]
        BY <1>4, <2>1
    <2>3. i \in Jobs => r.state # "FINISHED"
        BY <1>1, <1>4, <2>1 DEF JobOK
    <2> QED
        BY <1>3, <2>2, <2>3
<1>5. ASSUME NEW i, NEW token, NEW up,
             jobs' = [jobs EXCEPT ![i] = [jobs[i] EXCEPT !.token = token,
                                                         !.up = up]]
      PROVE  Same
    <2>1. PICK r : r = [jobs[i] EXCEPT !.token = token, !.up = up]
        OBVIOUS
    <2>2. jobs' = [jobs EXCEPT ![i] = r]
        BY <1>5, <2>1
    <2>3. i \in Jobs => r.state = jobs[i].state /\ r.answer = jobs[i].answer
        BY <1>1, <2>1 DEF JobOK
    <2> QED
        BY <1>3, <2>2, <2>3
<1>6. ASSUME NEW i, NEW up,
             jobs' = [jobs EXCEPT ![i] = [jobs[i] EXCEPT !.up = up]]
      PROVE  Same
    <2>1. PICK r : r = [jobs[i] EXCEPT !.up = up]
        OBVIOUS
    <2>2. jobs' = [jobs EXCEPT ![i] = r]
        BY <1>6, <2>1
    <2>3. i \in Jobs => r.state = jobs[i].state /\ r.answer = jobs[i].answer
        BY <1>1, <2>1 DEF JobOK
    <2> QED
        BY <1>3, <2>2, <2>3
<1>7. ASSUME NEW i, NEW f, NEW stage, Mark(i, f, stage)
      PROVE  Same
    <2>1. PICK up : up = [jobs[i].up EXCEPT ![f] = stage]
        OBVIOUS
    <2>2. jobs' = [jobs EXCEPT ![i] = [jobs[i] EXCEPT !.up = up]]
        BY <1>7, <2>1 DEF Mark
    <2> QED
        BY <1>6, <2>2
<1>8. CASE FailToFetch
    <2>1. PICK i : i = serving.job
        OBVIOUS
    <2>2. PICK r : r = IF jobs[i].state = "RUNNING"
                       THEN [jobs[i] EXCEPT !.state = "FAILED", !.answer = 0]
                       ELSE jobs[i]
        OBVIOUS
    <2>3. jobs' = [jobs EXCEPT ![i] = r]
        BY <1>8, <2>1, <2>2 DEF FailToFetch, Conclude, Served
    <2>4. i \in Jobs /\ r.state = "FINISHED" => r = jobs[i]
        BY <1>1, <2>2 DEF JobOK
    <2> QED
        BY <1>3, <2>3, <2>4
<1>9. CASE Save
    <2>1. PICK i \in Jobs : i = serving.job
        BY <1>9 DEF SubmissionInv, ServedOK, Save
    <2>2. PICK state, answer :
              /\ Conclude(state, answer)
              /\ \/ state = "FAILED"
                 \/ /\ Served.op \notin Caches
                    /\ answer = serving.value
                 \/ /\ Served.op \in Caches
                    /\ Live(Served.op, StoreKey(Served.arg))
                    /\ answer = store[Served.op][StoreKey(Served.arg)].set
        BY <1>9 DEF Save
    <2>3. PICK r : r = IF jobs[i].state = "RUNNING"
                       THEN [jobs[i] EXCEPT !.state = state,
                                            !.answer = answer]
                       ELSE jobs[i]
        OBVIOUS
    <2>4. jobs' = [jobs EXCEPT ![i] = r]
        BY <2>1, <2>2, <2>3 DEF Conclude, Served
    <2>5. \/ r = jobs[i]
          \/ r.state = state /\ r.answer = answer
        BY <1>1, <2>3 DEF JobOK
    <2>6. CASE i = j /\ r.state = state /\ r.answer = answer
        <3>1. jobs'[j] = r
            BY <1>1, <2>4, <2>6
        <3> QED
            BY <1>9, <2>1, <2>2, <2>6, <3>1 DEF Ended
    <2>7. CASE i # j \/ r = jobs[i]
        <3>1. jobs'[j] = jobs[j]
            BY <1>1, <2>4, <2>7
        <3> QED
            BY <3>1
    <2> QED
        BY <2>5, <2>6, <2>7
<1>10. CASE \E c \in Callers : Start(c)
    BY <1>2, <1>10 DEF Start, Login, Close, RunCircuits, InitBackend,
       GetPulla, GetCalibrationSet, GetDynamicArchitecture, Begin
<1>11. ASSUME NEW c \in Callers, Step(c)
       PROVE  Same
    <2>1. CASE CreateJob(c)
        <3>1. PICK r : r = [NoJob EXCEPT !.state = "CONFIGURING",
                                         !.op = call[c].op,
                                         !.arg = call[c].arg]
            OBVIOUS
        <3>2. r.state = "CONFIGURING"
            BY <3>1 DEF NoJob
        <3>3. \E i : jobs' = [jobs EXCEPT ![i] = r]
            BY <2>1, <3>1 DEF CreateJob
        <3> QED
            BY <1>3, <3>2, <3>3
    <2>2. CASE UploadToken(c)
        <3>1. PICK up : up = [f \in Files |-> IF f \in Needed(call[c].op)
                                              THEN "queued" ELSE "none"]
            OBVIOUS
        <3>2. jobs' = [jobs EXCEPT ![call[c].job] =
                  [jobs[call[c].job] EXCEPT !.token = TRUE, !.up = up]]
            BY <1>1, <2>2, <3>1, OwnerIsAlone DEF UploadToken, Owns
        <3> QED
            BY <1>5, <3>2
    <2>3. CASE Cancel(c)
        <3>1. PICK up : up = [f \in Files |->
                                 IF f \in In(c, "queued") THEN "cancelled"
                                 ELSE jobs[call[c].job].up[f]]
            OBVIOUS
        <3>2. jobs' = [jobs EXCEPT ![call[c].job] =
                  [jobs[call[c].job] EXCEPT !.up = up]]
            BY <2>3, <3>1 DEF Cancel
        <3> QED
            BY <1>6, <3>2
    <2>4. CASE \E f \in Files : StartUpload(c, f)
        BY <1>7, <2>4 DEF StartUpload
    <2>5. CASE SubmitJob(c)
        BY <1>4, <2>5 DEF SubmitJob
    <2>6. CASE \/ FailToCreate(c) \/ FailToUploadToken(c) \/ Gather(c)
               \/ Raise(c) \/ FailRequest(c) \/ Answer(c)
               \/ ResultsFailed(c)
        BY <1>2, <2>6 DEF FailToCreate, FailToUploadToken, Gather, Raise,
           FailRequest, Answer, ResultsFailed
    <2> QED
        BY <1>11, <2>1, <2>2, <2>3, <2>4, <2>5, <2>6 DEF Step
<1>12. CASE \E i \in Jobs : Pool(i) \/ HEAppE(i)
    BY <1>4, <1>7, <1>12 DEF Pool, HEAppE, EndUpload, StartJob, Kill
<1>13. CASE \/ \E i \in Jobs : TakeJob(i)
            \/ LookUp \/ Fetch \/ Recalibrate \/ Tick
    BY <1>2, <1>13 DEF TakeJob, LookUp, Fetch, Recalibrate, Tick, clients
<1> QED
    BY <1>8, <1>9, <1>10, <1>11, <1>12, <1>13 DEF Next, Service

-----------------------------------------------------------------------------
LEMMA AwaitedJob ==
    ASSUME SubmissionInv, ArgKept, NEW c \in Callers, Awaits(call[c])
    PROVE  /\ call[c] \in CallOK /\ call[c].job \in Jobs
           /\ jobs[call[c].job].op = call[c].op
           /\ jobs[call[c].job].arg = None
<1>1. Busy(call[c])
    BY DEF Awaits, Busy
<1> QED
    BY <1>1, BusyHasJob DEF ArgKept, Awaits, HandOK

\* A call that has only now submitted its job is not answered yet, and the
\* service is not at it.
LEMMA SubmittedIsNew ==
    ASSUME SubmissionInv, NEW c \in Callers, SubmitJob(c)
    PROVE  /\ jobs'[call[c].job].state = "QUEUED"
           /\ ~(serving'.step = "save" /\ serving'.job = call[c].job)
<1>1. PICK j \in Jobs : j = call[c].job /\ jobs[j].state = "CONFIGURING"
    BY OwnerIsAlone DEF SubmitJob, Owns, HandOK
<1>2. jobs'[j].state = "QUEUED" /\ serving' = serving
    BY <1>1 DEF SubmitJob, SubmissionInv, LegacyTypeOK, JobOK, service
<1>3. ~(serving.step = "save" /\ serving.job = j)
    BY <1>1 DEF SubmissionInv, ServedOK, Begun
<1> QED
    BY <1>1, <1>2, <1>3

\* What was saved before a step is still in the cache after it, if the key is.
LEMMA StoreStays ==
    ASSUME StoreOK, Next, ~Fetch, NEW k \in Caches, 0 \in DOMAIN store'[k]
    PROVE  0 \in DOMAIN store[k] /\ store'[k][0] = store[k][0]
<1>1. CASE UNCHANGED store
    BY <1>1
<1>2. CASE Tick
    <2>1. PICK T \in SUBSET DOMAIN store[k] :
              store'[k] = [s \in T |-> store[k][s]]
        BY <1>2 DEF Tick
    <2> QED
        BY <2>1
<1>3. CASE \E c \in Callers : Start(c)
    BY <1>1, <1>3 DEF Start, Login, Close, RunCircuits, InitBackend,
       GetPulla, GetCalibrationSet, GetDynamicArchitecture, Begin, service
<1>4. CASE \E c \in Callers : Step(c)
    BY <1>1, <1>4 DEF Step, CreateJob, FailToCreate, UploadToken,
       FailToUploadToken, StartUpload, Gather, Cancel, Raise, SubmitJob,
       FailRequest, Answer, ResultsFailed, service
<1>5. CASE \E j \in Jobs : Pool(j) \/ HEAppE(j)
    BY <1>1, <1>5 DEF Pool, HEAppE, EndUpload, StartJob, Kill, service
<1>6. CASE \/ \E j \in Jobs : TakeJob(j)
           \/ LookUp \/ FailToFetch \/ Save \/ Recalibrate
    BY <1>1, <1>6 DEF TakeJob, LookUp, FailToFetch, Save, Recalibrate,
       service
<1> QED
    BY <1>2, <1>3, <1>4, <1>5, <1>6 DEF Next, Service

LEMMA SavingFrom ==
    ASSUME SubmissionInv, Next, serving'.step = "save"
    PROVE  \/ serving' = serving /\ ~Fetch
           \/ LookUp /\ serving'.job = serving.job
              /\ Served.op \in Caches
              /\ Live(Served.op, LookUpKey(Served.op, Served.arg))
           \/ Fetch /\ serving'.job = serving.job /\ serving'.value = Fetched
<1>1. ServingOK
    BY TypeIsParts DEF SubmissionInv
<1>2. CASE Fetch
    BY <1>1, <1>2 DEF Fetch, ServingOK
<1>3. CASE LookUp
    BY <1>1, <1>3 DEF LookUp, ServingOK
<1>4. CASE FailToFetch \/ Save \/ \E j \in Jobs : TakeJob(j)
    BY <1>4 DEF FailToFetch, Save, Conclude, Resting, TakeJob
<1>5. CASE ~Fetch /\ (Recalibrate \/ Tick)
    BY <1>5 DEF Recalibrate, Tick, service
<1>6. CASE ~Fetch /\ \E c \in Callers : Start(c)
    BY <1>6 DEF Start, Login, Close, RunCircuits, InitBackend, GetPulla,
       GetCalibrationSet, GetDynamicArchitecture, Begin, service
<1>7. CASE ~Fetch /\ \E c \in Callers : Step(c)
    BY <1>7 DEF Step, CreateJob, FailToCreate, UploadToken,
       FailToUploadToken, StartUpload, Gather, Cancel, Raise, SubmitJob,
       FailRequest, Answer, ResultsFailed, service
<1>8. CASE ~Fetch /\ \E j \in Jobs : Pool(j) \/ HEAppE(j)
    BY <1>8 DEF Pool, HEAppE, EndUpload, StartJob, Kill, service
<1> QED
    BY <1>2, <1>3, <1>4, <1>5, <1>6, <1>7, <1>8 DEF Next, Service

LEMMA SavingStaysOK ==
    ASSUME FreshInv, Next
    PROVE  SavingOK'
<1>1. SubmissionInv /\ ArgKept /\ Ascending /\ SavingOK /\ Past
    BY DEF FreshInv
<1>2. StoreOK
    BY <1>1, TypeIsParts DEF SubmissionInv
<1>3. SUFFICES ASSUME NEW c \in Callers, Awaits(call'[c]),
                      serving'.step = "save", serving'.job = call'[c].job
               PROVE  /\ call'[c].op = "set" /\ 0 \in DOMAIN store'["set"]
                           => store'["set"][0].set >= call'[c].default
                      /\ call'[c].op \in {"init", "pulla"} =>
                             serving'.value >= call'[c].default
    BY DEF SavingOK, Awaits
<1>4. call'[c] = call[c]
    <2>1. CASE SubmitJob(c) /\ call'[c] = [call[c] EXCEPT !.step = "wait"]
        <3>1. call'[c].job = call[c].job
            BY <1>1, <2>1 DEF SubmissionInv, LegacyTypeOK, CallOK
        <3> QED
            BY <1>1, <1>3, <2>1, <3>1, SubmittedIsNew
    <2> QED
        BY <1>1, <1>3, <2>1, WaitFrom DEF Awaits
<1>5. /\ call[c] \in CallOK /\ call[c].job \in Jobs /\ Awaits(call[c])
      /\ jobs[call[c].job].op = call[c].op
      /\ jobs[call[c].job].arg = None
    BY <1>1, <1>3, <1>4, AwaitedJob
<1>6. CASE serving' = serving /\ ~Fetch
    <2>1. 0 \in DOMAIN store'["set"] =>
              0 \in DOMAIN store["set"] /\ store'["set"][0] = store["set"][0]
        BY <1>2, <1>6, StoreStays DEF Caches
    <2> QED
        BY <1>1, <1>3, <1>4, <1>5, <1>6, <2>1 DEF SavingOK
<1>7. CASE /\ LookUp /\ serving'.job = serving.job
           /\ Served.op \in Caches
           /\ Live(Served.op, LookUpKey(Served.op, Served.arg))
    <2>1. Served.op = call[c].op /\ Served.arg = None
        BY <1>3, <1>4, <1>5, <1>7 DEF Served
    <2>2. Served.op # "set"
        <3>1. CASE Served.op = "set"
            <4>1. None \in DOMAIN store["set"]
                BY <1>7, <2>1, <3>1 DEF Live, LookUpKey
            <4>2. None \in Sets \cup {0}
                BY <1>2, <4>1 DEF StoreOK, Caches
            <4> QED
                BY <4>2, LegacyAssumption DEF Sets
        <3> QED
            BY <3>1
    <2> QED
        BY <1>4, <1>7, <2>1, <2>2 DEF Caches
<1>8. CASE Fetch /\ serving'.job = serving.job /\ serving'.value = Fetched
    <2>1. Served.op = call[c].op /\ Served.arg = None
        BY <1>3, <1>4, <1>5, <1>8 DEF Served
    <2>2. call[c].default <= current
        BY <1>1, <1>5 DEF Past, Awaits
    <2>3. /\ current \in Nat /\ call[c].default \in Nat
          /\ current >= call[c].default
        BY <1>1, <1>5, <2>2, LegacyAssumption
           DEF SubmissionInv, LegacyTypeOK, CallOK, Sets
    <2>4. CASE call[c].op = "set"
        <3>1. StoreKey(Served.arg) = 0
            BY <2>1 DEF StoreKey, KeyOf
        <3>2. Served.op = "set" /\ "set" \in Caches
            BY <2>1, <2>4 DEF Caches
        <3>3. 0 \in DOMAIN store'["set"] => store'["set"][0] = Entry(0)
            BY <1>2, <1>8, <3>1, <3>2, StoreAfterFetch
        <3>4. Entry(0).set = current
            BY <1>1, <1>8, <3>1, <3>2, FetchKeepsDefault
        <3> QED
            BY <1>4, <2>3, <2>4, <3>3, <3>4
    <2>5. CASE call[c].op \in {"init", "pulla"}
        <3>1. Fetched = current
            BY <2>1, <2>5 DEF Fetched, DefaultSet
        <3> QED
            BY <1>4, <1>8, <2>3, <2>5, <3>1
    <2>6. CASE call[c].op \notin {"set", "init", "pulla"}
        BY <1>4, <2>6
    <2> QED
        BY <2>4, <2>5, <2>6
<1> QED
    BY <1>1, <1>3, <1>6, <1>7, <1>8, SavingFrom

\* An entry that is alive is as fresh as an architecture has to be.
LEMMA LiveIsFresh ==
    ASSUME CountsOK, Ascending, NEW e, EntryOK(e), e.set \in Sets,
           now < e.until, NEW tick \in 0..now
    PROVE  e.set >= Oldest(tick)
<1>1. PICK t \in 0..now : e.until = t + TTL /\ e.set >= history[t + 1]
    BY DEF EntryOK
<1>2. /\ now \in Nat /\ TTL \in Nat \ {0} /\ e.set \in Nat /\ e.set >= 1
      /\ \A i \in 1..(now + 1) : history[i] \in Nat
    BY CountsAreNumbers, LegacyAssumption DEF Sets
<1>3. CASE tick + 1 - TTL < 0
    BY <1>2, <1>3 DEF Oldest
<1>4. CASE ~(tick + 1 - TTL < 0)
    <2>1. PICK i : i = tick + 2 - TTL
        OBVIOUS
    <2>2. i \in 1..(now + 1) /\ t + 1 \in 1..(now + 1) /\ i <= t + 1
        BY <1>1, <1>2, <1>4, <2>1
    <2>3. history[i] <= history[t + 1]
        BY <2>2 DEF Ascending
    <2>4. history[i] \in Nat /\ history[t + 1] \in Nat
        BY <1>2, <2>2
    <2>5. Oldest(tick) = history[i]
        BY <1>4, <2>1 DEF Oldest
    <2> QED
        BY <1>1, <1>2, <2>3, <2>4, <2>5
<1> QED
    BY <1>3, <1>4

LEMMA EndedIsOwed ==
    ASSUME FreshInv, NEW c \in Callers, Awaits(call[c]),
           Ended(call[c].job)
    PROVE  jobs'[call[c].job].answer >= Owed(call[c])
<1>1. SubmissionInv /\ ArgKept /\ Ascending /\ SavingOK /\ Past /\ EntriesOK
    BY DEF FreshInv
<1>2. StoreOK /\ CountsOK
    BY <1>1, TypeIsParts DEF SubmissionInv
<1>3. /\ call[c] \in CallOK
      /\ Served.op = call[c].op /\ Served.arg = None
      /\ serving.job = call[c].job /\ serving.step = "save"
    BY <1>1, AwaitedJob DEF Ended, Save, Served
<1>4. StoreKey(Served.arg) = 0
    BY <1>3 DEF StoreKey, KeyOf
<1>5. CASE call[c].op \in {"init", "pulla"}
    <2>1. jobs'[call[c].job].answer = serving.value
        BY <1>3, <1>5 DEF Ended, Caches
    <2>2. serving.value >= call[c].default
        BY <1>1, <1>3, <1>5 DEF SavingOK
    <2> QED
        BY <1>5, <2>1, <2>2 DEF Owed
<1>6. CASE call[c].op \in Caches
    <2>1. PICK k \in Caches : k = call[c].op
        BY <1>6
    <2>2. PICK e : e = store[k][0]
        OBVIOUS
    <2>3. /\ 0 \in DOMAIN store[k] /\ now < e.until
          /\ jobs'[call[c].job].answer = e.set
        BY <1>3, <1>4, <2>1, <2>2 DEF Ended, Live
    <2>4. CASE k = "set"
        <3>1. e.set >= call[c].default
            BY <1>1, <1>3, <2>1, <2>2, <2>3, <2>4 DEF SavingOK
        <3> QED
            BY <2>1, <2>3, <2>4, <3>1 DEF Owed
    <2>5. CASE k = "arch"
        <3>1. EntryOK(e) /\ e.set \in Sets
            BY <1>1, <1>2, <2>2, <2>3 DEF EntriesOK, StoreOK
        <3>2. call[c].tick \in 0..now
            <4>1. call[c].tick <= now
                BY <1>1 DEF Past, Awaits
            <4>2. call[c].tick \in Nat /\ now \in Nat
                BY <1>2, <1>3, LegacyAssumption, CountsAreNumbers DEF CallOK
            <4> QED
                BY <4>1, <4>2
        <3>3. e.set >= Oldest(call[c].tick)
            BY <1>1, <1>2, <2>3, <3>1, <3>2, LiveIsFresh
        <3> QED
            BY <2>1, <2>3, <2>5, <3>3 DEF Owed
    <2> QED
        BY <2>4, <2>5 DEF Caches
<1> QED
    BY <1>5, <1>6 DEF Awaits, Unnamed, Caches

LEMMA AnswersStayOK ==
    ASSUME FreshInv, Next
    PROVE  AnswersOK'
<1>1. SubmissionInv /\ ArgKept /\ Ascending /\ AnswersOK /\ Past
    BY DEF FreshInv
<1>2. SUFFICES ASSUME NEW c \in Callers, NEW k, k = call'[c], Awaits(k),
                      jobs'[k.job].state = "FINISHED"
               PROVE  jobs'[k.job].answer >= Owed(k)'
    BY DEF AnswersOK, Awaits, Owed, Oldest
<1>3. k = call[c]
    <2>1. CASE SubmitJob(c) /\ k = [call[c] EXCEPT !.step = "wait"]
        <3>1. k.job = call[c].job
            BY <1>1, <2>1 DEF SubmissionInv, LegacyTypeOK, CallOK
        <3> QED
            BY <1>1, <1>2, <2>1, <3>1, SubmittedIsNew
    <2> QED
        BY <1>1, <1>2, <2>1, WaitFrom DEF Awaits
<1>4. k.job \in Jobs /\ k \in CallOK
    BY <1>1, <1>2, <1>3, AwaitedJob
<1>5. Owed(k)' = Owed(k)
    <2>1. /\ CountsOK
          /\ \A i \in 1..(now + 1) : history'[i] = history[i]
        BY <1>1, OutsideGoesOn
    <2>2. now \in Nat /\ TTL \in Nat \ {0} /\ k.tick \in Nat
        BY <1>4, <2>1, CountsAreNumbers, LegacyAssumption DEF CallOK
    <2>3. k.tick <= now
        BY <1>1, <1>2, <1>3 DEF Past, Awaits
    <2>4. PICK i : i = k.tick + 2 - TTL
        OBVIOUS
    <2>5. ~(k.tick + 1 - TTL < 0) => i \in 1..(now + 1)
        BY <2>2, <2>3, <2>4
    <2>6. ~(k.tick + 1 - TTL < 0) => history'[i] = history[i]
        BY <2>1, <2>5
    <2>7. Oldest(k.tick)' = Oldest(k.tick)
        BY <2>4, <2>6 DEF Oldest
    <2> QED
        BY <2>7 DEF Owed
<1>6. CASE /\ jobs[k.job].state = "FINISHED"
           /\ jobs'[k.job].answer = jobs[k.job].answer
    BY <1>1, <1>2, <1>3, <1>5, <1>6 DEF AnswersOK
<1>7. CASE Ended(k.job)
    BY <1>2, <1>3, <1>5, <1>7, EndedIsOwed
<1> QED
    BY <1>1, <1>2, <1>4, <1>6, <1>7, FinishedFrom

LEMMA FreshInit ==
    ASSUME Init
    PROVE  FreshInv
<1>1. SubmissionInv
    BY SubmissionInit
<1>2. Ascending /\ Past
    BY DEF Init, Ascending, Past, Idle
<1>3. EntriesOK
    BY DEF Init, EntriesOK, Caches
<1>4. ArgKept /\ AnswersOK /\ SavingOK
    BY DEF Init, ArgKept, AnswersOK, SavingOK, Busy, Awaits, Idle
<1> QED
    BY <1>1, <1>2, <1>3, <1>4 DEF FreshInv

LEMMA FreshNext ==
    ASSUME FreshInv, [Next]_vars
    PROVE  FreshInv'
<1>1. CASE Next
    <2>1. SubmissionInv'
        BY <1>1, SubmissionNext DEF FreshInv
    <2>2. Ascending' /\ EntriesOK' /\ ArgKept' /\ Past'
        BY <1>1, OutsideGoesOn, EntriesStayOK, ArgIsKept, PastIsKept
           DEF FreshInv
    <2>3. AnswersOK' /\ SavingOK'
        BY <1>1, AnswersStayOK, SavingStaysOK
    <2> QED
        BY <2>1, <2>2, <2>3 DEF FreshInv
<1>2. CASE UNCHANGED vars
    <2>1. SubmissionInv'
        BY <1>2, SubmissionNext DEF FreshInv
    <2>2. Ascending' /\ EntriesOK' /\ ArgKept' /\ Past'
        BY <1>2 DEF vars, outside, FreshInv, clients, service, Ascending,
           EntriesOK, EntryOK, ArgKept, Past
    <2>3. AnswersOK' /\ SavingOK'
        BY <1>2 DEF vars, outside, FreshInv, clients, service, AnswersOK,
           SavingOK, Owed, Oldest
    <2> QED
        BY <2>1, <2>2, <2>3 DEF FreshInv
<1> QED
    BY <1>1, <1>2

LEMMA FreshHolds == Spec => []FreshInv
BY FreshInit, FreshNext, PTL DEF Spec

\* Whatever the service keeps, for however long, and however often the
\* computer is recalibrated: `get_calibration_set' without a name, a new
\* backend and a new Pulla are given a default set no older than their call,
\* because the service looks its sets up under a key it never keeps one under.
THEOREM DefaultSetIsAlwaysCurrent == Spec => []DefaultSetIsCurrent
<1>1. FreshInv => DefaultSetIsCurrent
    BY DEF FreshInv, AnswersOK, Awaits, Unnamed, Owed, Waited, Job,
       DefaultSetIsCurrent
<1> QED
    BY <1>1, FreshHolds, PTL

\* `get_dynamic_quantum_architecture' without a name may be answered from the
\* service's cache, but never with what was outdated for longer than an entry
\* lives when the call began.
THEOREM ArchitectureAgeIsAlwaysBounded == Spec => []ArchitectureAgeIsBounded
<1>1. ASSUME FreshInv, NEW c \in Callers, Waited(c, "arch"),
             NEW oldest, oldest = call[c].tick + 1 - TTL
      PROVE  Job(c).answer >= (IF oldest < 0 THEN 1 ELSE history[oldest + 1])
    <2>1. Awaits(call[c])
        BY <1>1 DEF Waited, Awaits, Unnamed
    <2>2. jobs[call[c].job].answer >= Oldest(call[c].tick)
        BY <1>1, <2>1 DEF FreshInv, AnswersOK, Waited, Job, Owed
    <2>3. call[c].tick \in Int /\ TTL \in Int
        BY <1>1, LegacyAssumption
           DEF FreshInv, SubmissionInv, LegacyTypeOK, CallOK
    <2>4. oldest + 1 = call[c].tick + 2 - TTL
        BY <1>1, <2>3
    <2> QED
        BY <1>1, <2>2, <2>4 DEF Oldest, Job
<1>2. FreshInv => ArchitectureAgeIsBounded
    BY <1>1 DEF ArchitectureAgeIsBounded
<1> QED
    BY <1>2, FreshHolds, PTL

-----------------------------------------------------------------------------
(***************************************************************************)
(* The login.  Each list is searched for its first element of a kind; what *)
(* is found is in the list and of the kind.                                *)
(***************************************************************************)
LEMMA LeastIsIn ==
    ASSUME NEW n \in Nat, NEW I, I \subseteq 1..n, I # {}
    PROVE  Min(I) \in I
<1>1. I \subseteq Nat
    OBVIOUS
<1>2. PICK x \in I : \A y \in I : ~ (<<y, x>> \in OpToRel(<, Nat))
    BY <1>1, NatLessThanWellFounded, WFMin
<1>3. \A y \in I : <<y, x>> \in Nat \X Nat
    BY <1>1
<1>4. \A y \in I : ~ (y < x)
    BY <1>2, <1>3 DEF OpToRel
<1>5. \A y \in I : x <= y
    BY <1>1, <1>4
<1> QED
    BY <1>5 DEF Min

\* What the search of a list for the places in `I' ends with.
Found(s, I) ==
    LET i == IF I # {} THEN Min(I) ELSE 0 IN IF i = 0 THEN None ELSE s[i]

LEMMA FoundIsIn ==
    ASSUME NEW s, List(s), NEW I, I \subseteq 1..Len(s), Found(s, I) # None
    PROVE  \E i \in I : Found(s, I) = s[i] /\ s[i] \in Range(s)
<1>1. Len(s) \in Nat /\ DOMAIN s = 1..Len(s)
    BY DEF List
<1>2. I # {} /\ Found(s, I) = s[Min(I)]
    BY DEF Found
<1>3. Min(I) \in I
    BY <1>1, <1>2, LeastIsIn
<1> QED
    BY <1>1, <1>2, <1>3 DEF Range

\* What an automatic choice needs, and a choice by name.
Fitting(a, r) ==
    /\ r.assignments # <<>>
    /\ r.quantum
    /\ r.kind \in Kinds
    /\ a.computer \in {None, r.kind}

LEMMA AutomaticFits ==
    ASSUME NEW a, AnswerOK(a), Automatic(a)[2] # None
    PROVE  \E r \in Range(a.resources) : \E s \in Range(r.assignments) :
               Automatic(a) = <<r, s>> /\ r.quantum /\ r.kind \in Kinds
<1>1. PICK I : I = {i \in 1..Len(a.resources) : Fitting(a, a.resources[i])}
    OBVIOUS
<1>2. PICK r : /\ r = Found(a.resources, I)
               /\ Automatic(a) = IF r = None THEN <<None, None>>
                                 ELSE <<r, Head(r.assignments)>>
    BY <1>1 DEF Automatic, FirstOf, SelectInSeq, Found, Fitting
<1>3. r # None /\ Automatic(a) = <<r, Head(r.assignments)>>
    BY <1>2
<1>4. \E i \in I : r = a.resources[i] /\ r \in Range(a.resources)
    BY <1>1, <1>2, <1>3, FoundIsIn DEF AnswerOK
<1>5. r \in Range(a.resources) /\ Fitting(a, r)
    BY <1>1, <1>4
<1>6. Head(r.assignments) \in Range(r.assignments)
  <2>1. PICK s : s = r.assignments
      OBVIOUS
  <2>2. List(s) /\ s # <<>>
      BY <1>5, <2>1 DEF AnswerOK, Fitting
  <2>3. PICK S : s \in Seq(S)
      BY <2>2 DEF List
  <2>4. 1 \in DOMAIN s /\ Head(s) = s[1]
      BY <2>2, <2>3
  <2> QED
      BY <2>1, <2>4 DEF Range
<1> QED
    BY <1>3, <1>5, <1>6 DEF Fitting

LEMMA ByNameFits ==
    ASSUME NEW a, AnswerOK(a), ByName(a)[2] # None
    PROVE  \E r \in Range(a.resources) : \E s \in Range(r.assignments) :
               ByName(a) = <<r, s>> /\ r.name = a.wanted /\ s.kind \in Kinds
<1>1. PICK r : r = Named(a)
    OBVIOUS
<1>2. PICK s : s = Accepted(r)
    OBVIOUS
<1>3. r # None /\ s # None /\ ByName(a) = <<r, s>>
    BY <1>1, <1>2 DEF ByName
<1>4. r \in Range(a.resources) /\ r.name = a.wanted
  <2>1. PICK I : I = {i \in 1..Len(a.resources) :
                          a.resources[i].name = a.wanted}
      OBVIOUS
  <2>2. r = Found(a.resources, I)
      BY <1>1, <2>1 DEF Named, FirstOf, SelectInSeq, Found
  <2> QED
      BY <1>3, <2>1, <2>2, FoundIsIn DEF AnswerOK
<1>5. s \in Range(r.assignments) /\ s.kind \in Kinds
  <2>1. PICK I : I = {i \in 1..Len(r.assignments) :
                          r.assignments[i].kind \in Kinds}
      OBVIOUS
  <2>2. s = Found(r.assignments, I)
      BY <1>2, <2>1 DEF Accepted, FirstOf, SelectInSeq, Found
  <2>3. List(r.assignments)
      BY <1>4 DEF AnswerOK
  <2> QED
      BY <1>3, <2>1, <2>2, <2>3, FoundIsIn
<1> QED
    BY <1>3, <1>4, <1>5

\* A template that is found is where the location of the resource has the
\* project of the resource.
LEMMA PlacementIsThere ==
    ASSUME NEW clusters, List(clusters),
           \A k \in Range(clusters) :
               List(k.nodes) /\ \A n \in Range(k.nodes) : List(n.projects),
           NEW name, NEW location, NEW resource,
           Placement(clusters, name, location, resource) # None
    PROVE  \E k \in Range(clusters) :
               /\ k.name = location
               /\ \E n \in Range(k.nodes) : \E p \in Range(n.projects) :
                   /\ n.queue \in Queues
                   /\ p.accounting = resource
                   /\ name \in p.templates
                   /\ Placement(clusters, name, location, resource)
                          = <<n.queue, p.id>>
<1>1. PICK k : k = ClusterAt(clusters, location)
    OBVIOUS
<1>2. PICK n : n = NodeOf(k, resource)
    OBVIOUS
<1>3. PICK p : p = ProjectOf(n, resource)
    OBVIOUS
<1>4. /\ k # None /\ n # None /\ name \in p.templates
      /\ Placement(clusters, name, location, resource) = <<n.queue, p.id>>
    BY <1>1, <1>2, <1>3 DEF Placement
<1>5. k \in Range(clusters) /\ k.name = location
  <2>1. PICK I : I = {i \in 1..Len(clusters) : clusters[i].name = location}
      OBVIOUS
  <2>2. k = Found(clusters, I)
      BY <1>1, <2>1 DEF ClusterAt, FirstOf, SelectInSeq, Found
  <2> QED
      BY <1>4, <2>1, <2>2, FoundIsIn
<1>6. List(k.nodes)
    BY <1>5
<1>7. /\ n \in Range(k.nodes) /\ n.queue \in Queues
      /\ ProjectOf(n, resource) # None
  <2>1. PICK I : I = {i \in 1..Len(k.nodes) :
                          /\ k.nodes[i].queue \in Queues
                          /\ ProjectOf(k.nodes[i], resource) # None}
      OBVIOUS
  <2>2. n = Found(k.nodes, I)
      BY <1>2, <2>1 DEF NodeOf, FirstOf, SelectInSeq, Found
  <2> QED
      BY <1>4, <1>6, <2>1, <2>2, FoundIsIn
<1>8. p \in Range(n.projects) /\ p.accounting = resource
  <2>1. PICK I : I = {i \in 1..Len(n.projects) :
                          n.projects[i].accounting = resource}
      OBVIOUS
  <2>2. p = Found(n.projects, I) /\ p # None
      BY <1>3, <1>7, <2>1 DEF ProjectOf, FirstOf, SelectInSeq, Found
  <2>3. List(n.projects)
      BY <1>5, <1>7
  <2> QED
      BY <2>1, <2>2, <2>3, FoundIsIn
<1> QED
    BY <1>4, <1>5, <1>7, <1>8

LEMMA ReadyIsSound ==
    ASSUME NEW a, AnswerOK(a), Outcome(a) = "ready"
    PROVE  LET here == Site(a)
           IN  /\ Trusted(a.token) /\ a.member
               /\ \E r \in Range(a.resources) :
                  \E s \in Range(r.assignments) :
                   /\ <<r.name, s.location, s.url>> =
                          <<here.resource, here.location, here.url>>
                   /\ r.window \notin {"undated", "early", "over"}
                   /\ IF a.wanted = None
                      THEN r.quantum /\ r.kind \in Kinds
                      ELSE r.name = a.wanted /\ s.kind \in Kinds
                   /\ SubSeq(a.machine[s.url].version, 1, 2) =
                          SubSeq(Version, 1, 2)
               /\ \A base \in Bases : \E scoped \in BOOLEAN :
                   \E k \in Range(a.clusters[<<scoped, base>>]) :
                       /\ k.name = here.location
                       /\ \E n \in Range(k.nodes) :
                          \E p \in Range(n.projects) :
                           /\ n.queue \in Queues
                           /\ p.accounting = here.resource
                           /\ <<scoped, base>> \in p.templates
                           /\ here.template[base] = <<n.queue, p.id>>
<1>1. /\ Trusted(a.token) /\ a.member
      /\ Authorization(a) = "metadata"
      /\ Compatible(Machine(a).version)
      /\ \A base \in Bases : Template(a, base) # None
    BY DEF Outcome, Member, Authorization
<1>2. /\ Chosen(a)[2] # None
      /\ Chosen(a)[1].window \in {"open", "garbled"}
      /\ Chosen(a)[2].url # None
      /\ Machine(a).version # None
    BY <1>1 DEF Authorization
<1>3. PICK r, s :
          /\ r \in Range(a.resources) /\ s \in Range(r.assignments)
          /\ Chosen(a) = <<r, s>>
          /\ IF a.wanted = None THEN r.quantum /\ r.kind \in Kinds
                                ELSE r.name = a.wanted /\ s.kind \in Kinds
    BY <1>2, AutomaticFits, ByNameFits DEF Chosen
<1>4. PICK v : v = a.machine[s.url].version
    OBVIOUS
<1>5. v \in Seq(Nat) /\ Compatible(v)
    BY <1>1, <1>2, <1>3, <1>4 DEF AnswerOK, Machine
<1>6. SubSeq(v, 1, 2) = SubSeq(Version, 1, 2)
    BY <1>5, LoginAssumption DEF Compatible
<1>7. ASSUME NEW base \in Bases
      PROVE  \E scoped \in BOOLEAN :
             \E k \in Range(a.clusters[<<scoped, base>>]) :
                 /\ k.name = s.location
                 /\ \E n \in Range(k.nodes) : \E p \in Range(n.projects) :
                     /\ n.queue \in Queues
                     /\ p.accounting = r.name
                     /\ <<scoped, base>> \in p.templates
                     /\ Template(a, base) = <<n.queue, p.id>>
  <2>1. PICK scoped \in BOOLEAN :
            Template(a, base) = Placement(a.clusters[<<scoped, base>>],
                                          <<scoped, base>>, s.location, r.name)
    <3>1. Chosen(a)[1] = r /\ Chosen(a)[2] = s
        BY <1>3
    <3>2. PICK x : x = Placement(a.clusters[<<FALSE, base>>],
                                 <<FALSE, base>>, s.location, r.name)
        OBVIOUS
    <3>3. CASE x # None
        BY <3>1, <3>2, <3>3 DEF Template
    <3>4. CASE x = None
        BY <3>1, <3>2, <3>4 DEF Template
    <3> QED
        BY <3>3, <3>4
  <2>2. PICK clusters : clusters = a.clusters[<<scoped, base>>]
      OBVIOUS
  <2>3. /\ List(clusters)
        /\ \A k \in Range(clusters) :
            List(k.nodes) /\ \A n \in Range(k.nodes) : List(n.projects)
      BY <2>2 DEF AnswerOK
  <2>4. Placement(clusters, <<scoped, base>>, s.location, r.name) # None
      BY <1>1, <2>1, <2>2
  <2> QED
      BY <2>1, <2>2, <2>3, <2>4, PlacementIsThere
<1>8. PICK here : here = Site(a)
    OBVIOUS
<1>9. /\ here.resource = r.name /\ here.location = s.location
      /\ here.url = s.url
      /\ \A base \in Bases : here.template[base] = Template(a, base)
    BY <1>3, <1>8 DEF Site
<1>10. /\ <<r.name, s.location, s.url>> =
              <<here.resource, here.location, here.url>>
       /\ r.window \notin {"undated", "early", "over"}
       /\ SubSeq(a.machine[s.url].version, 1, 2) = SubSeq(Version, 1, 2)
    BY <1>2, <1>3, <1>4, <1>6, <1>9
<1>11. \A base \in Bases : \E scoped \in BOOLEAN :
       \E k \in Range(a.clusters[<<scoped, base>>]) :
           /\ k.name = here.location
           /\ \E n \in Range(k.nodes) : \E p \in Range(n.projects) :
               /\ n.queue \in Queues
               /\ p.accounting = here.resource
               /\ <<scoped, base>> \in p.templates
               /\ here.template[base] = <<n.queue, p.id>>
    BY <1>7, <1>9
<1> QED
    BY <1>1, <1>3, <1>8, <1>10, <1>11

\* Who is let in is let in by the answers.
LetIn ==
    \A c \in Callers : login[c] = "ready" => Outcome(World.answer) = "ready"

\* A client that is ready was let in by a machine of its own version, uses a
\* resource of the project that has begun and is not over, and finds its two
\* templates there, whatever LEXIS and HEAppE answer to `QClient.__init__'.
THEOREM LoginIsAlwaysSound == Spec => []LoginIsSound
<1>1. Init => LetIn
    BY DEF Init, LetIn
<1>2. SubmissionInv /\ LetIn /\ [Next]_vars => LetIn'
  <2> SUFFICES ASSUME SubmissionInv, LetIn, [Next]_vars
               PROVE  LetIn'
      OBVIOUS
  <2>1. world' = world
      BY DEF Next, Start, Step, CreateJob, FailToCreate, UploadToken,
         FailToUploadToken, StartUpload, Gather, Cancel, Raise, SubmitJob,
         FailRequest, Answer, ResultsFailed, Login, Close, RunCircuits,
         InitBackend, GetPulla, GetCalibrationSet, GetDynamicArchitecture,
         Begin, Pool, EndUpload, HEAppE, StartJob, Kill, Service, TakeJob,
         LookUp, Fetch, FailToFetch, Save, Recalibrate, Tick, vars
  <2>2. UNCHANGED login \/ \E c \in Callers : Login(c)
      BY DEF Next, Start, Step, CreateJob, FailToCreate, UploadToken,
         FailToUploadToken, StartUpload, Gather, Cancel, Raise, SubmitJob,
         FailRequest, Answer, ResultsFailed, Close, RunCircuits,
         InitBackend, GetPulla, GetCalibrationSet, GetDynamicArchitecture,
         Begin, Pool, EndUpload, HEAppE, StartJob, Kill, Service, TakeJob,
         LookUp, Fetch, FailToFetch, Save, Recalibrate, Tick, vars, clients
  <2>3. CASE UNCHANGED login
      BY <2>1, <2>3 DEF LetIn, World
  <2>4. ASSUME NEW c \in Callers, Login(c)
        PROVE  LetIn'
    <3>1. DOMAIN login = Callers
        BY DEF SubmissionInv, LegacyTypeOK
    <3>2. \A d \in Callers : login'[d] = "ready" =>
              login[d] = "ready" \/ Outcome(World.answer) = "ready"
        BY <2>4, <3>1 DEF Login
    <3> QED
        BY <2>1, <3>2 DEF LetIn, World
  <2> QED
      BY <2>2, <2>3, <2>4
<1>3. SubmissionInv /\ LetIn => LoginIsSound
  <2> SUFFICES ASSUME SubmissionInv, LetIn
               PROVE  LoginIsSound
      OBVIOUS
  <2>1. PICK a : a = World.answer
      OBVIOUS
  <2>2. AnswerOK(a)
      BY <2>1, LegacyAssumption DEF SubmissionInv, LegacyTypeOK, World
  <2>3. ASSUME NEW c \in open
        PROVE  Outcome(a) = "ready"
      BY <2>1, <2>3 DEF SubmissionInv, LegacyTypeOK, LetIn
  <2> QED
      BY <2>1, <2>2, <2>3, ReadyIsSound DEF LoginIsSound
<1> QED
    BY <1>1, <1>2, <1>3, SubmissionHolds, PTL DEF Spec
=============================================================================
