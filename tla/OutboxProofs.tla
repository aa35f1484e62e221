---------------------------- MODULE OutboxProofs ----------------------------
(***************************************************************************)
(* The safety of Outbox for any number of messages, threads, retries and   *)
(* mishaps: what each step does to the thread that takes it; that every    *)
(* step keeps the inductive invariant IInv of OutboxInv; the properties    *)
(* that follow from it; and from what OutboxInv has besides, that a repair *)
(* is clean and that the files implement the lifecycle.                    *)
(***************************************************************************)
EXTENDS OutboxInv, FiniteSetTheorems, TLAPS

-----------------------------------------------------------------------------
(* The locals of an operation, and what each step does to them.            *)

SurveyOp(o, D, T, b) == [o EXCEPT !.drop = D, !.todo = T, !.clean = b]
DropOp(o, i, s) == [o EXCEPT !.drop = @ \ {<<i, s>>}, !.todo = IF s = "sending" THEN @ \ {i} ELSE @]
KeepOp(o, i, s) == [o EXCEPT !.drop = @ \ {<<i, s>>}, !.clean = FALSE]
StrandOp(o, i) == [o EXCEPT !.id = i, !.todo = @ \ {i}]
MissOp(o, i) == [o EXCEPT !.todo = @ \ {i}, !.clean = FALSE]
UncleanOp(o) == [o EXCEPT !.clean = FALSE]
ListOp(o, T) == [o EXCEPT !.todo = T, !.clean = TRUE]
SkipOp(o, i, ok) == [o EXCEPT !.todo = @ \ {i}, !.id = NoId, !.attempts = 0, !.clean = @ /\ ok]
StartOp(o, i, n) == [o EXCEPT !.id = i, !.attempts = n]
DoneOp(o, n) == [o EXCEPT !.at = 1, !.since = n]
StatusOp(o, i, n) == [o EXCEPT !.want = i, !.at = 1, !.since = n]
ScanOp(o) == [o EXCEPT !.at = @ + 1]
AskOp(o, i) == [o EXCEPT !.want = i]

\* The types of the locals, one by one.
LEMMA OpsFields ==
  ASSUME NEW o \in Ops
  PROVE  /\ o.want \in Ids \cup {NoId} /\ o.id \in Ids \cup {NoId} /\ o.attempts \in Nat
         /\ o.todo \in SUBSET Ids /\ o.drop \in SUBSET (Ids \X States)
         /\ o.clean \in BOOLEAN /\ o.at \in 1..4 /\ o.since \in Nat
  BY DEF Ops

\* survey gives the repair its work and keeps the id the command asked for.
LEMMA SurveyOps ==
  ASSUME NEW o \in Ops, NEW D \in SUBSET (Ids \X States), NEW T \in SUBSET Ids, NEW b \in BOOLEAN
  PROVE  /\ SurveyOp(o, D, T, b) \in Ops /\ SurveyOp(o, D, T, b).want = o.want
         /\ SurveyOp(o, D, T, b).drop = D /\ SurveyOp(o, D, T, b).todo = T
  BY DEF Ops, SurveyOp

\* deduplicate takes the removed copy off its list, and off failStranded's.
LEMMA DropOps ==
  ASSUME NEW o \in Ops, NEW i \in Ids, NEW s \in States
  PROVE  /\ DropOp(o, i, s) \in Ops /\ DropOp(o, i, s).want = o.want
         /\ \A c \in DropOp(o, i, s).drop : c \in o.drop /\ c # <<i, s>>
         /\ \A j \in DropOp(o, i, s).todo : j \in o.todo /\ (s = "sending" => j # i)
  BY DEF Ops, DropOp

\* A copy deduplicate could not remove is off its list all the same.
LEMMA KeepOps ==
  ASSUME NEW o \in Ops, NEW i \in Ids, NEW s \in States
  PROVE  /\ KeepOp(o, i, s) \in Ops /\ KeepOp(o, i, s).want = o.want
         /\ \A c \in KeepOp(o, i, s).drop : c \in o.drop
         /\ \A j \in KeepOp(o, i, s).todo : j \in o.todo
  BY DEF Ops, KeepOp

\* failStranded goes on to the record it has just written as failed.
LEMMA StrandOps ==
  ASSUME NEW o \in Ops, NEW i \in Ids
  PROVE  /\ StrandOp(o, i) \in Ops /\ StrandOp(o, i).want = o.want /\ StrandOp(o, i).id = i
         /\ StrandOp(o, i).drop = o.drop
         /\ \A j \in StrandOp(o, i).todo : j \in o.todo /\ j # i
  BY DEF Ops, StrandOp

\* A stranded record that could not be written is passed over.
LEMMA MissOps ==
  ASSUME NEW o \in Ops, NEW i \in Ids
  PROVE  /\ MissOp(o, i) \in Ops /\ MissOp(o, i).want = o.want
         /\ MissOp(o, i).drop = o.drop
         /\ \A j \in MissOp(o, i).todo : j \in o.todo
  BY DEF Ops, MissOp

\* A failed removal makes the repair unclean and changes nothing else.
LEMMA UncleanOps ==
  ASSUME NEW o \in Ops
  PROVE  /\ UncleanOp(o) \in Ops /\ UncleanOp(o).want = o.want
         /\ UncleanOp(o).drop = o.drop /\ UncleanOp(o).todo = o.todo
  BY DEF Ops, UncleanOp

\* The delivery run starts with the backlog it listed.
LEMMA ListOps ==
  ASSUME NEW o \in Ops, NEW T \in SUBSET Ids
  PROVE  ListOp(o, T) \in Ops /\ ListOp(o, T).want = o.want
  BY DEF Ops, ListOp

\* The run goes on without the message it is done with.
LEMMA RunOps ==
  ASSUME NEW o \in Ops, NEW i \in Ids, NEW ok \in BOOLEAN
  PROVE  SkipOp(o, i, ok) \in Ops /\ SkipOp(o, i, ok).want = o.want
  BY DEF Ops, SkipOp

\* The run remembers the message it sends and the attempt it counted.
LEMMA StartOps ==
  ASSUME NEW o \in Ops, NEW i \in Ids, NEW n \in Nat
  PROVE  /\ StartOp(o, i, n) \in Ops /\ StartOp(o, i, n).want = o.want
         /\ StartOp(o, i, n).id = i /\ StartOp(o, i, n).attempts = n
  BY DEF Ops, StartOp

\* A request brings its id.
LEMMA AskOps ==
  ASSUME NEW o \in Ops, NEW i \in Ids \cup {NoId}
  PROVE  AskOp(o, i) \in Ops /\ AskOp(o, i).want = i
  BY DEF Ops, AskOp

\* A CLI send ends by reading the status of its own message.
LEMMA DoneOps ==
  ASSUME NEW o \in Ops, NEW n \in Nat
  PROVE  /\ DoneOp(o, n) \in Ops /\ DoneOp(o, n).want = o.want
         /\ DoneOp(o, n).at = 1 /\ DoneOp(o, n).since = n
<1> 1 \in 1..4
  OBVIOUS
<1> QED
  BY DEF Ops, DoneOp

\* A status query starts at the first state directory.
LEMMA StatusOps ==
  ASSUME NEW o \in Ops, NEW i \in Ids, NEW n \in Nat
  PROVE  /\ StatusOp(o, i, n) \in Ops /\ StatusOp(o, i, n).want = i
         /\ StatusOp(o, i, n).at = 1 /\ StatusOp(o, i, n).since = n
<1> 1 \in 1..4
  OBVIOUS
<1> QED
  BY DEF Ops, StatusOp

\* The scan goes on to the next directory, while there is one.
LEMMA ScanOps ==
  ASSUME NEW o \in Ops
  PROVE  /\ ScanOp(o).want = o.want /\ ScanOp(o).at = o.at + 1 /\ ScanOp(o).since = o.since
         /\ o.at < 4 => ScanOp(o) \in Ops
<1>1. ScanOp(o).want = o.want /\ ScanOp(o).at = o.at + 1 /\ ScanOp(o).since = o.since
  BY DEF Ops, ScanOp
<1>2. ASSUME o.at < 4 PROVE ScanOp(o) \in Ops
  <2>1. o.at + 1 \in 1..4
    BY <1>2, OpsFields
  <2>2. \A k \in 1..4 : [o EXCEPT !.at = k] \in Ops
    BY DEF Ops
  <2> QED
    BY <2>1, <2>2 DEF ScanOp
<1> QED
  BY <1>1, <1>2

\* Who is a thread of which process.
LEMMA ThreadFacts == /\ Worker \in Threads /\ Nobody \notin Threads
                     /\ ServerThreads \subseteq Threads /\ Clients \subseteq Threads
                     /\ Handlers \subseteq Threads /\ Handlers \subseteq ServerThreads
                     /\ \A t \in Threads : t \in Clients <=> t \notin ServerThreads
                     /\ \A t \in Threads : t \in Clients => t # Worker
                     /\ \A t \in Handlers : t # Worker /\ t \notin Clients
  BY ThreadsAreDistinct DEF Threads, ServerThreads

\* Thread t goes on at l with the locals o, which are locals of an operation at l.
Goes(t, l, o) == Becomes(t, l, o) /\ l \in PCs /\ o \in Ops /\ HasMessage(t, l, o)

\* What is known of thread t before it takes a step.
Ready(t) == /\ TypeOK /\ t \in Threads /\ HasMessage(t, pc[t], op[t])

\* A thread ready to take a step has well-typed locals.
LEMMA ReadyFacts ==
  ASSUME NEW t, Ready(t)
  PROVE  /\ op[t] \in Ops /\ pc[t] \in PCs
         /\ op[t].want \in Ids \cup {NoId} /\ op[t].id \in Ids \cup {NoId}
         /\ op[t].attempts \in Nat /\ op[t].todo \in SUBSET Ids
         /\ op[t].drop \in SUBSET (Ids \X States)
         /\ op[t].clean \in BOOLEAN /\ op[t].at \in 1..4 /\ op[t].since \in Nat
<1>1. op[t] \in Ops /\ pc[t] \in PCs
  BY DEF Ready, TypeOK
<1> QED
  BY <1>1, OpsFields

\* After survey the thread repairs what survey found.
LEMMA SurveyGoes ==
  ASSUME NEW t, Ready(t), Survey(t)
  PROVE  \E o \in Ops : /\ Goes(t, "repair", o) /\ o.want = op[t].want
                        /\ o.drop = Duplicates
                        /\ o.todo = {i \in Ids : ~Damaged(i) /\ "sending" \in Held(store[i])}
<1> DEFINE T == {i \in Ids : ~Damaged(i) /\ "sending" \in Held(store[i])}
           b == (torn = {})
           o == SurveyOp(op[t], Duplicates, T, b)
<1>1. T \in SUBSET Ids /\ Duplicates \in SUBSET (Ids \X States) /\ b \in BOOLEAN
  BY DEF Duplicates
<1>2. Becomes(t, "repair", o)
  BY DEF Survey, SurveyOp
<1>3. op[t] \in Ops
  BY ReadyFacts
<1> HIDE DEF b, T
<1>4. o \in Ops /\ o.want = op[t].want /\ o.drop = Duplicates /\ o.todo = T
  BY <1>1, <1>3, SurveyOps
<1>5. HasMessage(t, "repair", o) /\ "repair" \in PCs
  BY DEF HasMessage, WithTarget, WithMessage, Delivering, PCs
<1> HIDE DEF o
<1> QED
  BY <1>2, <1>4, <1>5 DEF Goes, T

\* deduplicate removes the copy or leaves it, with one item less to do.
LEMMA DeduplicateGoes ==
  ASSUME NEW t, Ready(t), NEW i \in Ids, NEW s \in States, Deduplicate(t, i, s)
  PROVE  \E o \in Ops :
           /\ Goes(t, "repair", o) /\ o.want = op[t].want
           /\ \A c \in o.drop : c \in op[t].drop
           /\ \A j \in o.todo : j \in op[t].todo
           /\ \/ /\ Remove(i, s) /\ UNCHANGED mishaps
                 /\ <<i, s>> \notin o.drop /\ (s = "sending" => i \notin o.todo)
              \/ IOFails
<1>1. op[t] \in Ops
  BY ReadyFacts
<1>2. \A o : HasMessage(t, "repair", o) /\ "repair" \in PCs
  BY DEF HasMessage, WithTarget, WithMessage, Delivering, PCs
<1>3. CASE Remove(i, s) /\ UNCHANGED mishaps /\ Becomes(t, "repair", DropOp(op[t], i, s))
  BY <1>1, <1>2, <1>3, DropOps DEF Goes
<1>4. CASE IOFails /\ Becomes(t, "repair", KeepOp(op[t], i, s))
  BY <1>1, <1>2, <1>4, KeepOps DEF Goes
<1>5. \/ Remove(i, s) /\ UNCHANGED mishaps /\ Becomes(t, "repair", DropOp(op[t], i, s))
      \/ IOFails /\ Becomes(t, "repair", KeepOp(op[t], i, s))
  BY DEF Deduplicate, DropOp, KeepOp
<1> QED
  BY <1>3, <1>4, <1>5

\* failStranded writes the record under failed or passes it over.
LEMMA FailStrandedGoes ==
  ASSUME NEW t, Ready(t), NEW i \in Ids, FailStranded(t, i)
  PROVE  \E o \in Ops :
           /\ o.want = op[t].want /\ o.drop = op[t].drop
           /\ \A j \in o.todo : j \in op[t].todo
           /\ \/ /\ Goes(t, "unstrand", o) /\ o.id = i /\ i \notin o.todo
                 /\ Write(i, "failed", store[i]["sending"]) /\ UNCHANGED mishaps
              \/ Goes(t, "repair", o) /\ (IOFails \/ UNCHANGED <<disk, mishaps>>)
<1>1. op[t] \in Ops
  BY ReadyFacts
<1>2. "repair" \in PCs /\ "unstrand" \in PCs /\ \A o \in Ops :
        HasMessage(t, "repair", o) /\ (o.id = i => HasMessage(t, "unstrand", o))
  BY NoIdIsNoId DEF HasMessage, WithTarget, WithMessage, Delivering, PCs
<1>3. \/ /\ Write(i, "failed", store[i]["sending"]) /\ UNCHANGED mishaps
         /\ Becomes(t, "unstrand", StrandOp(op[t], i))
      \/ (IOFails \/ UNCHANGED <<disk, mishaps>>) /\ Becomes(t, "repair", MissOp(op[t], i))
  BY DEF FailStranded, StrandOp, MissOp, Transition
<1>4. CASE /\ Write(i, "failed", store[i]["sending"]) /\ UNCHANGED mishaps
           /\ Becomes(t, "unstrand", StrandOp(op[t], i))
  BY <1>1, <1>2, <1>4, StrandOps DEF Goes
<1>5. CASE (IOFails \/ UNCHANGED <<disk, mishaps>>) /\ Becomes(t, "repair", MissOp(op[t], i))
  BY <1>1, <1>2, <1>5, MissOps DEF Goes
<1> QED
  BY <1>3, <1>4, <1>5

\* The second half of failStranded goes back to the repair.
LEMMA UnstrandGoes ==
  ASSUME NEW t, Ready(t), Unstrand(t)
  PROVE  \E o \in Ops :
           /\ Goes(t, "repair", o)
           /\ o.want = op[t].want /\ o.drop = op[t].drop /\ o.todo = op[t].todo
           /\ (Remove(op[t].id, "sending") /\ UNCHANGED mishaps) \/ IOFails
<1>1. op[t] \in Ops
  BY ReadyFacts
<1>2. "repair" \in PCs /\ \A o \in Ops : HasMessage(t, "repair", o)
  BY DEF HasMessage, WithTarget, WithMessage, Delivering, PCs
<1>3. CASE Remove(op[t].id, "sending") /\ Becomes(t, "repair", op[t]) /\ UNCHANGED mishaps
  BY <1>1, <1>2, <1>3 DEF Goes
<1>4. CASE IOFails /\ Becomes(t, "repair", UncleanOp(op[t]))
  BY <1>1, <1>2, <1>4, UncleanOps DEF Goes
<1>5. \/ Remove(op[t].id, "sending") /\ Becomes(t, "repair", op[t]) /\ UNCHANGED mishaps
      \/ IOFails /\ Becomes(t, "repair", UncleanOp(op[t]))
  BY DEF Unstrand, Goto, UncleanOp
<1> QED
  BY <1>3, <1>4, <1>5

\* A message that is skipped leaves its thread in the delivery run.
LEMMA SkipGoes ==
  ASSUME NEW t, Ready(t), NEW i \in Ids, NEW ok \in BOOLEAN, pc[t] \in Delivering, Skip(t, i, ok)
  PROVE  \E o \in Ops : Goes(t, "run", o) /\ o.want = op[t].want
<1> DEFINE o == SkipOp(op[t], i, ok)
<1>1. o \in Ops /\ o.want = op[t].want
  BY ReadyFacts, RunOps
<1>2. Becomes(t, "run", o)
  BY DEF Skip, SkipOp
<1>3. HasMessage(t, "run", o) /\ "run" \in PCs
  BY <1>1 DEF Ready, HasMessage, WithTarget, WithMessage, Delivering, PCs
<1> HIDE DEF o
<1> QED
  BY <1>1, <1>2, <1>3 DEF Goes

\* Listing the backlog starts the delivery run.
LEMMA ListQueuedGoes ==
  ASSUME NEW t, Ready(t), ListQueued(t)
  PROVE  \E o \in Ops : Goes(t, "run", o) /\ o.want = op[t].want
<1> DEFINE T == {i \in Ids : "queued" \in Held(store[i])}
           o == ListOp(op[t], T)
<1>1. T \in SUBSET Ids
  OBVIOUS
<1>2. Becomes(t, "run", o) /\ pc[t] = "list"
  BY DEF ListQueued, ListOp
<1> HIDE DEF T
<1>3. o \in Ops /\ o.want = op[t].want
  BY <1>1, ReadyFacts, ListOps
<1>4. HasMessage(t, "run", o) /\ "run" \in PCs
  BY <1>2, <1>3 DEF Ready, HasMessage, WithTarget, WithMessage, Delivering, PCs
<1> HIDE DEF o
<1> QED
  BY <1>2, <1>3, <1>4 DEF Goes

\* SEND writes the record under sending with its attempt counted, or skips it.
LEMMA StartSendGoes ==
  ASSUME NEW t, Ready(t), NEW i \in Ids, StartSend(t, i)
  PROVE  \E o \in Ops :
           /\ o.want = op[t].want
           /\ \/ /\ Goes(t, "unqueue", o)
                 /\ o.id = i /\ o.attempts = store[i]["queued"] + 1
                 /\ Write(i, "sending", store[i]["queued"] + 1) /\ UNCHANGED mishaps
              \/ Goes(t, "run", o) /\ IOFails
<1> DEFINE n == store[i]["queued"] + 1
<1>1. op[t] \in Ops /\ pc[t] = "run"
  BY ReadyFacts DEF StartSend
<1>2. \/ /\ Write(i, "sending", n) /\ UNCHANGED mishaps
         /\ Becomes(t, "unqueue", StartOp(op[t], i, n))
      \/ IOFails /\ Skip(t, i, TRUE)
  BY DEF StartSend, StartOp, Transition
<1>3. CASE /\ Write(i, "sending", n) /\ UNCHANGED mishaps
           /\ Becomes(t, "unqueue", StartOp(op[t], i, n))
  <2>1. n \in Nat
    BY DEF StartSend, FindsIn, Found, First, Held, Readable, Ready, TypeOK, States, Absent, Transition, OutboxStates
  <2> DEFINE o == StartOp(op[t], i, n)
  <2> HIDE DEF n
  <2>2. o \in Ops /\ o.want = op[t].want /\ o.id = i /\ o.attempts = n
    BY <1>1, <2>1, StartOps
  <2>3. HasMessage(t, "unqueue", o) /\ "unqueue" \in PCs
    BY <1>1, <2>2, NoIdIsNoId
       DEF Ready, HasMessage, WithTarget, WithMessage, Delivering, PCs
  <2>4. Becomes(t, "unqueue", o)
    BY <1>3
  <2> HIDE DEF o
  <2>5. Goes(t, "unqueue", o)
    BY <2>2, <2>3, <2>4 DEF Goes
  <2> QED
    BY <1>3, <2>2, <2>5 DEF n
<1>4. CASE IOFails /\ Skip(t, i, TRUE)
  BY <1>1, <1>4, SkipGoes DEF Delivering
<1> QED
  BY <1>2, <1>3, <1>4

\* A thread that is about a message has it.
LEMMA HasIt ==
  ASSUME NEW t, Ready(t)
  PROVE  /\ pc[t] \in WithMessage => op[t].id \in Ids
         /\ pc[t] \in WithTarget => op[t].want \in Ids
         /\ pc[t] \in Delivering /\ t \in Clients => op[t].want \in Ids
  BY ReadyFacts DEF Ready, HasMessage

\* The message goes to the wire only when it has left queued.
LEMMA UnqueueGoes ==
  ASSUME NEW t, Ready(t), Unqueue(t)
  PROVE  \E o \in Ops :
           /\ o.want = op[t].want
           /\ \/ /\ Goes(t, "wire", o) /\ o = op[t]
                 /\ Remove(op[t].id, "queued") /\ UNCHANGED mishaps
              \/ Goes(t, "run", o) /\ IOFails
<1>1. op[t] \in Ops /\ pc[t] = "unqueue" /\ op[t].id \in Ids
  BY ReadyFacts, HasIt DEF Unqueue, WithMessage
<1>2. \/ /\ Remove(op[t].id, "queued") /\ UNCHANGED mishaps
         /\ Becomes(t, "wire", op[t])
      \/ IOFails /\ Skip(t, op[t].id, TRUE)
  BY DEF Unqueue, Goto, Transition
<1>3. HasMessage(t, "wire", op[t]) /\ "wire" \in PCs
  BY <1>1 DEF Ready, HasMessage, WithTarget, WithMessage, Delivering, PCs
<1>4. IOFails /\ Skip(t, op[t].id, TRUE) => \E o \in Ops : Goes(t, "run", o) /\ o.want = op[t].want
  BY <1>1, SkipGoes DEF Delivering
<1> QED
  BY <1>1, <1>2, <1>3, <1>4 DEF Goes

\* The wire send has one of the two outcomes.
LEMMA SendGoes ==
  ASSUME NEW t, Ready(t), Send(t)
  PROVE  \E l \in {"SUCCEED", "FAIL"} : Goes(t, l, op[t])
<1>1. op[t] \in Ops /\ pc[t] = "wire"
  BY ReadyFacts DEF Send
<1>2. PICK l \in {"SUCCEED", "FAIL"} : Becomes(t, l, op[t])
  BY DEF Send, Goto
<1>3. HasMessage(t, l, op[t]) /\ l \in PCs
  BY <1>1, <1>2 DEF Ready, HasMessage, WithTarget, WithMessage, Delivering, PCs
<1> QED
  BY <1>1, <1>2, <1>3 DEF Goes

\* The outcome is written under sent or failed with the attempts the run counted.
LEMMA RecordGoes ==
  ASSUME NEW t, Ready(t), Record(t)
  PROVE  \E o \in Ops :
           /\ o.want = op[t].want
           /\ \/ /\ Goes(t, "unsend", o) /\ o = op[t] /\ UNCHANGED mishaps
                 /\ \E s \in {"sent", "failed"} : Write(op[t].id, s, op[t].attempts)
              \/ Goes(t, "run", o) /\ IOFails
<1>1. op[t] \in Ops /\ pc[t] \in {"SUCCEED", "FAIL"} /\ op[t].id \in Ids
  BY ReadyFacts, HasIt DEF Record, WithMessage
<1>2. Transition[pc[t]].to \in {"sent", "failed"}
  BY <1>1 DEF Transition
<1>3. \/ /\ Write(op[t].id, Transition[pc[t]].to, op[t].attempts) /\ UNCHANGED mishaps
         /\ Becomes(t, "unsend", op[t])
      \/ IOFails /\ Skip(t, op[t].id, FALSE)
  BY DEF Record, Goto
<1>4. HasMessage(t, "unsend", op[t]) /\ "unsend" \in PCs
  BY <1>1 DEF Ready, HasMessage, WithTarget, WithMessage, Delivering, PCs
<1>5. IOFails /\ Skip(t, op[t].id, FALSE) => \E o \in Ops : Goes(t, "run", o) /\ o.want = op[t].want
  BY <1>1, SkipGoes DEF Delivering
<1> QED
  BY <1>1, <1>2, <1>3, <1>4, <1>5 DEF Goes

\* The second half of the outcome goes back to the run, whether it fails or not.
LEMMA UnsendGoes ==
  ASSUME NEW t, Ready(t), Unsend(t)
  PROVE  \E o \in Ops :
           /\ Goes(t, "run", o) /\ o.want = op[t].want
           /\ (Remove(op[t].id, "sending") /\ UNCHANGED mishaps) \/ IOFails
<1>1. op[t] \in Ops /\ pc[t] = "unsend" /\ op[t].id \in Ids
  BY ReadyFacts, HasIt DEF Unsend, WithMessage
<1>2. PICK ok \in BOOLEAN :
        Skip(t, op[t].id, ok) /\ ((Remove(op[t].id, "sending") /\ UNCHANGED mishaps) \/ IOFails)
  BY DEF Unsend
<1> QED
  BY <1>1, <1>2, SkipGoes DEF Delivering

\* Operations end by forgetting their locals.
LEMMA EndGoes ==
  ASSUME NEW t, Ready(t), NEW l \in {"down", "idle"}, Becomes(t, l, NoOp)
  PROVE  Goes(t, l, NoOp) /\ NoOp.want = NoId
<1>1. NoOp \in Ops /\ NoOp.want = NoId
  BY DEF NoOp, Ops
<1>2. HasMessage(t, l, NoOp) /\ l \in PCs
  BY DEF HasMessage, WithTarget, WithMessage, Delivering, PCs
<1> QED
  BY <1>1, <1>2 DEF Goes

\* A thread at rest is idle or gone.
LEMMA RestIs == \A t : Rest(t) \in {"down", "idle"}
  BY DEF Rest

\* The run ends, for a CLI send whose run was clean with a look at the status.
LEMMA RunDoneGoes ==
  ASSUME NEW t, Ready(t), RunDone(t)
  PROVE  \/ \E o \in Ops : /\ Goes(t, "scan", o) /\ o.want = op[t].want
                           /\ o.at = 1 /\ o.since = retries[op[t].want]
         \/ Goes(t, Rest(t), NoOp) /\ NoOp.want = NoId
<1>1. op[t] \in Ops /\ pc[t] = "run"
  BY ReadyFacts DEF RunDone
<1>2. CASE t \in Clients /\ Becomes(t, "scan", DoneOp(op[t], retries[op[t].want]))
  <2> DEFINE n == retries[op[t].want]
             o == DoneOp(op[t], n)
  <2>1. op[t].want \in Ids /\ n \in Nat
    BY <1>1, <1>2, HasIt DEF Delivering, Ready, TypeOK
  <2> HIDE DEF n
  <2>2. o \in Ops /\ o.want = op[t].want /\ o.at = 1 /\ o.since = n
    BY <1>1, <2>1, DoneOps
  <2>3. Becomes(t, "scan", o)
    BY <1>2 DEF n
  <2> HIDE DEF o
  <2>4. HasMessage(t, "scan", o) /\ "scan" \in PCs
    BY <2>1, <2>2, NoIdIsNoId DEF HasMessage, WithTarget, WithMessage, Delivering, PCs
  <2> QED
    BY <2>2, <2>3, <2>4 DEF Goes, n
<1>3. CASE Becomes(t, Rest(t), NoOp)
  BY <1>3, RestIs, EndGoes
<1>4. \/ t \in Clients /\ Becomes(t, "scan", DoneOp(op[t], retries[op[t].want]))
      \/ Becomes(t, Rest(t), NoOp)
  BY DEF RunDone, DoneOp
<1> QED
  BY <1>2, <1>3, <1>4

\* RETRY writes the record under queued and counts the decision, or fails.
LEMMA RequeueGoes ==
  ASSUME NEW t, Ready(t), Requeue(t)
  PROVE  LET i == op[t].want IN
         /\ i \in Ids
         /\ \/ /\ Goes(t, "unfail", op[t])
               /\ Write(i, "queued", store[i]["failed"]) /\ UNCHANGED <<lock, mishaps>>
               /\ retries' = [retries EXCEPT ![i] = @ + 1]
            \/ Goes(t, Rest(t), NoOp) /\ IOFails /\ lock' = Nobody /\ UNCHANGED retries
<1>1. op[t] \in Ops /\ pc[t] = "retry" /\ op[t].want \in Ids
  BY ReadyFacts, HasIt DEF Requeue, WithTarget
<1>2. HasMessage(t, "unfail", op[t]) /\ "unfail" \in PCs
  BY <1>1, NoIdIsNoId DEF HasMessage, WithTarget, WithMessage, Delivering, PCs
<1>3. Becomes(t, Rest(t), NoOp) => Goes(t, Rest(t), NoOp)
  BY RestIs, EndGoes
<1> QED
  BY <1>1, <1>2, <1>3 DEF Requeue, RetryFails, Goto, Goes, Transition

\* The second half of RETRY ends it and releases the outbox.
LEMMA UnfailGoes ==
  ASSUME NEW t, Ready(t), Unfail(t)
  PROVE  /\ op[t].want \in Ids /\ lock' = Nobody
         /\ \/ Goes(t, "wait", op[t])
            \/ Goes(t, Rest(t), NoOp)
         /\ (Remove(op[t].want, "failed") /\ UNCHANGED mishaps) \/ IOFails
<1>1. op[t] \in Ops /\ pc[t] = "unfail" /\ op[t].want \in Ids
  BY ReadyFacts, HasIt DEF Unfail, WithTarget
<1>2. HasMessage(t, "wait", op[t]) /\ "wait" \in PCs
  BY <1>1, NoIdIsNoId DEF HasMessage, WithTarget, WithMessage, Delivering, PCs
<1>3. /\ Becomes(t, Rest(t), NoOp) => Goes(t, Rest(t), NoOp)
      /\ t \notin Clients => Rest(t) = "idle"
  BY RestIs, EndGoes DEF Rest
<1> QED
  BY <1>1, <1>2, <1>3 DEF Unfail, RetryFails, Goto, Goes, Transition

\* A scan ends at a copy, goes on to the next directory, or ends without one.
LEMMA ScanGoes ==
  ASSUME NEW t, Ready(t), Scan(t)
  PROVE  LET s == CHOOSE r \in States : OutboxStates[r] = op[t].at IN
         \/ Goes(t, Rest(t), NoOp)
         \/ /\ s \notin Held(store[op[t].want])
            /\ \/ \E o \in Ops : /\ Goes(t, "scan", o) /\ o.want = op[t].want
                                 /\ o.since = op[t].since /\ o.at = op[t].at + 1
               \/ Goes(t, "unknown", op[t]) /\ op[t].at = 4
<1>1. op[t] \in Ops /\ pc[t] = "scan" /\ op[t].want \in Ids
  BY ReadyFacts, HasIt DEF Scan, WithTarget
<1>2. HasMessage(t, "unknown", op[t]) /\ "unknown" \in PCs
  BY <1>1, NoIdIsNoId DEF HasMessage, WithTarget, WithMessage, Delivering, PCs
<1>3. Becomes(t, Rest(t), NoOp) => Goes(t, Rest(t), NoOp)
  BY RestIs, EndGoes
<1>4. ASSUME op[t].at < 4, Becomes(t, "scan", ScanOp(op[t]))
      PROVE  \E o \in Ops : /\ Goes(t, "scan", o) /\ o.want = op[t].want
                            /\ o.since = op[t].since /\ o.at = op[t].at + 1
  <2> DEFINE o == ScanOp(op[t])
  <2>1. o \in Ops /\ o.want = op[t].want /\ o.since = op[t].since /\ o.at = op[t].at + 1
    BY <1>1, <1>4, ScanOps
  <2>2. Becomes(t, "scan", o)
    BY <1>4
  <2> HIDE DEF o
  <2>3. HasMessage(t, "scan", o) /\ "scan" \in PCs
    BY <1>1, <2>1, NoIdIsNoId DEF HasMessage, WithTarget, WithMessage, Delivering, PCs
  <2> QED
    BY <2>1, <2>2, <2>3 DEF Goes
<1> DEFINE s == CHOOSE r \in States : OutboxStates[r] = op[t].at
<1>5. \/ Becomes(t, Rest(t), NoOp)
      \/ /\ s \notin Held(store[op[t].want])
         /\ \/ op[t].at < 4 /\ Becomes(t, "scan", ScanOp(op[t]))
            \/ op[t].at = 4 /\ Becomes(t, "unknown", op[t])
  BY DEF Scan, ScanOp, Goto
<1> HIDE DEF s
<1>6. \/ Goes(t, Rest(t), NoOp)
      \/ /\ s \notin Held(store[op[t].want])
         /\ \/ \E o \in Ops : /\ Goes(t, "scan", o) /\ o.want = op[t].want
                              /\ o.since = op[t].since /\ o.at = op[t].at + 1
            \/ Goes(t, "unknown", op[t]) /\ op[t].at = 4
  BY <1>1, <1>2, <1>3, <1>4, <1>5 DEF Goes
<1> QED
  BY <1>6 DEF s

\* A send request goes on to the delivery or returns, knowing its id if it needs to.
LEMMA EnqueueGoes ==
  ASSUME NEW t, Ready(t), NEW i \in Ids, NEW l \in {"wait", "idle"}, Enqueue(t, i, l),
         t \notin Clients => l = "idle"
  PROVE  \E o \in Ops : Goes(t, l, o) /\ o.want \in {i, op[t].want}
<1>1. op[t] \in Ops
  BY ReadyFacts
<1>2. CASE t \in Clients
  <2> DEFINE o == AskOp(op[t], i)
  <2>1. o \in Ops /\ o.want = i
    BY <1>1, AskOps
  <2>2. Becomes(t, l, o)
    BY <1>2 DEF Enqueue, AskOp
  <2> HIDE DEF o
  <2>3. HasMessage(t, l, o) /\ l \in PCs
    BY <2>1, NoIdIsNoId DEF HasMessage, WithTarget, WithMessage, Delivering, PCs
  <2> QED
    BY <2>1, <2>2, <2>3 DEF Goes
<1>3. CASE t \notin Clients
  <2> DEFINE o == AskOp(op[t], op[t].want)
  <2>1. o \in Ops /\ o.want = op[t].want
    BY <1>1, AskOps, OpsFields
  <2>2. Becomes(t, l, o)
    BY <1>3 DEF Enqueue, AskOp
  <2> HIDE DEF o
  <2>3. HasMessage(t, l, o) /\ l \in PCs
    BY <1>3 DEF HasMessage, WithTarget, WithMessage, Delivering, PCs
  <2> QED
    BY <2>1, <2>2, <2>3 DEF Goes
<1> QED
  BY <1>2, <1>3

\* A retry request goes on to the repair or to the lock, with its id.
LEMMA AskRetryGoes ==
  ASSUME NEW t, Ready(t), NEW i \in Ids, AskRetry(t, i)
  PROVE  \E l \in {"claim", "waitRetry"} : \E o \in Ops : Goes(t, l, o) /\ o.want = i
<1> DEFINE o == AskOp(op[t], i)
<1>1. o \in Ops /\ o.want = i
  BY ReadyFacts, AskOps
<1>2. PICK l \in {"claim", "waitRetry"} : Becomes(t, l, o)
  BY DEF AskRetry, AskOp
<1> HIDE DEF o
<1>3. HasMessage(t, l, o) /\ l \in PCs
  BY <1>1, NoIdIsNoId DEF HasMessage, WithTarget, WithMessage, Delivering, PCs
<1> QED
  BY <1>1, <1>2, <1>3 DEF Goes

\* A status query starts with its id and the retries there have been.
LEMMA AskStatusGoes ==
  ASSUME NEW t, Ready(t), NEW i \in Ids, AskStatus(t, i)
  PROVE  \E o \in Ops : Goes(t, "scan", o) /\ o.want = i /\ o.at = 1 /\ o.since = retries[i]
<1> DEFINE n == retries[i]
           o == StatusOp(op[t], i, n)
<1>1. n \in Nat
  BY DEF Ready, TypeOK
<1>2. Becomes(t, "scan", o)
  BY DEF AskStatus, StatusOp
<1> HIDE DEF n
<1>3. o \in Ops /\ o.want = i /\ o.at = 1 /\ o.since = n
  BY <1>1, ReadyFacts, StatusOps
<1> HIDE DEF o
<1>4. HasMessage(t, "scan", o) /\ "scan" \in PCs
  BY <1>3, NoIdIsNoId DEF HasMessage, WithTarget, WithMessage, Delivering, PCs
<1> QED
  BY <1>2, <1>3, <1>4 DEF Goes, n

\* A repair by another process than the server ends like any step of its thread.
LEMMA RecoveredGoes ==
  ASSUME NEW t, Ready(t), t # Worker, NEW ok, Recovered(t, ok)
  PROVE  \E l \in {"down", "waitRetry"} : \E o \in Ops : Goes(t, l, o) /\ o.want = op[t].want
<1> DEFINE l == IF op[t].want = NoId THEN "down" ELSE "waitRetry"
           o == AskOp(NoOp, op[t].want)
<1>1. NoOp \in Ops
  BY DEF NoOp, Ops
<1>2. o \in Ops /\ o.want = op[t].want
  BY <1>1, ReadyFacts, AskOps
<1>3. Becomes(t, l, o)
  <2>1. op' = [op EXCEPT ![t] = o]
    BY DEF Recovered, AskOp
  <2>2. pc' = [u \in Threads |-> IF u \in {t} THEN l ELSE pc[u]]
    BY DEF Recovered
  <2>3. pc' = [pc EXCEPT ![t] = l]
    BY <2>2 DEF Ready, TypeOK
  <2> QED
    BY <2>1, <2>3 DEF Becomes
<1> HIDE DEF o
<1>4. HasMessage(t, l, o) /\ l \in PCs
  BY <1>2 DEF HasMessage, WithTarget, WithMessage, Delivering, PCs
<1> QED
  BY <1>2, <1>3, <1>4 DEF Goes

-----------------------------------------------------------------------------
(* The invariant, thread by thread.                                         *)

\* What the threads of the invariant say of thread t alone.
LEMMA ReadyAll == IInv => \A t \in Threads : Ready(t)
  BY DEF IInv, Ready

\* A thread that goes on leaves every other thread where it is.
LEMMA Moved ==
  ASSUME TypeOK, NEW t \in Threads, NEW l, NEW o, Goes(t, l, o)
  PROVE  /\ pc' \in [Threads -> PCs] /\ op' \in [Threads -> Ops]
         /\ pc'[t] = l /\ op'[t] = o
         /\ \A u \in Threads \ {t} : pc'[u] = pc[u] /\ op'[u] = op[u]
  BY DEF Goes, Becomes, TypeOK

\* The types of everything but where the threads are.
SharedTyped ==
  /\ store \in [Ids -> [States -> Nat \cup {Absent}]]
  /\ torn \subseteq Ids \X States
  /\ lock \in Threads \cup {Nobody}
  /\ mu \in ServerThreads \cup {Nobody}
  /\ accepted \subseteq Ids
  /\ sends \in [Ids -> Nat]
  /\ retries \in [Ids -> Nat]
  /\ mishaps \in Nat

\* What a step leaves others to rely on: ids stay accepted, and a copy appears in a
\* state only by a transition from the state before it, by a retry, or with the id.
Lawful ==
  /\ accepted \subseteq accepted'
  /\ \A i \in Ids :
       /\ retries[i] <= retries'[i]
       /\ i \in accepted /\ retries'[i] = retries[i] =>
            /\ Has(i, "queued")' => Has(i, "queued")
            /\ Has(i, "sending")' => Has(i, "sending") \/ Has(i, "queued")
            /\ Has(i, "sent")' => Has(i, "sent") \/ Has(i, "sending") \/ Has(i, "queued")

\* A thread that does not hold the outbox knows after a lawful step what it knew.
LEMMA OutsiderKeeps ==
  ASSUME TypeOK, SharedTyped', Lawful, NEW l \in PCs, NEW o \in Ops, LocalOK(l, o), l \notin Holding,
         l \in {"scan", "unknown"} => o.want # NoId
  PROVE  LocalOK(l, o)'
<1>1. o.want \in Ids \cup {NoId} /\ o.at \in 1..4 /\ o.since \in Nat
  BY OpsFields
<1>2. o.want # NoId => o.want \in accepted'
  BY DEF LocalOK, Lawful
<1>3. ASSUME l = "unknown" PROVE o.since < retries'[o.want]
  BY <1>1, <1>3 DEF LocalOK, Lawful, TypeOK, SharedTyped
<1>4. ASSUME l = "scan"
      PROVE  /\ o.since <= retries'[o.want]
             /\ o.since = retries'[o.want] =>
                  \A s \in States : OutboxStates[s] < o.at => ~Has(o.want, s)'
  <2> DEFINE i == o.want
  <2>1. i \in Ids /\ i \in accepted /\ o.since <= retries[i] /\ retries[i] <= retries'[i]
    BY <1>1, <1>4 DEF LocalOK, Lawful
  <2>2. retries[i] \in Nat /\ retries'[i] \in Nat
    BY <2>1 DEF TypeOK, SharedTyped
  <2>3. ASSUME o.since = retries'[i], NEW s \in States, OutboxStates[s] < o.at
        PROVE  ~Has(i, s)'
    <3>1. retries'[i] = retries[i] /\ o.since = retries[i]
      BY <2>1, <2>2, <2>3, <1>1
    <3>2. \A r \in States : OutboxStates[r] < o.at => ~Has(i, r)
      BY <1>4, <3>1 DEF LocalOK
    <3>3. s \in {"queued", "sending", "sent"}
      BY <1>1, <2>3 DEF States, OutboxStates
    <3>4. o.at > 1 /\ ~Has(i, "queued")
      BY <1>1, <2>3, <3>2, <3>3 DEF States, OutboxStates
    <3>5. s \in {"sending", "sent"} => ~Has(i, "sending")
      BY <1>1, <2>3, <3>2, <3>3 DEF States, OutboxStates
    <3>6. s = "sent" => ~Has(i, "sent")
      BY <2>3, <3>2
    <3> QED
      BY <2>1, <3>1, <3>3, <3>4, <3>5, <3>6 DEF Lawful
  <2> QED
    BY <2>1, <2>2, <2>3, <1>1
<1> QED
  BY <1>2, <1>3, <1>4 DEF LocalOK, Holding

\* The holder of the outbox knows what it knew when only a fresh message appears.
Undisturbed(i) ==
  store'[i] = store[i] /\ sends'[i] = sends[i] /\ retries'[i] = retries[i]

\* What the holder of the outbox knows survives a step that disturbs no message.
LEMMA HolderKeeps ==
  ASSUME TypeOK, \A i \in Ids : RecordOK(i), NEW l \in PCs, NEW o \in Ops,
         LocalOK(l, o), l \in Holding,
         l \in WithMessage => o.id \in Ids, l = "unfail" => o.want \in Ids,
         accepted \subseteq accepted', \A i \in accepted : Undisturbed(i)
  PROVE  LocalOK(l, o)'
<1>1. \A i \in Ids, s \in States : Has(i, s) => Undisturbed(i)
  BY DEF RecordOK
<1>2. "queued" \in States /\ "sending" \in States /\ "sent" \in States /\ "failed" \in States
  BY DEF States
<1>3. o.want # NoId => o.want \in accepted'
  BY DEF LocalOK
<1>4. CASE l = "repair"
  <2>1. ASSUME NEW c \in o.drop
        PROVE  /\ c[2] # "sent" /\ Has(c[1], c[2])'
               /\ \E r \in States : /\ r # c[2] /\ <<c[1], r>> \notin o.drop
                                    /\ Has(c[1], r)'
                                    /\ store'[c[1]][c[2]] <= store'[c[1]][r]
    <3>1. c[1] \in Ids /\ c[2] \in States
      BY <2>1, OpsFields
    <3>2. /\ c[2] # "sent" /\ Has(c[1], c[2])
          /\ \E r \in States : /\ r # c[2] /\ <<c[1], r>> \notin o.drop
                               /\ Has(c[1], r) /\ store[c[1]][c[2]] <= store[c[1]][r]
      BY <1>4, <2>1 DEF LocalOK
    <3>3. store'[c[1]] = store[c[1]]
      BY <1>1, <3>1, <3>2 DEF Undisturbed
    <3> QED
      BY <3>1, <3>2, <3>3 DEF Has
  <2>2. \A i \in o.todo : Has(i, "sending")'
    BY <1>1, <1>2, <1>4, OpsFields DEF LocalOK, Undisturbed, Has
  <2> QED
    BY <1>3, <1>4, <2>1, <2>2 DEF LocalOK
<1>5. CASE l \in WithMessage
  <2>1. o.id \in Ids /\ \E s \in States : Has(o.id, s)
    <3>1. l \in {"wire", "SUCCEED", "FAIL"} => Has(o.id, "sending")
      BY <1>5, OpsFields DEF LocalOK, OnTheWire, Has, Absent
    <3> QED
      BY <1>2, <1>5, <3>1 DEF LocalOK, WithMessage, States
  <2>2. Undisturbed(o.id)
    BY <1>1, <2>1
  <2>3. CASE l = "unstrand"
    <3>1. \A i \in o.todo : i # o.id /\ Has(i, "sending")'
      BY <1>1, <1>2, <2>3, OpsFields DEF LocalOK, Undisturbed, Has
    <3> QED
      BY <1>3, <2>2, <2>3, <3>1 DEF LocalOK, Undisturbed, Has
  <2>4. CASE l # "unstrand"
    BY <1>3, <1>5, <2>2, <2>4 DEF LocalOK, WithMessage, Undisturbed, OnTheWire, Has
  <2> QED
    BY <2>3, <2>4
<1>6. CASE l = "unfail"
  BY <1>1, <1>2, <1>3, <1>6 DEF LocalOK, Undisturbed, Has
<1> QED
  BY <1>3, <1>4, <1>5, <1>6 DEF LocalOK, Holding, WithMessage

\* The invariant after a lawful step of one thread, when the step treats the lock as
\* a lock and leaves the files of every message, and the thread, as they should be.
LEMMA StepKeeps ==
  ASSUME IInv, NEW t \in Threads, NEW l, NEW o, Goes(t, l, o), SharedTyped', Lawful,
         lock = t \/ \A j \in accepted : Undisturbed(j),
         pc[t] = "down" => t \notin Handlers,
         t = Worker /\ l \in Starting => pc[t] \in Starting,
         l \in Holding <=> lock' = t,
         \A u \in Threads \ {t} : lock' = u <=> lock = u,
         \A i \in Ids : RecordOK(i)',
         LocalOK(l, o)'
  PROVE  IInv'
<1>0. TypeOK /\ Ready(t)
  BY ReadyAll DEF IInv
<1>1. /\ pc' \in [Threads -> PCs] /\ op' \in [Threads -> Ops]
      /\ pc'[t] = l /\ op'[t] = o
      /\ \A u \in Threads \ {t} : pc'[u] = pc[u] /\ op'[u] = op[u]
  BY <1>0, Moved
<1>2. TypeOK'
  BY <1>1 DEF SharedTyped, TypeOK
<1>3. \A u \in Threads : HasMessage(u, pc[u], op[u])'
  BY <1>1 DEF IInv, Goes, HasMessage
<1>4. LockOK'
  BY <1>1 DEF IInv, LockOK
<1>6. StartOK'
  <2>2. CASE t = Worker
    BY <1>1, <2>2, ThreadFacts DEF IInv, StartOK
  <2>3. CASE t # Worker
    <3>1. pc'[Worker] = pc[Worker]
      BY <1>1, <2>3, ThreadFacts
    <3>2. ASSUME pc[Worker] \in Starting, NEW h \in Handlers PROVE pc'[h] = "down"
      BY <1>1, <3>2, ThreadFacts DEF IInv, StartOK
    <3> QED
      BY <3>1, <3>2 DEF StartOK
  <2> QED
    BY <2>2, <2>3
<1>5. ASSUME NEW u \in Threads PROVE LocalOK(pc[u], op[u])'
  <2>1. CASE u = t
    BY <1>1, <2>1
  <2>2. CASE u # t
    <3>1. op[u] \in Ops /\ pc[u] \in PCs /\ LocalOK(pc[u], op[u])
      BY <1>0 DEF IInv, TypeOK
    <3>2. CASE pc[u] \notin Holding
      <4>1. pc[u] \in {"scan", "unknown"} => op[u].want # NoId
        BY DEF IInv, HasMessage, WithTarget
      <4> DEFINE x == pc[u]
                 y == op[u]
      <4> HIDE DEF x, y
      <4> QED
        BY <1>0, <1>1, <2>2, <3>1, <3>2, <4>1, OutsiderKeeps
    <3>3. CASE pc[u] \in Holding
      <4>1. \A j \in accepted : Undisturbed(j)
        BY <2>2, <3>3 DEF IInv, LockOK
      <4>2. /\ pc[u] \in WithMessage => op[u].id \in Ids
            /\ pc[u] = "unfail" => op[u].want \in Ids
            /\ accepted \subseteq accepted'
        BY ReadyAll, HasIt DEF WithTarget, Lawful
      <4> DEFINE x == pc[u]
                 y == op[u]
      <4> HIDE DEF x, y
      <4> QED
        BY <1>0, <1>1, <2>2, <3>1, <3>3, <4>1, <4>2, HolderKeeps DEF IInv
    <3> QED
      BY <3>2, <3>3
  <2> QED
    BY <2>1, <2>2
<1> QED
  BY <1>2, <1>3, <1>4, <1>5, <1>6 DEF IInv

\* Find's choice and the survivor of a duplicated id are copies that exist.
LEMMA FoundIs ==
  ASSUME NEW copies \in [States -> Nat \cup {Absent}], Held(copies) # {}
  PROVE  /\ Found(copies) \in Held(copies)
         /\ \A r \in Held(copies) : OutboxStates[Found(copies)] <= OutboxStates[r]
<1>1. \E s \in Held(copies) : \A r \in Held(copies) : OutboxStates[s] <= OutboxStates[r]
  <2>1. CASE "queued" \in Held(copies)
    BY <2>1 DEF Held, States, OutboxStates
  <2>2. CASE "queued" \notin Held(copies) /\ "sending" \in Held(copies)
    BY <2>2 DEF Held, States, OutboxStates
  <2>3. CASE "queued" \notin Held(copies) /\ "sending" \notin Held(copies) /\ "sent" \in Held(copies)
    BY <2>3 DEF Held, States, OutboxStates
  <2>4. CASE Held(copies) \subseteq {"failed"}
    BY <2>4 DEF Held, States, OutboxStates
  <2> QED
    BY <2>1, <2>2, <2>3, <2>4 DEF Held, States
<1> QED
  BY <1>1 DEF Found, First

\* A record that Find returns in queued has a copy there.
LEMMA FindsQueued ==
  ASSUME TypeOK, NEW i \in Ids, FindsIn(i, "queued")
  PROVE  Has(i, "queued")
  BY FoundIs DEF FindsIn, Readable, Held, Has, TypeOK

\* A record that Find returns in failed, the last state it looks at, has no other copy.
LEMMA FindsFailed ==
  ASSUME TypeOK, NEW i \in Ids, FindsIn(i, "failed")
  PROVE  Has(i, "failed") /\ \A s \in States : Has(i, s) => s = "failed"
<1>1. store[i] \in [States -> Nat \cup {Absent}] /\ Held(store[i]) # {} /\ Found(store[i]) = "failed"
  BY DEF FindsIn, Readable, TypeOK
<1>2. \A r \in Held(store[i]) : OutboxStates["failed"] <= OutboxStates[r]
  BY <1>1, FoundIs
<1>3. "failed" \in Held(store[i])
  BY <1>1, FoundIs
<1> QED
  BY <1>2, <1>3 DEF Held, Has, States, OutboxStates

\* A set of states has a first one in any order.
LEMMA FirstIs ==
  ASSUME NEW S \in SUBSET States, S # {}, NEW order \in [States -> Int]
  PROVE  First(S, order) \in S
<1> DEFINE least(s) == s \in S /\ \A r \in S : order[s] <= order[r]
<1>0. /\ "queued" \in S \/ "sending" \in S \/ "sent" \in S \/ "failed" \in S
      /\ order["queued"] \in Int /\ order["sending"] \in Int
      /\ order["sent"] \in Int /\ order["failed"] \in Int
      /\ \A r \in S : r \in {"queued", "sending", "sent", "failed"}
  BY DEF States
<1>1. least("queued") \/ least("sending") \/ least("sent") \/ least("failed")
  BY <1>0
<1>2. \E s \in S : \A r \in S : order[s] <= order[r]
  BY <1>1
<1> QED
  BY <1>2 DEF First

\* A message with a copy has a latest one, and no copy is ahead of it.
LEMMA LatestIs ==
  ASSUME NEW copies \in [States -> Nat \cup {Absent}], Held(copies) # {}
  PROVE  /\ Latest(copies) # {} /\ Latest(copies) \subseteq Held(copies)
         /\ \A s \in Latest(copies), r \in Held(copies) : copies[r] <= copies[s]
<1> DEFINE H == Held(copies)
           last(s) == s \in H /\ \A r \in H : copies[r] <= copies[s]
<1>0. H \subseteq States /\ copies \in [States -> Int]
  BY DEF Held, Absent
<1>1. last("queued") \/ last("sending") \/ last("sent") \/ last("failed")
  BY <1>0 DEF States
<1> QED
  BY <1>0, <1>1 DEF Latest

\* survivor picks a latest copy, and the one in sent when that is a latest one.
LEMMA SurvivorIs ==
  ASSUME NEW copies \in [States -> Nat \cup {Absent}], Held(copies) # {}
  PROVE  /\ Survivor(copies) \in Latest(copies)
         /\ "sent" \in Latest(copies) => Survivor(copies) = "sent"
<1> DEFINE top == Latest(copies)
           interrupted == {e \in Events : top = {Transition[e].from, Transition[e].to}}
<1>1. top # {} /\ top \in SUBSET States
  BY LatestIs DEF Held
<1>2. CASE interrupted = {}
  <2>1. Survivor(copies) = First(top, keepOrder)
    BY <1>2 DEF Survivor
  <2>2. keepOrder \in [States -> Int]
    BY DEF keepOrder, States
  <2>3. First(top, keepOrder) \in top
    BY <1>1, <2>2, FirstIs
  <2>4. "sent" \in top => First(top, keepOrder) = "sent"
    BY <1>1 DEF First, keepOrder, States
  <2> QED
    BY <2>1, <2>3, <2>4
<1>3. CASE interrupted # {}
  <2>1. PICK e \in Events : e \in interrupted /\ Survivor(copies) = Transition[e].to
    BY <1>3 DEF Survivor
  <2>2. top = {Transition[e].from, Transition[e].to}
    BY <2>1
  <2>3. "sent" \in top => Transition[e].to = "sent"
    BY <2>2 DEF Transition, Events
  <2> QED
    BY <2>1, <2>2, <2>3
<1> QED
  BY <1>2, <1>3

\* What Write does to the store.
LEMMA WriteIs ==
  ASSUME TypeOK, NEW i \in Ids, NEW s \in States, NEW n \in Nat, Write(i, s, n)
  PROVE  /\ store' \in [Ids -> [States -> Nat \cup {Absent}]] /\ torn' \subseteq Ids \X States
         /\ store'[i][s] = n /\ \A r \in States \ {s} : store'[i][r] = store[i][r]
         /\ \A j \in Ids \ {i} : store'[j] = store[j]
  BY DEF TypeOK, Write

\* What Remove does to the store.
LEMMA RemoveIs ==
  ASSUME TypeOK, NEW i \in Ids, NEW s \in States, Remove(i, s)
  PROVE  /\ store' \in [Ids -> [States -> Nat \cup {Absent}]] /\ torn' \subseteq Ids \X States
         /\ store'[i][s] = Absent /\ \A r \in States \ {s} : store'[i][r] = store[i][r]
         /\ \A j \in Ids \ {i} : store'[j] = store[j]
  BY DEF TypeOK, Remove

\* A file operation that fails does nothing to the store.
LEMMA FailIs ==
  ASSUME TypeOK, IOFails
  PROVE  store' = store /\ torn' = torn /\ mishaps' \in Nat
  BY DEF TypeOK, IOFails, Mishap, disk

\* Taking and dropping mu keeps its type.
LEMMA MuTyped ==
  ASSUME TypeOK, NEW t \in Threads, TakeMu(t) \/ DropMu(t) \/ UNCHANGED mu
  PROVE  mu' \in ServerThreads \cup {Nobody}
  BY DEF TypeOK, TakeMu, DropMu

\* The four states.
LEMMA StateNames == /\ "queued" \in States /\ "sending" \in States
                    /\ "sent" \in States /\ "failed" \in States
  BY DEF States

\* A message whose files and history a step leaves alone is as it should be after it.
LEMMA RecordSame ==
  ASSUME NEW i, RecordOK(i), Undisturbed(i), i \in accepted <=> i \in accepted'
  PROVE  RecordOK(i)'
  BY DEF RecordOK, Undisturbed, Has

\* A step that moves a thread and perhaps a lock, and no file.
LEMMA QuietKeeps ==
  ASSUME IInv, NEW t \in Threads, NEW l, NEW o, Goes(t, l, o),
         UNCHANGED <<store, torn, accepted, sends, retries>>, mishaps' \in Nat,
         mu' \in ServerThreads \cup {Nobody},
         \/ lock' = lock /\ (l \in Holding <=> lock = t)
         \/ lock' = t /\ lock = Nobody /\ l \in Holding
         \/ lock' = Nobody /\ lock = t /\ l \notin Holding,
         pc[t] = "down" => t \notin Handlers,
         t = Worker /\ l \in Starting => pc[t] \in Starting,
         LocalOK(l, o)
  PROVE  IInv'
<1>1. TypeOK /\ t # Nobody
  BY ThreadFacts DEF IInv
<1>2. SharedTyped'
  BY <1>1 DEF SharedTyped, TypeOK
<1>3. Lawful
  BY <1>1 DEF Lawful, TypeOK, Has
<1>4. \A j \in accepted : Undisturbed(j)
  BY DEF Undisturbed
<1>5. \A i \in Ids : RecordOK(i)'
  BY RecordSame DEF IInv, Undisturbed
<1>6. LocalOK(l, o)'
  BY DEF LocalOK, OnTheWire, Has
<1>7. /\ l \in Holding <=> lock' = t
      /\ \A u \in Threads \ {t} : lock' = u <=> lock = u
  BY <1>1, ThreadFacts
<1> QED
  BY <1>2, <1>3, <1>4, <1>5, <1>6, <1>7, StepKeeps

\* A step of the thread that holds the outbox and changes files of message i.
LEMMA FilesKeeps ==
  ASSUME IInv, NEW t \in Threads, NEW l, NEW o, NEW i \in Ids, Goes(t, l, o),
         lock = t, t \notin Handlers \/ pc[t] # "down",
         SharedTyped', UNCHANGED accepted, Lawful,
         (lock' = t /\ l \in Holding) \/ (lock' = Nobody /\ l \notin Holding),
         t = Worker /\ l \in Starting => pc[t] \in Starting,
         \A j \in Ids \ {i} : Undisturbed(j),
         RecordOK(i)', LocalOK(l, o)'
  PROVE  IInv'
<1>1. \A j \in Ids : RecordOK(j)'
  BY RecordSame DEF IInv
<1>2. /\ l \in Holding <=> lock' = t
      /\ \A u \in Threads \ {t} : lock' = u <=> lock = u
  BY ThreadFacts
<1> QED
  BY <1>1, <1>2, StepKeeps

\* A thread that is not in an operation on files knows nothing of them.
LEMMA IdleKnows ==
  ASSUME NEW l, NEW o, l \notin Holding, l \notin {"scan", "unknown"},
         o.want # NoId => o.want \in accepted
  PROVE  LocalOK(l, o)
  BY DEF LocalOK, Holding

\* The message a thread was asked about is one that was accepted.
LEMMA WantKnown == IInv => \A t \in Threads : op[t].want # NoId => op[t].want \in accepted
  BY DEF IInv, LocalOK

\* The invariant's account of who holds the outbox.
LEMMA HolderIs == IInv => \A t \in Threads : pc[t] \in Holding <=> lock = t
  BY DEF IInv, LockOK

-----------------------------------------------------------------------------
\* The server starts, and its ticker ticks.
LEMMA KeepsStart == IInv /\ (StartServer \/ Tick) => IInv'
<1> SUFFICES ASSUME IInv, StartServer \/ Tick PROVE IInv'
  OBVIOUS
<1>1. Ready(Worker) /\ Worker \in Threads /\ TypeOK /\ Worker \notin Handlers
  BY ReadyAll, ThreadFacts DEF IInv
<1>2. PICK l \in {"claim", "wait"} :
        /\ Becomes(Worker, l, op[Worker]) /\ UNCHANGED <<disk, lock, mu, history, mishaps>>
        /\ pc[Worker] \in {"down", "idle"} /\ (l = "claim" => pc[Worker] = "down")
  BY DEF StartServer, Tick, Goto
<1>3. Goes(Worker, l, op[Worker])
  BY <1>1, <1>2, ReadyFacts, ThreadFacts DEF Goes, HasMessage, WithTarget, WithMessage, Delivering, PCs
<1>4. LocalOK(l, op[Worker])
  BY <1>1, <1>2, IdleKnows, WantKnown DEF Holding
<1> QED
  BY <1>1, <1>2, <1>3, <1>4, QuietKeeps, HolderIs DEF disk, history, Starting, Holding, TypeOK

\* What survey lists for removal is never a copy in sent, and a copy at least as late stays.
LEMMA KeepsSurvey == ASSUME IInv, NEW t \in Threads, Survey(t) PROVE IInv'
<1>1. Ready(t) /\ TypeOK
  BY ReadyAll DEF IInv
<1>2. PICK o \in Ops : /\ Goes(t, "repair", o) /\ o.want = op[t].want
                       /\ o.drop = Duplicates
                       /\ o.todo = {i \in Ids : ~Damaged(i) /\ "sending" \in Held(store[i])}
  BY <1>1, SurveyGoes
<1>3. ASSUME NEW c \in o.drop
      PROVE  /\ c[2] # "sent" /\ Has(c[1], c[2])
             /\ \E r \in States : /\ r # c[2] /\ <<c[1], r>> \notin o.drop
                                  /\ Has(c[1], r)
                                  /\ store[c[1]][c[2]] <= store[c[1]][r]
  <2> DEFINE i == c[1]
             s == c[2]
             r == Survivor(store[i])
  <2>1. i \in Ids /\ s \in States /\ s \in Held(store[i]) /\ s # r
    BY <1>2, <1>3 DEF Duplicates
  <2>2. store[i] \in [States -> Nat \cup {Absent}] /\ Held(store[i]) # {}
    BY <1>1, <2>1 DEF TypeOK
  <2>3. r \in Latest(store[i]) /\ ("sent" \in Latest(store[i]) => r = "sent")
    BY <2>2, SurvivorIs
  <2>4. r \in Held(store[i]) /\ r \in States /\ store[i][s] <= store[i][r]
    BY <2>1, <2>2, <2>3, LatestIs DEF Held
  <2>5. s # "sent"
    <3>1. ASSUME s = "sent" PROVE FALSE
      <4>1. Has(i, "sent") /\ RecordOK(i)
        BY <2>1, <3>1 DEF Held, Has, IInv
      <4>2. "sent" \in Latest(store[i])
        BY <2>1, <3>1, <4>1 DEF Latest, RecordOK, Held
      <4> QED
        BY <2>1, <2>3, <3>1, <4>2
    <3> QED
      BY <3>1
  <2>6. <<i, r>> \notin o.drop
    BY <1>2 DEF Duplicates
  <2> QED
    BY <2>1, <2>4, <2>5, <2>6 DEF Held, Has
<1>4. \A i \in o.todo : Has(i, "sending")
  BY <1>2 DEF Held, Has
<1>5. LocalOK("repair", o)
  BY <1>2, <1>3, <1>4, WantKnown DEF LocalOK
<1> QED
  BY <1>1, <1>2, <1>5, QuietKeeps DEF Survey, disk, history, Holding, Starting, TypeOK

\* A file operation that fails leaves its thread with a quiet step.
LEMMA FailKeeps ==
  ASSUME IInv, NEW t \in Threads, NEW l, NEW o, Goes(t, l, o), IOFails, UNCHANGED history,
         mu' \in ServerThreads \cup {Nobody},
         \/ lock' = lock /\ (l \in Holding <=> lock = t)
         \/ lock' = Nobody /\ lock = t /\ l \notin Holding,
         pc[t] # "down", t = Worker /\ l \in Starting => pc[t] \in Starting, LocalOK(l, o)
  PROVE  IInv'
<1>1. store' = store /\ torn' = torn /\ mishaps' \in Nat
  BY FailIs DEF IInv
<1> QED
  BY <1>1, QuietKeeps DEF history

\* Removing copies is lawful.
LEMMA ShrinkLawful ==
  ASSUME TypeOK, UNCHANGED <<accepted, retries>>,
         \A j \in Ids, r \in States : Has(j, r)' => Has(j, r)
  PROVE  Lawful
  BY StateNames DEF Lawful, TypeOK

\* A message may lose a copy when another one covers its handovers.
LEMMA RemoveRecord ==
  ASSUME TypeOK, NEW i \in Ids, NEW s \in States \ {"sent"}, Remove(i, s), UNCHANGED history,
         RecordOK(i), i \in accepted,
         \E r \in States \ {s} : Has(i, r) /\ sends[i] <= store[i][r]
  PROVE  RecordOK(i)'
<1>1. /\ store'[i] \in [States -> Nat \cup {Absent}]
      /\ store'[i][s] = Absent /\ \A r \in States \ {s} : store'[i][r] = store[i][r]
  BY RemoveIs
<1>2. /\ store[i] \in [States -> Nat \cup {Absent}] /\ sends[i] \in Nat /\ retries[i] \in Nat
      /\ sends'[i] = sends[i] /\ retries'[i] = retries[i] /\ accepted' = accepted
  BY DEF TypeOK, history
<1>3. \A r \in States : Has(i, r)' => Has(i, r) /\ r # s
  BY <1>1 DEF Has
<1>4. \E r \in States : Has(i, r)' /\ sends[i] <= store'[i][r]
  BY <1>1 DEF Has
<1>5. \A r \in States : store'[i][r] <= store[i][r]
  BY <1>1, <1>2 DEF Absent
<1>6. Has(i, "queued")' => /\ sends[i] <= store'[i]["queued"] /\ sends[i] <= retries[i]
                           /\ \A r \in States : store'[i][r] <= store'[i]["queued"] + 1
  BY <1>1, <1>2, <1>3, <1>5, StateNames DEF RecordOK, Absent
<1>7. Has(i, "sent")' => ~Has(i, "queued")' /\ \A r \in States : store'[i][r] <= store'[i]["sent"]
  BY <1>1, <1>2, <1>3, <1>5, StateNames DEF RecordOK, Absent
<1>8. Has(i, "sending")' => store'[i]["failed"] <= store'[i]["sending"]
  BY <1>1, <1>2, <1>3, <1>5, StateNames DEF RecordOK, Absent
<1> QED
  BY <1>2, <1>4, <1>6, <1>7, <1>8 DEF RecordOK

\* A removal is a lawful step, and disturbs no other message.
LEMMA RemoveLawful ==
  ASSUME TypeOK, NEW i \in Ids, NEW s \in States, Remove(i, s), UNCHANGED history
  PROVE  /\ Lawful /\ \A j \in Ids \ {i} : Undisturbed(j)
<1>1. /\ store'[i][s] = Absent /\ \A r \in States \ {s} : store'[i][r] = store[i][r]
      /\ \A j \in Ids \ {i} : store'[j] = store[j]
  BY RemoveIs
<1>2. ASSUME NEW j \in Ids, NEW r \in States, Has(j, r)' PROVE Has(j, r)
  <2>1. CASE j = i
    BY <1>1, <1>2, <2>1 DEF Has
  <2>2. CASE j # i
    BY <1>1, <1>2, <2>2 DEF Has
  <2> QED
    BY <2>1, <2>2
<1>3. Lawful
  BY <1>2, ShrinkLawful DEF history
<1>4. \A j \in Ids \ {i} : Undisturbed(j)
  BY <1>1 DEF history, Undisturbed
<1> QED
  BY <1>3, <1>4

\* deduplicate removes a copy that another one covers.
LEMMA KeepsDeduplicate ==
  ASSUME IInv, NEW t \in Threads, NEW i \in Ids, NEW s \in States, Deduplicate(t, i, s)
  PROVE  IInv'
<1>1. Ready(t) /\ TypeOK
  BY ReadyAll DEF IInv
<1>2. /\ pc[t] = "repair" /\ <<i, s>> \in op[t].drop /\ UNCHANGED <<lock, mu, history>>
      /\ LocalOK("repair", op[t]) /\ lock = t
  BY HolderIs DEF Deduplicate, IInv, Holding
<1>3. PICK o \in Ops :
           /\ Goes(t, "repair", o) /\ o.want = op[t].want
           /\ \A c \in o.drop : c \in op[t].drop
           /\ \A j \in o.todo : j \in op[t].todo
           /\ \/ /\ Remove(i, s) /\ UNCHANGED mishaps
                 /\ <<i, s>> \notin o.drop /\ (s = "sending" => i \notin o.todo)
              \/ IOFails
  BY <1>1, DeduplicateGoes
<1>4. CASE IOFails
  <2>1. LocalOK("repair", o)
    BY <1>2, <1>3 DEF LocalOK
  <2> QED
    BY <1>1, <1>2, <1>3, <1>4, <2>1, FailKeeps DEF Holding, TypeOK, Starting
<1>5. CASE /\ Remove(i, s) /\ UNCHANGED mishaps
           /\ <<i, s>> \notin o.drop /\ (s = "sending" => i \notin o.todo)
  <2>1. /\ store' \in [Ids -> [States -> Nat \cup {Absent}]] /\ torn' \subseteq Ids \X States
        /\ store'[i][s] = Absent /\ \A r \in States \ {s} : store'[i][r] = store[i][r]
        /\ \A j \in Ids \ {i} : store'[j] = store[j]
    BY <1>1, <1>5, RemoveIs
  <2>2. SharedTyped'
    BY <1>1, <1>2, <1>5, <2>1 DEF SharedTyped, TypeOK, history
  <2>3. Lawful /\ \A j \in Ids \ {i} : Undisturbed(j)
    BY <1>1, <1>2, <1>5, RemoveLawful
  <2>5. /\ s # "sent" /\ Has(i, s)
        /\ \E r \in States : r # s /\ Has(i, r) /\ store[i][s] <= store[i][r]
    BY <1>2 DEF LocalOK
  <2>6. RecordOK(i)'
    <3>1. i \in accepted
      BY <2>5 DEF IInv, RecordOK
    <3>2. PICK q \in States : Has(i, q) /\ sends[i] <= store[i][q]
      BY <3>1 DEF IInv, RecordOK
    <3>3. PICK r \in States : r # s /\ Has(i, r) /\ store[i][s] <= store[i][r]
      BY <2>5
    <3>4. \E w \in States \ {s} : Has(i, w) /\ sends[i] <= store[i][w]
      BY <1>1, <3>2, <3>3 DEF Has, Absent, TypeOK
    <3> QED
      BY <1>1, <1>2, <1>5, <2>5, <3>1, <3>4, RemoveRecord DEF history, IInv
  <2>7. LocalOK("repair", o)'
    <3>1. ASSUME NEW c \in o.drop
          PROVE  /\ c[2] # "sent" /\ Has(c[1], c[2])'
                 /\ \E r \in States : /\ r # c[2] /\ <<c[1], r>> \notin o.drop
                                      /\ Has(c[1], r)'
                                      /\ store'[c[1]][c[2]] <= store'[c[1]][r]
      <4>1. c \in op[t].drop /\ c \in Ids \X States
        BY <1>3, <3>1, OpsFields
      <4>2. PICK r \in States : /\ r # c[2] /\ <<c[1], r>> \notin op[t].drop
                                /\ Has(c[1], r) /\ store[c[1]][c[2]] <= store[c[1]][r]
        BY <1>2, <4>1 DEF LocalOK
      <4>3. c[2] # "sent" /\ Has(c[1], c[2]) /\ c # <<i, s>>
        BY <1>2, <1>5, <3>1, <4>1 DEF LocalOK
      <4>4. <<c[1], r>> # <<i, s>> /\ <<c[1], r>> \notin o.drop
        BY <1>2, <1>3, <4>2
      <4>5. c = <<c[1], c[2]>> /\ c[1] \in Ids /\ c[2] \in States
        BY <4>1
      <4>6. store'[c[1]][c[2]] = store[c[1]][c[2]] /\ store'[c[1]][r] = store[c[1]][r]
        <5>1. CASE c[1] = i
          BY <2>1, <4>2, <4>3, <4>4, <4>5, <5>1
        <5>2. CASE c[1] # i
          BY <2>1, <4>5, <5>2
        <5> QED
          BY <5>1, <5>2
      <4> QED
        BY <4>2, <4>3, <4>4, <4>6 DEF Has
    <3>2. ASSUME NEW j \in o.todo PROVE Has(j, "sending")'
      <4>1. j \in Ids /\ Has(j, "sending")
        BY <1>2, <1>3, <3>2, OpsFields DEF LocalOK
      <4> QED
        BY <1>5, <2>1, <3>2, <4>1, StateNames DEF Has
    <3>3. o.want # NoId => o.want \in accepted'
      BY <1>2, <1>3, WantKnown DEF history
    <3> QED
      BY <3>1, <3>2, <3>3 DEF LocalOK
  <2> QED
    BY <1>2, <1>3, <2>2, <2>3, <2>6, <2>7, FilesKeeps DEF history, Holding
<1> QED
  BY <1>3, <1>4, <1>5

\* failStranded never writes an older attempt over a newer one.
LEMMA KeepsFailStranded ==
  ASSUME IInv, NEW t \in Threads, NEW i \in Ids, FailStranded(t, i)
  PROVE  IInv'
<1>1. Ready(t) /\ TypeOK
  BY ReadyAll DEF IInv
<1>2. /\ pc[t] = "repair" /\ i \in op[t].todo /\ op[t].drop = {}
      /\ UNCHANGED <<lock, mu, history>>
      /\ LocalOK("repair", op[t]) /\ lock = t
  BY HolderIs DEF FailStranded, IInv, Holding
<1>3. PICK o \in Ops :
           /\ o.want = op[t].want /\ o.drop = op[t].drop
           /\ \A j \in o.todo : j \in op[t].todo
           /\ \/ /\ Goes(t, "unstrand", o) /\ o.id = i /\ i \notin o.todo
                 /\ Write(i, "failed", store[i]["sending"]) /\ UNCHANGED mishaps
              \/ Goes(t, "repair", o) /\ (IOFails \/ UNCHANGED <<disk, mishaps>>)
  BY <1>1, FailStrandedGoes
<1>4. CASE Goes(t, "repair", o) /\ (IOFails \/ UNCHANGED <<disk, mishaps>>)
  <2>1. LocalOK("repair", o)
    BY <1>2, <1>3 DEF LocalOK
  <2>2. store' = store /\ torn' = torn /\ mishaps' \in Nat
    BY <1>1, <1>4, FailIs DEF disk, TypeOK
  <2> QED
    BY <1>1, <1>2, <1>4, <2>1, <2>2, QuietKeeps DEF Holding, TypeOK, Starting, history
<1>5. CASE /\ Goes(t, "unstrand", o) /\ o.id = i /\ i \notin o.todo
           /\ Write(i, "failed", store[i]["sending"]) /\ UNCHANGED mishaps
  <2> DEFINE n == store[i]["sending"]
  <2>0. Has(i, "sending") /\ n \in Nat /\ RecordOK(i) /\ i \in accepted
    BY <1>1, <1>2, StateNames DEF LocalOK, Has, TypeOK, Absent, IInv, RecordOK
  <2>1. /\ store' \in [Ids -> [States -> Nat \cup {Absent}]] /\ torn' \subseteq Ids \X States
        /\ store'[i]["failed"] = n /\ \A r \in States \ {"failed"} : store'[i][r] = store[i][r]
        /\ \A j \in Ids \ {i} : store'[j] = store[j]
    BY <1>1, <1>5, <2>0, StateNames, WriteIs
  <2>2. SharedTyped'
    BY <1>1, <1>2, <1>5, <2>1 DEF SharedTyped, TypeOK, history
  <2>3. Lawful
    <3>1. \A j \in Ids, r \in States \ {"failed"} : Has(j, r)' => Has(j, r)
      BY <2>1 DEF Has
    <3> QED
      BY <1>1, <1>2, <3>1, StateNames DEF Lawful, TypeOK, history
  <2>4. \A j \in Ids \ {i} : Undisturbed(j)
    BY <1>2, <2>1 DEF Undisturbed, history
  <2>5. RecordOK(i)'
    <3>1. /\ store[i] \in [States -> Nat \cup {Absent}] /\ sends[i] \in Nat /\ retries[i] \in Nat
          /\ sends'[i] = sends[i] /\ retries'[i] = retries[i] /\ accepted' = accepted
      BY <1>1, <1>2 DEF TypeOK, history
    <3>2. store'[i]["failed"] = store[i]["sending"] /\ store[i]["failed"] <= store[i]["sending"]
      BY <2>0, <2>1 DEF RecordOK
    <3>3. \A r \in States : store[i][r] <= store'[i][r] /\ (Has(i, r) => Has(i, r)')
      BY <2>0, <2>1, <3>1, <3>2 DEF Has, Absent
    <3>4. \E r \in States : Has(i, r)' /\ sends[i] <= store'[i][r]
      <4>1. PICK r \in States : Has(i, r) /\ sends[i] <= store[i][r]
        BY <2>0 DEF RecordOK
      <4>2. store'[i][r] \in Nat \cup {Absent}
        BY <2>1
      <4> QED
        BY <3>1, <3>3, <4>1, <4>2 DEF Absent
    <3>5. \A r \in States \ {"failed"} : Has(i, r)' <=> Has(i, r)
      BY <2>1 DEF Has
    <3>6. Has(i, "queued")' => /\ sends[i] <= store'[i]["queued"] /\ sends[i] <= retries[i]
                               /\ \A r \in States : store'[i][r] <= store'[i]["queued"] + 1
      BY <2>0, <2>1, <3>1, <3>2, <3>5, StateNames DEF RecordOK
    <3>7. Has(i, "sent")' => ~Has(i, "queued")' /\ \A r \in States : store'[i][r] <= store'[i]["sent"]
      BY <2>0, <2>1, <3>1, <3>2, <3>5, StateNames DEF RecordOK
    <3>8. store'[i]["failed"] <= store'[i]["sending"]
      BY <2>0, <2>1, StateNames
    <3> QED
      BY <2>0, <3>1, <3>4, <3>6, <3>7, <3>8 DEF RecordOK
  <2>6. LocalOK("unstrand", o)'
    <3>1. /\ Has(i, "failed")' /\ store'[i]["sending"] <= store'[i]["failed"]
      BY <2>0, <2>1, StateNames DEF Has, Absent
    <3>2. ASSUME NEW j \in o.todo PROVE j # i /\ Has(j, "sending")'
      <4>1. j \in Ids /\ j # i /\ Has(j, "sending")
        BY <1>2, <1>3, <1>5, <3>2, OpsFields DEF LocalOK
      <4> QED
        BY <2>1, <4>1 DEF Has
    <3>3. o.want # NoId => o.want \in accepted'
      BY <1>2, <1>3, WantKnown DEF history
    <3> QED
      BY <1>2, <1>3, <1>5, <3>1, <3>2, <3>3 DEF LocalOK
  <2> QED
    BY <1>2, <1>5, <2>2, <2>3, <2>4, <2>5, <2>6, FilesKeeps DEF history, Holding, Starting
<1> QED
  BY <1>3, <1>4, <1>5

\* The copy in sending goes when failed has it.
LEMMA KeepsUnstrand ==
  ASSUME IInv, NEW t \in Threads, Unstrand(t)
  PROVE  IInv'
<1>1. Ready(t) /\ TypeOK
  BY ReadyAll DEF IInv
<1>2. /\ pc[t] = "unstrand" /\ UNCHANGED <<lock, mu, history>>
      /\ LocalOK("unstrand", op[t]) /\ lock = t /\ op[t].id \in Ids
  BY <1>1, HolderIs, HasIt DEF Unstrand, IInv, Holding, WithMessage
<1>3. PICK o \in Ops :
           /\ Goes(t, "repair", o)
           /\ o.want = op[t].want /\ o.drop = op[t].drop /\ o.todo = op[t].todo
           /\ (Remove(op[t].id, "sending") /\ UNCHANGED mishaps) \/ IOFails
  BY <1>1, UnstrandGoes
<1>0. PICK i \in Ids : i = op[t].id
  BY <1>2
<1>4. /\ Has(i, "failed") /\ store[i]["sending"] <= store[i]["failed"]
      /\ o.drop = {} /\ \A j \in o.todo : j # i /\ j \in Ids /\ Has(j, "sending")
      /\ o.want # NoId => o.want \in accepted
  BY <1>0, <1>2, <1>3, OpsFields DEF LocalOK
<1>5. CASE IOFails
  <2>1. LocalOK("repair", o)
    BY <1>4 DEF LocalOK
  <2> QED
    BY <1>1, <1>2, <1>3, <1>5, <2>1, FailKeeps DEF Holding, TypeOK, Starting
<1>6. CASE Remove(i, "sending") /\ UNCHANGED mishaps
  <2>1. /\ store' \in [Ids -> [States -> Nat \cup {Absent}]] /\ torn' \subseteq Ids \X States
        /\ \A j \in Ids \ {i} : store'[j] = store[j]
    BY <1>1, <1>2, <1>6, StateNames, RemoveIs
  <2>2. SharedTyped'
    BY <1>1, <1>2, <1>6, <2>1 DEF SharedTyped, TypeOK, history
  <2>3. Lawful /\ \A j \in Ids \ {i} : Undisturbed(j)
    BY <1>1, <1>2, <1>6, StateNames, RemoveLawful
  <2>4. RecordOK(i)'
    <3>1. i \in accepted /\ RecordOK(i)
      BY <1>2, <1>4, StateNames DEF IInv, RecordOK
    <3>2. PICK q \in States : Has(i, q) /\ sends[i] <= store[i][q]
      BY <3>1 DEF RecordOK
    <3>3. \E w \in States \ {"sending"} : Has(i, w) /\ sends[i] <= store[i][w]
      BY <1>1, <1>2, <1>4, <3>2, StateNames DEF Has, Absent, TypeOK
    <3> QED
      BY <1>1, <1>2, <1>6, <3>1, <3>3, StateNames, RemoveRecord
  <2>5. LocalOK("repair", o)'
    BY <1>2, <1>4, <2>1 DEF LocalOK, Has, history
  <2> QED
    BY <1>2, <1>3, <1>6, <2>2, <2>3, <2>4, <2>5, FilesKeeps DEF history, Holding, Starting
<1> QED
  BY <1>0, <1>3, <1>5, <1>6

\* Taking the outbox, listing the queue and passing over a message touch no file.
LEMMA KeepsHold == ASSUME IInv, NEW t \in Threads, Hold(t) PROVE IInv'
<1>1. Ready(t) /\ TypeOK
  BY ReadyAll DEF IInv
<1>2. Goes(t, "list", op[t])
  BY <1>1, ReadyFacts
     DEF Hold, Goto, Goes, Ready, HasMessage, WithTarget, WithMessage, Delivering, PCs
<1>3. LocalOK("list", op[t])
  BY WantKnown DEF LocalOK
<1> QED
  BY <1>1, <1>2, <1>3, QuietKeeps DEF Hold, Holding, Starting, disk, history, TypeOK

\* Listing the backlog touches no file.
LEMMA KeepsListQueued == ASSUME IInv, NEW t \in Threads, ListQueued(t) PROVE IInv'
<1>1. Ready(t) /\ TypeOK
  BY ReadyAll DEF IInv
<1>2. PICK o \in Ops : Goes(t, "run", o) /\ o.want = op[t].want
  BY <1>1, ListQueuedGoes
<1>3. LocalOK("run", o)
  BY <1>2, WantKnown DEF LocalOK
<1>4. lock = t
  BY HolderIs DEF ListQueued, Holding
<1> QED
  BY <1>1, <1>2, <1>3, <1>4, QuietKeeps DEF ListQueued, Holding, Starting, disk, history, TypeOK

\* Passing over a message touches no file.
LEMMA KeepsSkipUnsendable ==
  ASSUME IInv, NEW t \in Threads, NEW i \in Ids, SkipUnsendable(t, i) PROVE IInv'
<1>1. Ready(t) /\ TypeOK
  BY ReadyAll DEF IInv
<1>2. Readable(i) \in BOOLEAN /\ pc[t] \in Delivering
  BY DEF Readable, SkipUnsendable, Delivering
<1>3. PICK o \in Ops : Goes(t, "run", o) /\ o.want = op[t].want
  BY <1>1, <1>2, SkipGoes DEF SkipUnsendable
<1>4. LocalOK("run", o)
  BY <1>3, WantKnown DEF LocalOK
<1>5. lock = t
  BY HolderIs DEF SkipUnsendable, Holding
<1> QED
  BY <1>1, <1>3, <1>4, <1>5, QuietKeeps DEF SkipUnsendable, Holding, Starting, disk, history, TypeOK

\* The end of a run releases the outbox; the status read that may follow starts clean.
LEMMA KeepsRunDone == ASSUME IInv, NEW t \in Threads, RunDone(t) PROVE IInv'
<1>1. Ready(t) /\ TypeOK /\ pc[t] = "run" /\ lock = t /\ lock' = Nobody
  BY ReadyAll, HolderIs DEF IInv, RunDone, Holding
<1>2. CASE Goes(t, Rest(t), NoOp) /\ NoOp.want = NoId
  <2>1. Rest(t) \in {"down", "idle"} /\ (t = Worker => Rest(t) = "idle")
    BY ThreadFacts DEF Rest
  <2>2. LocalOK(Rest(t), NoOp)
    BY <1>2, <2>1, IdleKnows DEF Holding
  <2> QED
    BY <1>1, <1>2, <2>1, <2>2, QuietKeeps DEF RunDone, Holding, Starting, disk, history, TypeOK
<1>3. CASE \E o \in Ops : /\ Goes(t, "scan", o) /\ o.want = op[t].want
                          /\ o.at = 1 /\ o.since = retries[op[t].want]
  <2>1. PICK o \in Ops : /\ Goes(t, "scan", o) /\ o.want = op[t].want
                         /\ o.at = 1 /\ o.since = retries[op[t].want]
    BY <1>3
  <2>2. o.since \in Nat /\ \A s \in States : ~(OutboxStates[s] < 1)
    BY OpsFields DEF States, OutboxStates
  <2>3. LocalOK("scan", o)
    BY <2>1, <2>2, WantKnown DEF LocalOK
  <2> QED
    BY <1>1, <2>1, <2>3, QuietKeeps DEF RunDone, Holding, Starting, disk, history, TypeOK
<1> QED
  BY <1>1, <1>2, <1>3, RunDoneGoes

\* SEND: the record that Find returns is in queued; its copy goes under sending first.
LEMMA KeepsStartSend ==
  ASSUME IInv, NEW t \in Threads, NEW i \in Ids, StartSend(t, i) PROVE IInv'
<1>1. Ready(t) /\ TypeOK
  BY ReadyAll DEF IInv
<1>2. /\ pc[t] = "run" /\ UNCHANGED <<lock, history>> /\ lock = t /\ Has(i, "queued")
      /\ mu' \in ServerThreads \cup {Nobody} /\ RecordOK(i)
  BY <1>1, HolderIs, FindsQueued, MuTyped DEF StartSend, IInv, Holding, Transition
<1>3. PICK o \in Ops :
           /\ o.want = op[t].want
           /\ \/ /\ Goes(t, "unqueue", o)
                 /\ o.id = i /\ o.attempts = store[i]["queued"] + 1
                 /\ Write(i, "sending", store[i]["queued"] + 1) /\ UNCHANGED mishaps
              \/ Goes(t, "run", o) /\ IOFails
  BY <1>1, StartSendGoes
<1>4. CASE Goes(t, "run", o) /\ IOFails
  <2>1. LocalOK("run", o)
    BY <1>3, WantKnown DEF LocalOK
  <2> QED
    BY <1>1, <1>2, <1>4, <2>1, FailKeeps DEF Holding, Starting
<1>5. CASE /\ Goes(t, "unqueue", o)
           /\ o.id = i /\ o.attempts = store[i]["queued"] + 1
           /\ Write(i, "sending", store[i]["queued"] + 1) /\ UNCHANGED mishaps
  <2> DEFINE n == store[i]["queued"] + 1
  <2>0. /\ store[i] \in [States -> Nat \cup {Absent}] /\ sends[i] \in Nat /\ retries[i] \in Nat
        /\ sends'[i] = sends[i] /\ retries'[i] = retries[i] /\ accepted' = accepted
        /\ n \in Nat /\ store[i]["queued"] \in Nat
    BY <1>1, <1>2, StateNames DEF TypeOK, history, Has, Absent
  <2>1. /\ store' \in [Ids -> [States -> Nat \cup {Absent}]] /\ torn' \subseteq Ids \X States
        /\ store'[i]["sending"] = n /\ \A r \in States \ {"sending"} : store'[i][r] = store[i][r]
        /\ \A j \in Ids \ {i} : store'[j] = store[j]
    BY <1>1, <1>5, <2>0, StateNames, WriteIs
  <2>2. SharedTyped'
    BY <1>1, <1>2, <1>5, <2>1 DEF SharedTyped, TypeOK, history
  <2>3. Lawful
    <3>1. \A j \in Ids, r \in States :
            (r # "sending" \/ j # i) => (Has(j, r)' => Has(j, r))
      BY <2>1 DEF Has
    <3> QED
      BY <1>1, <1>2, <3>1, StateNames DEF Lawful, TypeOK, history
  <2>4. \A j \in Ids \ {i} : Undisturbed(j)
    BY <1>2, <2>1 DEF Undisturbed, history
  <2>5. /\ i \in accepted /\ sends[i] <= store[i]["queued"] /\ sends[i] <= retries[i]
        /\ ~Has(i, "sent") /\ \A s \in States : store[i][s] <= n
    BY <1>2, StateNames DEF RecordOK
  <2>6. /\ Has(i, "queued")' /\ store'[i]["queued"] = store[i]["queued"] /\ ~Has(i, "sent")'
        /\ store'[i]["sending"] = n
        /\ \A s \in States : store'[i][s] <= n
    BY <1>2, <2>0, <2>1, <2>5, StateNames DEF Has
  <2>7. RecordOK(i)'
    BY <2>0, <2>5, <2>6, StateNames DEF RecordOK
  <2>8. LocalOK("unqueue", o)'
    <3>1. o.want # NoId => o.want \in accepted'
      BY <1>3, <2>0, WantKnown
    <3> QED
      BY <1>5, <2>6, <3>1 DEF LocalOK
  <2> QED
    BY <1>2, <1>5, <2>2, <2>3, <2>4, <2>7, <2>8, FilesKeeps DEF history, Holding, Starting
<1> QED
  BY <1>3, <1>4, <1>5

\* The message leaves queued: from here on the copy in sending stands for it.
LEMMA KeepsUnqueue == ASSUME IInv, NEW t \in Threads, Unqueue(t) PROVE IInv'
<1>1. Ready(t) /\ TypeOK
  BY ReadyAll DEF IInv
<1>2. /\ pc[t] = "unqueue" /\ UNCHANGED <<lock, history>> /\ lock = t
      /\ op[t].id \in Ids /\ LocalOK("unqueue", op[t])
      /\ mu' \in ServerThreads \cup {Nobody}
  BY <1>1, HolderIs, HasIt, MuTyped DEF Unqueue, IInv, Holding, WithMessage
<1>3. PICK o \in Ops :
           /\ o.want = op[t].want
           /\ \/ /\ Goes(t, "wire", o) /\ o = op[t]
                 /\ Remove(op[t].id, "queued") /\ UNCHANGED mishaps
              \/ Goes(t, "run", o) /\ IOFails
  BY <1>1, UnqueueGoes
<1>4. CASE Goes(t, "run", o) /\ IOFails
  <2>1. LocalOK("run", o)
    BY <1>3, WantKnown DEF LocalOK
  <2> QED
    BY <1>1, <1>2, <1>4, <2>1, FailKeeps DEF Holding, Starting
<1>5. CASE /\ Goes(t, "wire", o) /\ o = op[t]
           /\ Remove(op[t].id, "queued") /\ UNCHANGED mishaps
  <2>0. PICK i \in Ids : i = o.id
    BY <1>2, <1>5
  <2>1. /\ Has(i, "queued") /\ ~Has(i, "sent")
        /\ o.attempts = store[i]["queued"] + 1 /\ o.attempts = store[i]["sending"]
        /\ RecordOK(i) /\ i \in accepted /\ Remove(i, "queued") /\ o.attempts \in Nat
        /\ store[i] \in [States -> Nat \cup {Absent}] /\ sends[i] \in Nat /\ retries[i] \in Nat
    BY <1>1, <1>2, <1>5, <2>0, OpsFields, StateNames DEF LocalOK, IInv, RecordOK, TypeOK
  <2>2. /\ sends[i] <= store[i]["queued"] /\ sends[i] <= retries[i]
        /\ \A s \in States : store[i][s] <= o.attempts
    BY <2>1 DEF RecordOK
  <2>3. /\ store' \in [Ids -> [States -> Nat \cup {Absent}]] /\ torn' \subseteq Ids \X States
        /\ store'[i]["queued"] = Absent /\ \A r \in States \ {"queued"} : store'[i][r] = store[i][r]
        /\ \A j \in Ids \ {i} : store'[j] = store[j]
    BY <1>1, <2>1, StateNames, RemoveIs
  <2>4. SharedTyped'
    BY <1>1, <1>2, <1>5, <2>3 DEF SharedTyped, TypeOK, history
  <2>5. Lawful /\ \A j \in Ids \ {i} : Undisturbed(j)
    BY <1>1, <1>2, <2>1, StateNames, RemoveLawful
  <2>6. Has(i, "sending") /\ sends[i] < store[i]["sending"]
    BY <2>1, <2>2, StateNames DEF Has, Absent
  <2>7. RecordOK(i)'
    <3>1. \E r \in States \ {"queued"} : Has(i, r) /\ sends[i] <= store[i][r]
      BY <2>1, <2>6, StateNames
    <3> QED
      BY <1>1, <1>2, <2>1, <3>1, StateNames, RemoveRecord
  <2>8. LocalOK("wire", o)'
    <3>1. o.want # NoId => o.want \in accepted'
      BY <1>2, <1>3, WantKnown DEF history
    <3>2. ~Has(i, "queued")' /\ ~Has(i, "sent")' /\ store'[i]["sending"] = o.attempts
          /\ \A s \in States : store'[i][s] <= o.attempts
      BY <2>1, <2>2, <2>3, StateNames DEF Has, Absent
    <3>3. sends'[i] < o.attempts /\ sends'[i] <= retries'[i]
      BY <1>2, <2>1, <2>2, <2>6 DEF history
    <3> QED
      BY <2>0, <3>1, <3>2, <3>3 DEF LocalOK, OnTheWire
  <2> QED
    BY <1>2, <1>5, <2>4, <2>5, <2>7, <2>8, FilesKeeps DEF history, Holding, Starting
<1> QED
  BY <1>3, <1>4, <1>5

\* The wire send: the copy in sending has counted it, and a decision stands for it.
LEMMA KeepsSend == ASSUME IInv, NEW t \in Threads, Send(t) PROVE IInv'
<1>1. Ready(t) /\ TypeOK
  BY ReadyAll DEF IInv
<1>2. /\ pc[t] = "wire" /\ UNCHANGED <<disk, lock, mu, accepted, retries, mishaps>> /\ lock = t
      /\ op[t].id \in Ids /\ LocalOK("wire", op[t])
      /\ sends' = [sends EXCEPT ![op[t].id] = @ + 1]
  BY <1>1, HolderIs, HasIt DEF Send, IInv, Holding, WithMessage
<1>3. PICK l \in {"SUCCEED", "FAIL"} : Goes(t, l, op[t])
  BY <1>1, SendGoes
<1>4. PICK o \in Ops, i \in Ids : o = op[t] /\ i = op[t].id
  BY <1>1, <1>2, ReadyFacts
<1>5. /\ store[i] \in [States -> Nat \cup {Absent}] /\ sends[i] \in Nat /\ retries[i] \in Nat
      /\ o.attempts \in Nat /\ RecordOK(i) /\ store'[i] = store[i]
      /\ sends'[i] = sends[i] + 1 /\ retries'[i] = retries[i] /\ accepted' = accepted
  BY <1>1, <1>2, <1>4, OpsFields DEF TypeOK, IInv, disk
<1>6. /\ OnTheWire(i, o.attempts) /\ sends[i] < o.attempts /\ sends[i] <= retries[i]
  BY <1>2, <1>4 DEF LocalOK
<1>7. Has(i, "sending") /\ i \in accepted
  BY <1>5, <1>6, StateNames DEF OnTheWire, Has, Absent, RecordOK
<1>8. SharedTyped'
  BY <1>1, <1>2 DEF SharedTyped, TypeOK, disk
<1>9. Lawful
  BY <1>1, <1>2 DEF Lawful, TypeOK, disk, Has
<1>10. \A j \in Ids \ {i} : Undisturbed(j)
  BY <1>1, <1>2, <1>4 DEF Undisturbed, disk, TypeOK
<1>11. RecordOK(i)'
  BY <1>5, <1>6, <1>7, StateNames DEF RecordOK, OnTheWire, Has
<1>12. LocalOK(l, o)'
  <2>1. o.want # NoId => o.want \in accepted'
    BY <1>4, <1>5, WantKnown
  <2>2. OnTheWire(i, o.attempts)' /\ sends'[i] <= o.attempts
    BY <1>5, <1>6 DEF OnTheWire, Has
  <2> QED
    BY <1>3, <1>4, <2>1, <2>2 DEF LocalOK
<1> QED
  BY <1>2, <1>3, <1>4, <1>8, <1>9, <1>10, <1>11, <1>12, FilesKeeps DEF Holding, Starting

\* SUCCEED and FAIL: the outcome is written with the attempts of the copy in sending.
LEMMA KeepsRecord == ASSUME IInv, NEW t \in Threads, Record(t) PROVE IInv'
<1>1. Ready(t) /\ TypeOK
  BY ReadyAll DEF IInv
<1>2. /\ pc[t] \in {"SUCCEED", "FAIL"} /\ UNCHANGED <<lock, history>> /\ lock = t
      /\ op[t].id \in Ids /\ LocalOK(pc[t], op[t])
      /\ mu' \in ServerThreads \cup {Nobody}
  BY <1>1, HolderIs, HasIt, MuTyped DEF Record, IInv, Holding, WithMessage
<1>3. PICK o \in Ops :
           /\ o.want = op[t].want
           /\ \/ /\ Goes(t, "unsend", o) /\ o = op[t] /\ UNCHANGED mishaps
                 /\ \E s \in {"sent", "failed"} : Write(op[t].id, s, op[t].attempts)
              \/ Goes(t, "run", o) /\ IOFails
  BY <1>1, RecordGoes
<1>4. CASE Goes(t, "run", o) /\ IOFails
  <2>1. LocalOK("run", o)
    BY <1>3, WantKnown DEF LocalOK
  <2> QED
    BY <1>1, <1>2, <1>4, <2>1, FailKeeps DEF Holding, Starting
<1>5. CASE /\ Goes(t, "unsend", o) /\ o = op[t] /\ UNCHANGED mishaps
           /\ \E s \in {"sent", "failed"} : Write(op[t].id, s, op[t].attempts)
  <2>0. PICK i \in Ids, s \in {"sent", "failed"} : i = o.id /\ Write(i, s, o.attempts)
    BY <1>2, <1>5
  <2> DEFINE n == o.attempts
  <2>1. /\ OnTheWire(i, n) /\ sends[i] <= n /\ RecordOK(i) /\ n \in Nat
        /\ store[i] \in [States -> Nat \cup {Absent}] /\ sends[i] \in Nat /\ retries[i] \in Nat
        /\ sends'[i] = sends[i] /\ retries'[i] = retries[i] /\ accepted' = accepted
    BY <1>1, <1>2, <1>5, <2>0, OpsFields DEF LocalOK, IInv, TypeOK, history
  <2>2. Has(i, "sending") /\ i \in accepted
    BY <2>1, StateNames DEF OnTheWire, Has, Absent, RecordOK
  <2>3. /\ store' \in [Ids -> [States -> Nat \cup {Absent}]] /\ torn' \subseteq Ids \X States
        /\ store'[i][s] = n /\ \A r \in States \ {s} : store'[i][r] = store[i][r]
        /\ \A j \in Ids \ {i} : store'[j] = store[j]
    BY <1>1, <2>0, <2>1, StateNames, WriteIs
  <2>4. SharedTyped'
    BY <1>1, <1>2, <1>5, <2>3 DEF SharedTyped, TypeOK, history
  <2>5. \A j \in Ids \ {i} : Undisturbed(j)
    BY <1>2, <2>3 DEF Undisturbed, history
  <2>6. Lawful
    <3>1. \A j \in Ids, r \in States :
            (r \notin {"sent", "failed"} \/ j # i) => (Has(j, r)' => Has(j, r))
      BY <2>3 DEF Has
    <3> QED
      BY <1>1, <1>2, <2>2, <3>1, StateNames DEF Lawful, TypeOK, history
  <2>7. /\ \A r \in States : store'[i][r] <= n
        /\ store'[i]["sending"] = n /\ ~Has(i, "queued")'
        /\ s = "failed" => ~Has(i, "sent")'
        /\ s = "sent" => store'[i]["sent"] = n
    BY <2>1, <2>3, StateNames DEF OnTheWire, Has
  <2>8. RecordOK(i)'
    <3>1. Has(i, "sending")'
      BY <2>1, <2>7 DEF Has, Absent
    <3>2. Has(i, "sent")' => s = "sent"
      BY <2>0, <2>7
    <3> QED
      BY <2>1, <2>2, <2>7, <3>1, <3>2, StateNames DEF RecordOK
  <2>9. LocalOK("unsend", o)'
    <3>1. o.want # NoId => o.want \in accepted'
      BY <1>2, <1>3, WantKnown DEF history
    <3>2. Has(i, s)' /\ store'[i]["sending"] <= store'[i][s]
      BY <2>1, <2>3, <2>7 DEF Has, Absent
    <3> QED
      BY <2>0, <3>1, <3>2 DEF LocalOK
  <2> QED
    BY <1>2, <1>5, <2>4, <2>5, <2>6, <2>8, <2>9, FilesKeeps DEF history, Holding, Starting
<1> QED
  BY <1>3, <1>4, <1>5

\* The copy in sending goes when sent or failed has caught up with it.
LEMMA KeepsUnsend == ASSUME IInv, NEW t \in Threads, Unsend(t) PROVE IInv'
<1>1. Ready(t) /\ TypeOK
  BY ReadyAll DEF IInv
<1>2. /\ pc[t] = "unsend" /\ UNCHANGED <<lock, history>> /\ lock = t
      /\ op[t].id \in Ids /\ LocalOK("unsend", op[t])
      /\ mu' \in ServerThreads \cup {Nobody}
  BY <1>1, HolderIs, HasIt, MuTyped DEF Unsend, IInv, Holding, WithMessage
<1>3. PICK o \in Ops :
           /\ Goes(t, "run", o) /\ o.want = op[t].want
           /\ (Remove(op[t].id, "sending") /\ UNCHANGED mishaps) \/ IOFails
  BY <1>1, UnsendGoes
<1>4. LocalOK("run", o)
  BY <1>3, WantKnown DEF LocalOK
<1>5. CASE IOFails
  BY <1>1, <1>2, <1>3, <1>4, <1>5, FailKeeps DEF Holding, Starting
<1>6. CASE Remove(op[t].id, "sending") /\ UNCHANGED mishaps
  <2>0. PICK i \in Ids : i = op[t].id
    BY <1>2
  <2>1. /\ Remove(i, "sending") /\ RecordOK(i)
        /\ store[i] \in [States -> Nat \cup {Absent}] /\ sends[i] \in Nat
    BY <1>1, <1>6, <2>0 DEF IInv, TypeOK
  <2>2. PICK r \in {"sent", "failed"} : Has(i, r) /\ store[i]["sending"] <= store[i][r]
    BY <1>2, <2>0 DEF LocalOK
  <2>3. i \in accepted
    BY <2>1, <2>2, StateNames DEF RecordOK
  <2>4. \E w \in States \ {"sending"} : Has(i, w) /\ sends[i] <= store[i][w]
    <3>1. PICK q \in States : Has(i, q) /\ sends[i] <= store[i][q]
      BY <2>1, <2>3 DEF RecordOK
    <3> QED
      BY <2>1, <2>2, <3>1, StateNames DEF Has, Absent
  <2>5. RecordOK(i)'
    BY <1>1, <1>2, <2>1, <2>3, <2>4, StateNames, RemoveRecord
  <2>6. Lawful /\ \A j \in Ids \ {i} : Undisturbed(j)
    BY <1>1, <1>2, <2>1, StateNames, RemoveLawful
  <2>7. store' \in [Ids -> [States -> Nat \cup {Absent}]] /\ torn' \subseteq Ids \X States
    BY <1>1, <2>1, StateNames, RemoveIs
  <2>8. SharedTyped'
    BY <1>1, <1>2, <1>6, <2>7 DEF SharedTyped, TypeOK, history
  <2>9. LocalOK("run", o)'
    BY <1>2, <1>4 DEF LocalOK, history
  <2> QED
    BY <1>2, <1>3, <2>5, <2>6, <2>8, <2>9, FilesKeeps DEF history, Holding, Starting
<1> QED
  BY <1>3, <1>5, <1>6

-----------------------------------------------------------------------------
(* Retry.                                                                   *)

\* Taking the outbox for a retry touches no file.
LEMMA KeepsHoldRetry == ASSUME IInv, NEW t \in Threads, HoldRetry(t) PROVE IInv'
<1>1. Ready(t) /\ TypeOK
  BY ReadyAll DEF IInv
<1>2. Goes(t, "retry", op[t])
  BY <1>1, ReadyFacts
     DEF HoldRetry, Goto, Goes, Ready, HasMessage, WithTarget, WithMessage, Delivering, PCs
<1>3. LocalOK("retry", op[t])
  BY WantKnown DEF LocalOK
<1> QED
  BY <1>1, <1>2, <1>3, QuietKeeps DEF HoldRetry, Holding, Starting, disk, history, TypeOK

\* A thread comes to rest in a state in which it does not hold the outbox.
LEMMA RestKnows ==
  ASSUME NEW t \in Threads
  PROVE  /\ Rest(t) \in {"down", "idle"} /\ Rest(t) \notin Holding
         /\ t = Worker => Rest(t) \notin Starting
         /\ LocalOK(Rest(t), NoOp)
<1>1. Rest(t) \in {"down", "idle"} /\ (t = Worker => Rest(t) = "idle")
  BY ThreadFacts DEF Rest
<1>2. NoOp.want = NoId
  BY DEF NoOp
<1> QED
  BY <1>1, <1>2, IdleKnows DEF Holding, Starting

\* A refused retry touches no file and releases the outbox.
LEMMA KeepsRetryRefused == ASSUME IInv, NEW t \in Threads, RetryRefused(t) PROVE IInv'
<1>1. Ready(t) /\ TypeOK /\ pc[t] = "retry" /\ lock = t
  BY ReadyAll, HolderIs DEF IInv, RetryRefused, Holding
<1>2. Goes(t, Rest(t), NoOp)
  BY <1>1, RestIs, EndGoes DEF RetryRefused, RetryFails
<1> QED
  BY <1>1, <1>2, RestKnows, QuietKeeps DEF RetryRefused, RetryFails, disk, history, TypeOK

\* RETRY: only a record all of whose copies are in failed is written under queued, and
\* the decision it stands for is counted.
LEMMA KeepsRequeue == ASSUME IInv, NEW t \in Threads, Requeue(t) PROVE IInv'
<1>1. Ready(t) /\ TypeOK
  BY ReadyAll DEF IInv
<1>2. PICK i \in Ids : i = op[t].want
  BY <1>1, RequeueGoes
<1>3. /\ pc[t] = "retry" /\ lock = t /\ UNCHANGED <<accepted, sends>>
      /\ FindsIn(i, "failed") /\ mu' \in ServerThreads \cup {Nobody}
  BY <1>1, <1>2, HolderIs, MuTyped DEF Requeue, Holding, Transition
<1>4. CASE Goes(t, Rest(t), NoOp) /\ IOFails /\ lock' = Nobody /\ UNCHANGED retries
  BY <1>1, <1>3, <1>4, RestKnows, FailKeeps DEF history
<1>5. CASE /\ Goes(t, "unfail", op[t])
           /\ Write(i, "queued", store[i]["failed"]) /\ UNCHANGED <<lock, mishaps>>
           /\ retries' = [retries EXCEPT ![i] = @ + 1]
  <2>1. PICK o \in Ops : o = op[t]
    BY <1>1, ReadyFacts
  <2> DEFINE n == store[i]["failed"]
  <2>2. Has(i, "failed") /\ \A s \in States : Has(i, s) => s = "failed"
    BY <1>1, <1>3, FindsFailed
  <2>3. /\ store[i] \in [States -> Nat \cup {Absent}] /\ sends[i] \in Nat /\ retries[i] \in Nat
        /\ sends'[i] = sends[i] /\ retries'[i] = retries[i] + 1 /\ accepted' = accepted
        /\ n \in Nat /\ RecordOK(i)
    BY <1>1, <1>3, <1>5, <2>2, StateNames DEF TypeOK, Has, Absent, IInv
  <2>4. i \in accepted /\ sends[i] <= n
    BY <2>2, <2>3, StateNames DEF RecordOK
  <2>5. /\ store' \in [Ids -> [States -> Nat \cup {Absent}]] /\ torn' \subseteq Ids \X States
        /\ store'[i]["queued"] = n /\ \A r \in States \ {"queued"} : store'[i][r] = store[i][r]
        /\ \A j \in Ids \ {i} : store'[j] = store[j]
    BY <1>1, <1>5, <2>3, StateNames, WriteIs
  <2>6. SharedTyped'
    <3>1. retries' \in [Ids -> Nat]
      BY <1>1, <1>5 DEF TypeOK
    <3> QED
      BY <1>1, <1>3, <1>5, <2>5, <3>1 DEF SharedTyped, TypeOK
  <2>7. \A j \in Ids \ {i} : Undisturbed(j)
    BY <1>1, <1>3, <1>5, <2>5 DEF Undisturbed, TypeOK
  <2>8. Lawful
    <3>1. ASSUME NEW j \in Ids
          PROVE  /\ retries[j] <= retries'[j]
                 /\ retries'[j] = retries[j] => \A r \in States : Has(j, r)' => Has(j, r)
      <4>1. CASE j = i
        BY <2>3, <4>1
      <4>2. CASE j # i
        BY <1>1, <2>7, <4>2 DEF Undisturbed, Has, TypeOK
      <4> QED
        BY <4>1, <4>2
    <3> QED
      BY <1>3, <3>1, StateNames DEF Lawful
  <2>9. /\ \A s \in States : store'[i][s] <= n
        /\ Has(i, "queued")' /\ ~Has(i, "sent")' /\ ~Has(i, "sending")'
    BY <2>2, <2>3, <2>5, StateNames DEF Has, Absent
  <2>10. RecordOK(i)'
    <3>1. sends'[i] <= 1 + retries'[i] /\ sends'[i] <= retries'[i]
      BY <2>3 DEF RecordOK
    <3>2. sends'[i] <= store'[i]["queued"]
      BY <2>3, <2>4, <2>5
    <3>3. \A s \in States : store'[i][s] <= store'[i]["queued"] + 1
      <4>1. \A s \in States : store'[i][s] \in Nat \cup {Absent}
        BY <2>5
      <4> QED
        BY <2>3, <2>5, <2>9, <4>1 DEF Absent
    <3> QED
      BY <2>3, <2>4, <2>9, <3>1, <3>2, <3>3, StateNames DEF RecordOK
  <2>11. LocalOK("unfail", o)'
    BY <1>2, <2>1, <2>3, <2>4, <2>9 DEF LocalOK
  <2> QED
    BY <1>3, <1>5, <2>1, <2>6, <2>7, <2>8, <2>10, <2>11, FilesKeeps DEF Holding, Starting
<1> QED
  BY <1>1, <1>2, <1>4, <1>5, RequeueGoes

\* The copy in failed goes when queued has it.
LEMMA KeepsUnfail == ASSUME IInv, NEW t \in Threads, Unfail(t) PROVE IInv'
<1>1. Ready(t) /\ TypeOK
  BY ReadyAll DEF IInv
<1>2. /\ pc[t] = "unfail" /\ UNCHANGED history /\ lock = t
      /\ LocalOK("unfail", op[t]) /\ mu' \in ServerThreads \cup {Nobody}
  BY <1>1, HolderIs, MuTyped DEF Unfail, IInv, Holding
<1>3. /\ op[t].want \in Ids /\ lock' = Nobody
      /\ \/ Goes(t, "wait", op[t])
         \/ Goes(t, Rest(t), NoOp)
      /\ (Remove(op[t].want, "failed") /\ UNCHANGED mishaps) \/ IOFails
  BY <1>1, UnfailGoes
<1>4. PICK l \in PCs, o \in Ops :
                          /\ Goes(t, l, o) /\ l \notin Holding
                          /\ LocalOK(l, o) /\ (t = Worker => l \notin Starting)
                          /\ l \in {"wait", "down", "idle"}
  <2>1. CASE Goes(t, "wait", op[t])
    <3>1. LocalOK("wait", op[t])
      BY IdleKnows, WantKnown DEF Holding
    <3> QED
      BY <1>1, <2>1, <3>1, ReadyFacts DEF Holding, Starting, Goes
  <2>2. CASE Goes(t, Rest(t), NoOp)
    BY <2>2, RestKnows DEF Goes
  <2> QED
    BY <1>3, <2>1, <2>2
<1>5. CASE IOFails
  BY <1>1, <1>2, <1>3, <1>4, <1>5, FailKeeps
<1>6. CASE Remove(op[t].want, "failed") /\ UNCHANGED mishaps
  <2>0. PICK i \in Ids : i = op[t].want
    BY <1>3
  <2>1. /\ Remove(i, "failed") /\ RecordOK(i) /\ Has(i, "queued")
    BY <1>2, <1>6, <2>0 DEF IInv, LocalOK
  <2>3. i \in accepted /\ sends[i] <= store[i]["queued"]
    BY <2>1, StateNames DEF RecordOK
  <2>5. RecordOK(i)'
    BY <1>1, <1>2, <2>1, <2>3, StateNames, RemoveRecord
  <2>6. Lawful /\ \A j \in Ids \ {i} : Undisturbed(j)
    BY <1>1, <1>2, <2>1, StateNames, RemoveLawful
  <2>7. store' \in [Ids -> [States -> Nat \cup {Absent}]] /\ torn' \subseteq Ids \X States
    BY <1>1, <2>1, StateNames, RemoveIs
  <2>8. SharedTyped'
    BY <1>1, <1>2, <1>3, <1>6, <2>7 DEF SharedTyped, TypeOK, history
  <2>9. LocalOK(l, o)'
    BY <1>2, <1>4 DEF LocalOK, history
  <2> QED
    BY <1>2, <1>3, <1>4, <2>5, <2>6, <2>8, <2>9, FilesKeeps DEF history
<1> QED
  BY <1>3, <1>5, <1>6

(* Status.                                                                  *)
\* A scan that found nothing so far is right about it unless the message was retried.
LEMMA KeepsScan == ASSUME IInv, NEW t \in Threads, Scan(t) PROVE IInv'
<1>1. /\ Ready(t) /\ TypeOK /\ pc[t] = "scan" /\ UNCHANGED <<disk, lock, history, mishaps>>
      /\ LocalOK("scan", op[t]) /\ lock # t /\ op[t].want \in Ids
      /\ mu' \in ServerThreads \cup {Nobody}
  BY ReadyAll, HolderIs, HasIt, MuTyped DEF IInv, Scan, Holding, WithTarget
<1> DEFINE s == CHOOSE r \in States : OutboxStates[r] = op[t].at
           i == op[t].want
<1>2. s \in States /\ \A r \in States : OutboxStates[r] <= op[t].at => r = s \/ OutboxStates[r] < op[t].at
  <2>1. op[t].at \in 1..4
    BY <1>1, ReadyFacts
  <2>2. \E r \in States : OutboxStates[r] = op[t].at
    BY <2>1 DEF States, OutboxStates
  <2>3. s \in States /\ OutboxStates[s] = op[t].at
    BY <2>2
  <2> HIDE DEF s
  <2> QED
    BY <2>1, <2>3 DEF States, OutboxStates
<1>3. /\ op[t].since <= retries[i]
      /\ op[t].since = retries[i] => \A r \in States : OutboxStates[r] < op[t].at => ~Has(i, r)
      /\ i \in accepted
  BY <1>1, NoIdIsNoId DEF LocalOK
<1>4. \/ Goes(t, Rest(t), NoOp)
      \/ /\ s \notin Held(store[i])
         /\ \/ \E o \in Ops : /\ Goes(t, "scan", o) /\ o.want = op[t].want
                              /\ o.since = op[t].since /\ o.at = op[t].at + 1
            \/ Goes(t, "unknown", op[t]) /\ op[t].at = 4
  BY <1>1, ScanGoes
<1>5. CASE Goes(t, Rest(t), NoOp)
  BY <1>1, <1>5, RestKnows, QuietKeeps DEF disk, history, TypeOK
<1>6. ASSUME s \notin Held(store[i]), op[t].since = retries[i],
             NEW r \in States, OutboxStates[r] <= op[t].at
      PROVE  ~Has(i, r)
  BY <1>2, <1>3, <1>6 DEF Held, Has
<1> HIDE DEF s
<1>7. CASE /\ s \notin Held(store[i])
           /\ \E o \in Ops : /\ Goes(t, "scan", o) /\ o.want = op[t].want
                             /\ o.since = op[t].since /\ o.at = op[t].at + 1
  <2>1. PICK o \in Ops : /\ Goes(t, "scan", o) /\ o.want = op[t].want
                         /\ o.since = op[t].since /\ o.at = op[t].at + 1
    BY <1>7
  <2>2. o.since = retries[i] => \A r \in States : OutboxStates[r] < o.at => ~Has(i, r)
    <3>1. \A r \in States : OutboxStates[r] \in Nat
      BY DEF States, OutboxStates
    <3>2. op[t].at \in Nat
      BY <1>1, ReadyFacts
    <3> QED
      BY <1>6, <1>7, <2>1, <3>1, <3>2
  <2>3. LocalOK("scan", o)
    BY <1>3, <2>1, <2>2 DEF LocalOK
  <2> QED
    BY <1>1, <2>1, <2>3, QuietKeeps DEF disk, history, Holding, Starting, TypeOK
<1>8. CASE s \notin Held(store[i]) /\ Goes(t, "unknown", op[t]) /\ op[t].at = 4
  <2>1. op[t].since # retries[i]
    <3>1. PICK r \in States : Has(i, r)
      BY <1>1, <1>3 DEF IInv, RecordOK
    <3>2. OutboxStates[r] <= 4
      BY DEF States, OutboxStates
    <3> QED
      BY <1>6, <1>8, <3>1, <3>2
  <2>2. op[t].since < retries[i]
    <3>1. retries[i] \in Nat /\ op[t].since \in Nat
      BY <1>1, ReadyFacts DEF TypeOK
    <3> QED
      BY <1>3, <2>1, <3>1
  <2>3. LocalOK("unknown", op[t])
    BY <1>3, <2>2 DEF LocalOK
  <2> QED
    BY <1>1, <1>8, <2>3, QuietKeeps DEF disk, history, Holding, Starting, TypeOK
<1> QED
  BY <1>4, <1>5, <1>7, <1>8

\* Reporting an unknown id ends the query.
LEMMA KeepsReportUnknown == ASSUME IInv, NEW t \in Threads, ReportUnknown(t) PROVE IInv'
<1>1. Ready(t) /\ TypeOK /\ pc[t] = "unknown" /\ lock # t
  BY ReadyAll, HolderIs DEF IInv, ReportUnknown, Holding
<1>2. Goes(t, Rest(t), NoOp)
  BY <1>1, RestIs, EndGoes DEF ReportUnknown
<1> QED
  BY <1>1, <1>2, RestKnows, QuietKeeps DEF ReportUnknown, disk, history, TypeOK

-----------------------------------------------------------------------------
(* Requests.                                                                *)

\* Enqueue holds no file lock: the files it writes are of an id nobody knows yet.
LEMMA KeepsEnqueue ==
  ASSUME IInv, NEW t \in Threads, NEW i \in Ids, NEW l \in {"wait", "idle"}, Enqueue(t, i, l),
         t \notin Clients => l = "idle", pc[t] \in {"down", "idle"},
         pc[t] = "down" => t \notin Handlers
  PROVE  IInv'
<1>1. /\ Ready(t) /\ TypeOK /\ lock # t
      /\ i \notin accepted /\ Write(i, "queued", 0) /\ accepted' = accepted \cup {i}
      /\ UNCHANGED <<lock, mu, sends, retries, mishaps>>
  BY ReadyAll, HolderIs DEF IInv, Enqueue, Holding
<1>2. PICK o \in Ops : Goes(t, l, o) /\ o.want \in {i, op[t].want}
  BY <1>1, EnqueueGoes
<1>3. /\ store' \in [Ids -> [States -> Nat \cup {Absent}]] /\ torn' \subseteq Ids \X States
      /\ store'[i]["queued"] = 0 /\ \A r \in States \ {"queued"} : store'[i][r] = store[i][r]
      /\ \A j \in Ids \ {i} : store'[j] = store[j]
  BY <1>1, StateNames, WriteIs
<1>4. /\ sends[i] = 0 /\ sends'[i] = 0 /\ retries[i] \in Nat /\ retries'[i] = retries[i]
      /\ \A s \in States : ~Has(i, s)
  BY <1>1 DEF IInv, RecordOK, TypeOK
<1>5. SharedTyped'
  BY <1>1, <1>3 DEF SharedTyped, TypeOK
<1>6. Lawful
  <2>1. \A j \in accepted : store'[j] = store[j] /\ j \in Ids
    BY <1>1, <1>3 DEF TypeOK
  <2> QED
    BY <1>1, <2>1 DEF Lawful, Has, TypeOK
<1>7. \A j \in Ids \ {i} : Undisturbed(j)
  BY <1>1, <1>3 DEF Undisturbed
<1>8. \A j \in accepted : Undisturbed(j)
  BY <1>1, <1>7 DEF TypeOK
<1>9. \A j \in Ids : RecordOK(j)'
  <2>1. RecordOK(i)'
    <3>1. \A s \in States : s # "queued" => store'[i][s] = Absent
      BY <1>3, <1>4 DEF Has
    <3> QED
      BY <1>1, <1>3, <1>4, <3>1, StateNames DEF RecordOK, Has, Absent
  <2>2. ASSUME NEW j \in Ids \ {i} PROVE RecordOK(j)'
    BY <1>1, <1>7, <2>2, RecordSame DEF IInv
  <2> QED
    BY <2>1, <2>2
<1>10. LocalOK(l, o)'
  <2>1. o.want # NoId => o.want \in accepted'
    BY <1>1, <1>2, WantKnown
  <2> QED
    BY <2>1 DEF LocalOK
<1> QED
  BY <1>1, <1>2, <1>5, <1>6, <1>8, <1>9, <1>10, StepKeeps DEF Holding, Starting

\* What the system is asked to do.
LEMMA KeepsRequest == IInv /\ Request => IInv'
<1> SUFFICES ASSUME IInv, Request PROVE IInv'
  OBVIOUS
<1>0. TypeOK
  BY DEF IInv
<1>1. ASSUME NEW c \in Clients, ClientOutbox(c) PROVE IInv'
  <2>1. c \in Threads /\ c \notin Handlers /\ c # Worker
    BY <1>1, ThreadFacts
  <2>2. Ready(c) /\ pc[c] = "down" /\ lock # c
    BY <1>1, <2>1, ReadyAll, HolderIs DEF ClientOutbox, Holding
  <2>3. Goes(c, "claim", op[c])
    BY <1>1, <2>2, ReadyFacts
       DEF ClientOutbox, Goto, Goes, HasMessage, WithTarget, WithMessage, Delivering, PCs
  <2>4. LocalOK("claim", op[c])
    BY <2>1, IdleKnows, WantKnown DEF Holding
  <2> QED
    BY <1>0, <1>1, <2>1, <2>2, <2>3, <2>4, QuietKeeps
       DEF ClientOutbox, disk, history, Holding, TypeOK
<1>2. ASSUME NEW i \in Ids, NEW c \in Clients, ClientSend(c, i) PROVE IInv'
  BY <1>2, ThreadFacts, KeepsEnqueue DEF ClientSend
<1>3. ASSUME NEW i \in Ids, NEW h \in Handlers, HandlerSend(h, i) PROVE IInv'
  BY <1>3, ThreadFacts, KeepsEnqueue DEF HandlerSend
<1>4. ASSUME NEW i \in Ids, NEW h \in Handlers, AskStatus(h, i) PROVE IInv'
  <2>1. h \in Threads /\ h # Worker
    BY ThreadFacts
  <2>2. Ready(h) /\ pc[h] = "idle" /\ lock # h /\ mu' \in ServerThreads \cup {Nobody}
    BY <1>0, <1>4, <2>1, ReadyAll, HolderIs, MuTyped DEF AskStatus, Holding
  <2>3. PICK o \in Ops : Goes(h, "scan", o) /\ o.want = i /\ o.at = 1 /\ o.since = retries[i]
    BY <1>4, <2>2, AskStatusGoes
  <2>4. LocalOK("scan", o)
    <3>1. o.since \in Nat /\ \A s \in States : ~(OutboxStates[s] < 1)
      BY OpsFields DEF States, OutboxStates
    <3> QED
      BY <1>4, <2>3, <3>1 DEF LocalOK, AskStatus
  <2> QED
    BY <1>0, <1>4, <2>1, <2>2, <2>3, <2>4, QuietKeeps
       DEF AskStatus, disk, history, Holding, TypeOK
<1>5. ASSUME NEW i \in Ids, NEW t \in Threads \ {Worker}, AskRetry(t, i) PROVE IInv'
  <2>1. /\ t \in Threads /\ t # Worker /\ pc[t] \in {"down", "idle"}
        /\ pc[t] = "down" => t \notin Handlers
    BY <1>5, ThreadFacts DEF AskRetry, Rest
  <2>2. Ready(t) /\ lock # t
    BY <2>1, ReadyAll, HolderIs DEF Holding
  <2>3. PICK l \in {"claim", "waitRetry"}, o \in Ops : Goes(t, l, o) /\ o.want = i
    BY <1>5, <2>2, AskRetryGoes
  <2>4. LocalOK(l, o)
    BY <1>5, <2>3, IdleKnows DEF Holding, AskRetry
  <2> QED
    BY <1>0, <1>5, <2>1, <2>2, <2>3, <2>4, QuietKeeps
       DEF AskRetry, disk, history, Holding, TypeOK
<1> QED
  BY <1>1, <1>2, <1>3, <1>4, <1>5 DEF Request

-----------------------------------------------------------------------------
(* The end of Recover.                                                      *)

\* The server process opens or closes as a whole.
LEMMA WorkerRecovered ==
  ASSUME IInv, NEW ok \in BOOLEAN, Recovered(Worker, ok), pc[Worker] \in {"claim", "repair"},
         \/ lock' = lock /\ lock # Worker
         \/ lock' = Nobody /\ lock = Worker,
         UNCHANGED <<disk, mu, history, mishaps>>
  PROVE  IInv'
<1>1. Worker \in Threads /\ TypeOK /\ Ready(Worker) /\ Worker \in ServerThreads /\ Nobody \notin Threads
  BY ThreadFacts, ReadyAll DEF IInv, ServerThreads
<1>2. PICK next \in {"idle", "down"} :
        pc' = [u \in Threads |-> IF u \in ServerThreads THEN next ELSE pc[u]]
  BY DEF Recovered
<1>3. op' = [op EXCEPT ![Worker] = AskOp(NoOp, op[Worker].want)]
  BY DEF Recovered, AskOp
<1>4. PICK o \in Ops : o = AskOp(NoOp, op[Worker].want) /\ o.want = op[Worker].want
  <2>1. NoOp \in Ops
    BY DEF NoOp, Ops
  <2> QED
    BY <1>1, <2>1, ReadyFacts, AskOps
<1>5. /\ op' \in [Threads -> Ops] /\ op'[Worker] = o
      /\ \A u \in Threads \ {Worker} : op'[u] = op[u]
  BY <1>1, <1>3, <1>4 DEF TypeOK
<1>6. pc' \in [Threads -> PCs]
  BY <1>1, <1>2 DEF TypeOK, PCs
<1>7. TypeOK'
  BY <1>1, <1>5, <1>6 DEF TypeOK, disk, history
<1>8. \A u \in Threads : HasMessage(u, pc[u], op[u])'
  <2>1. ASSUME NEW u \in ServerThreads PROVE HasMessage(u, pc[u], op[u])'
    BY <1>2, <2>1, ThreadFacts DEF HasMessage, WithTarget, WithMessage, Delivering
  <2>2. ASSUME NEW u \in Threads \ ServerThreads PROVE HasMessage(u, pc[u], op[u])'
    BY <1>1, <1>2, <1>5, <2>2 DEF IInv, HasMessage
  <2> QED
    BY <2>1, <2>2
<1>9. ASSUME NEW h \in Handlers PROVE pc[h] = "down" /\ lock # h
  BY <1>1, <1>9, ThreadFacts, HolderIs DEF IInv, StartOK, Starting, Holding
<1>10. LockOK'
  <2>1. ASSUME NEW u \in ServerThreads PROVE pc'[u] \notin Holding /\ lock' # u
    <3>1. u = Worker \/ u \in Handlers
      BY <2>1 DEF ServerThreads
    <3> QED
      BY <1>1, <1>2, <1>9, <2>1, <3>1, ThreadFacts DEF Holding
  <2>2. ASSUME NEW u \in Threads \ ServerThreads PROVE pc'[u] = pc[u] /\ (lock' = u <=> lock = u)
    BY <1>1, <1>2, <2>2
  <2> QED
    BY <2>1, <2>2, HolderIs DEF LockOK
<1>11. StartOK'
  BY <1>2, ThreadFacts DEF StartOK, Starting
<1>12. \A i \in Ids : RecordOK(i)'
  BY RecordSame DEF IInv, Undisturbed, disk, history
<1>13. ASSUME NEW u \in Threads PROVE LocalOK(pc[u], op[u])'
  <2>1. CASE u \in ServerThreads
    <3>1. pc'[u] \in {"idle", "down"}
      BY <1>2, <2>1
    <3>2. op'[u].want # NoId => op'[u].want \in accepted'
      BY <1>1, <1>4, <1>5, WantKnown DEF history
    <3> QED
      BY <3>1, <3>2 DEF LocalOK
  <2>2. CASE u \notin ServerThreads
    <3>1. pc'[u] = pc[u] /\ op'[u] = op[u] /\ LocalOK(pc[u], op[u])
      BY <1>1, <1>2, <1>5, <2>2 DEF IInv
    <3> QED
      BY <3>1 DEF LocalOK, OnTheWire, Has, disk, history
  <2> QED
    BY <2>1, <2>2
<1> QED
  BY <1>7, <1>8, <1>10, <1>11, <1>12, <1>13 DEF IInv

\* The end of Recover, for a CLI process and for the server.
LEMMA KeepsRecovered ==
  ASSUME IInv, NEW t \in Threads, RecoverBusy(t) \/ RecoverDone(t) PROVE IInv'
<1>1. PICK ok \in BOOLEAN :
        /\ Recovered(t, ok) /\ pc[t] \in {"claim", "repair"}
        /\ UNCHANGED <<disk, mu, history, mishaps>>
        /\ \/ lock' = lock /\ lock # t
           \/ lock' = Nobody /\ lock = t
  BY ReadyAll, ReadyFacts, HolderIs DEF RecoverBusy, RecoverDone, Holding
<1>2. CASE t = Worker
  BY <1>1, <1>2, WorkerRecovered
<1>3. CASE t # Worker
  <2>1. Ready(t) /\ TypeOK
    BY ReadyAll DEF IInv
  <2>2. PICK l \in {"down", "waitRetry"}, o \in Ops : Goes(t, l, o) /\ o.want = op[t].want
    BY <1>1, <1>3, <2>1, RecoveredGoes
  <2>3. LocalOK(l, o)
    BY <2>2, IdleKnows, WantKnown DEF Holding
  <2> QED
    BY <1>1, <1>3, <2>1, <2>2, <2>3, QuietKeeps DEF Holding, disk, history, TypeOK
<1> QED
  BY <1>2, <1>3

-----------------------------------------------------------------------------
(* Mishaps.                                                                 *)

\* A process that ends knows nothing, and holds nothing.
LEMMA KeepsCrash ==
  ASSUME IInv, NEW T \in SUBSET Threads, Crash(T),
         Worker \in T => Handlers \subseteq T, Worker \notin T => T \cap Handlers = {}
  PROVE  IInv'
<1>1. TypeOK /\ Nobody \notin Threads /\ NoOp \in Ops /\ NoOp.want = NoId
  BY ThreadFacts DEF IInv, NoOp, Ops
<1>2. /\ pc' = [t \in Threads |-> IF t \in T THEN "down" ELSE pc[t]]
      /\ op' = [t \in Threads |-> IF t \in T THEN NoOp ELSE op[t]]
      /\ lock' = (IF lock \in T THEN Nobody ELSE lock)
      /\ mu' = (IF mu \in T THEN Nobody ELSE mu)
      /\ UNCHANGED <<disk, history>> /\ mishaps' \in Nat
  BY <1>1 DEF Crash, Mishap, TypeOK
<1>3. TypeOK'
  <2>1. pc' \in [Threads -> PCs] /\ op' \in [Threads -> Ops]
    BY <1>1, <1>2 DEF TypeOK, PCs
  <2> QED
    BY <1>1, <1>2, <2>1 DEF TypeOK, disk, history
<1>4. ASSUME NEW u \in Threads
      PROVE  HasMessage(u, pc[u], op[u])' /\ LocalOK(pc[u], op[u])'
  <2>1. CASE u \in T
    <3>1. pc'[u] = "down" /\ op'[u] = NoOp
      BY <1>2, <2>1
    <3> QED
      BY <1>1, <3>1 DEF HasMessage, WithTarget, WithMessage, Delivering, LocalOK
  <2>2. CASE u \notin T
    <3>1. pc'[u] = pc[u] /\ op'[u] = op[u] /\ LocalOK(pc[u], op[u]) /\ HasMessage(u, pc[u], op[u])
      BY <1>2, <2>2 DEF IInv
    <3> QED
      BY <1>2, <3>1 DEF HasMessage, LocalOK, OnTheWire, Has, disk, history
  <2> QED
    BY <2>1, <2>2
<1>5. LockOK'
  BY <1>1, <1>2, HolderIs DEF LockOK, Holding
<1>6. StartOK'
  BY <1>2, ThreadFacts DEF IInv, StartOK
<1>7. \A i \in Ids : RecordOK(i)'
  BY <1>2, RecordSame DEF IInv, Undisturbed, disk, history
<1> QED
  BY <1>3, <1>4, <1>5, <1>6, <1>7 DEF IInv

\* Crashes and damaged files.
LEMMA KeepsMisfortune == IInv /\ Misfortune => IInv'
<1> SUFFICES ASSUME IInv, Misfortune PROVE IInv'
  OBVIOUS
<1>1. CASE Crash(ServerThreads)
  <2>1. ServerThreads \in SUBSET Threads /\ Worker \in ServerThreads /\ Handlers \subseteq ServerThreads
    BY ThreadFacts DEF ServerThreads
  <2> QED
    BY <1>1, <2>1, KeepsCrash
<1>2. ASSUME NEW c \in Clients, Crash({c}) PROVE IInv'
  <2>1. {c} \in SUBSET Threads /\ Worker \notin {c} /\ {c} \cap Handlers = {}
    BY ThreadFacts
  <2> QED
    BY <1>2, <2>1, KeepsCrash
<1>3. ASSUME NEW i \in Ids, NEW s \in States, Damage(i, s) PROVE IInv'
  <2>1. /\ UNCHANGED <<store, lock, mu, pc, op, accepted, sends, retries>>
        /\ torn' \subseteq Ids \X States /\ mishaps' \in Nat
    BY <1>3 DEF Damage, Mishap, IInv, TypeOK, history
  <2>2. TypeOK'
    BY <2>1 DEF IInv, TypeOK
  <2>3. \A u \in Threads : LocalOK(pc[u], op[u])' /\ HasMessage(u, pc[u], op[u])'
    BY <2>1 DEF IInv, LocalOK, OnTheWire, Has, HasMessage
  <2>4. \A j \in Ids : RecordOK(j)'
    BY <2>1, RecordSame DEF IInv, Undisturbed
  <2> QED
    BY <2>1, <2>2, <2>3, <2>4 DEF IInv, LockOK, StartOK
<1> QED
  BY <1>1, <1>2, <1>3 DEF Misfortune

-----------------------------------------------------------------------------
(* The invariant holds initially and is kept by every step.                 *)

\* The invariant holds of an empty outbox before any process runs.
LEMMA IInit == Init => IInv
<1> SUFFICES ASSUME Init PROVE IInv
  OBVIOUS
<1>1. NoOp \in Ops /\ NoOp.want = NoId
  BY DEF NoOp, Ops
<1>2. /\ \A t \in Threads : pc[t] = "down" /\ op[t] = NoOp
      /\ \A i \in Ids, s \in States : ~Has(i, s)
  BY DEF Init, Has
<1>3. TypeOK
  BY <1>1, ThreadFacts DEF Init, TypeOK, PCs, Absent
<1>4. \A t \in Threads : HasMessage(t, pc[t], op[t]) /\ LocalOK(pc[t], op[t])
  BY <1>1, <1>2 DEF HasMessage, WithTarget, WithMessage, Delivering, LocalOK
<1>5. LockOK /\ StartOK
  BY <1>2, ThreadFacts DEF LockOK, StartOK, Holding, Init
<1>6. \A i \in Ids : RecordOK(i)
  BY <1>2, StateNames DEF RecordOK, Init
<1> QED
  BY <1>3, <1>4, <1>5, <1>6 DEF IInv

\* Every step of a running operation keeps the invariant.
LEMMA KeepsStep == ASSUME IInv, NEW t \in Threads, Step(t) PROVE IInv'
  BY KeepsRecovered, KeepsSurvey, KeepsUnstrand, KeepsFailStranded, KeepsDeduplicate,
     KeepsHold, KeepsListQueued, KeepsUnqueue, KeepsSend, KeepsRecord, KeepsUnsend,
     KeepsRunDone, KeepsSkipUnsendable, KeepsStartSend, KeepsHoldRetry, KeepsRetryRefused,
     KeepsRequeue, KeepsUnfail, KeepsScan, KeepsReportUnknown DEF Step

\* The invariant is about the state.
LEMMA IStutter == IInv /\ UNCHANGED vars => IInv'
<1> SUFFICES ASSUME IInv, UNCHANGED vars PROVE IInv'
  OBVIOUS
<1>1. TypeOK' /\ LockOK' /\ StartOK' /\ \A t \in Threads : HasMessage(t, pc[t], op[t])'
  BY DEF vars, IInv, TypeOK, LockOK, StartOK, HasMessage
<1>2. \A i \in Ids : RecordOK(i)'
  BY RecordSame DEF vars, IInv, Undisturbed
<1>3. \A t \in Threads : LocalOK(pc[t], op[t])'
  BY DEF vars, IInv, LocalOK, OnTheWire, Has
<1> QED
  BY <1>1, <1>2, <1>3 DEF IInv

\* Every step keeps the invariant.
LEMMA INext == IInv /\ [Next]_vars => IInv'
  BY KeepsStart, KeepsRequest, KeepsMisfortune, KeepsStep, IStutter DEF Next

\* IInv is an invariant: what the files of a message say and what each thread
\* knows of them agree at every point, whatever crashes, fails or is damaged.
THEOREM Invariance == Spec => []IInv
<1>1. Init => IInv
  BY IInit
<1>2. IInv /\ [Next]_vars => IInv'
  BY INext
<1> QED
  BY <1>1, <1>2, PTL DEF Spec

\* Every variable has its type in every reachable state.
THEOREM TypeCorrect == Spec => []TypeOK
<1>1. IInv => TypeOK
  BY DEF IInv
<1> QED
  BY <1>1, Invariance, PTL

\* A message Enqueue has accepted keeps a file through every transition, repair,
\* crash and failed file operation.
THEOREM NothingIsLost == Spec => []NoMessageLost
<1>1. IInv => NoMessageLost
  BY DEF IInv, RecordOK, NoMessageLost, Held, Has, TypeOK
<1> QED
  BY <1>1, Invariance, PTL

\* A message is handed to the Sender at most once for its Enqueue and once per Retry.
THEOREM OneSend == Spec => []OneSendPerDecision
<1>1. IInv => OneSendPerDecision
  BY DEF IInv, RecordOK, OneSendPerDecision
<1> QED
  BY <1>1, Invariance, PTL

\* While a message is with the Sender nobody else touches its record.
THEOREM InFlightSafe == Spec => []InFlightUndisturbed
<1>1. IInv => InFlightUndisturbed
  BY DEF IInv, LocalOK, OnTheWire, Held, Has, InFlightUndisturbed
<1> QED
  BY <1>1, Invariance, PTL

\* The attempts on disk cover the handovers, across crashes and repairs.
THEOREM AttemptsCover == Spec => []AttemptsCoverSends
<1>1. IInv => AttemptsCoverSends
  BY DEF IInv, RecordOK, AttemptsCoverSends, TypeOK
<1> QED
  BY <1>1, Invariance, PTL

\* Without the file lock, a status query misses a message only over a retry.
THEOREM StatusMisses == Spec => []StatusMissesOnlyARetry
<1>1. IInv => StatusMissesOnlyARetry
  <2> SUFFICES ASSUME IInv, NEW t \in Threads, pc[t] = "unknown"
               PROVE  retries[op[t].want] > op[t].since
    BY DEF StatusMissesOnlyARetry
  <2>1. op[t].want \in Ids
    BY ReadyAll, HasIt DEF WithTarget
  <2>2. op[t].since < retries[op[t].want]
    BY DEF IInv, LocalOK
  <2>3. op[t].since \in Nat /\ retries[op[t].want] \in Nat
    BY <2>1, ReadyAll, ReadyFacts DEF IInv, TypeOK
  <2> QED
    BY <2>2, <2>3
<1> QED
  BY <1>1, Invariance, PTL

-----------------------------------------------------------------------------
(* What a step does to the files and the handovers.                         *)

Touches ==
  \/ UNCHANGED <<store, sends>>
  \/ \E i \in Ids, s \in States \ {"sent"} : Remove(i, s) /\ UNCHANGED sends
  \/ \E i \in Ids, s \in States, n \in Nat : Write(i, s, n) /\ UNCHANGED sends
  \/ \E i \in Ids : /\ ~Has(i, "sent") /\ UNCHANGED store
                    /\ sends' = [sends EXCEPT ![i] = @ + 1]

\* What a step of an operation does to the files and the handovers.
LEMMA StepTouches ==
  ASSUME IInv, NEW t \in Threads, Step(t)
  PROVE  Touches
<1>0. /\ Ready(t) /\ TypeOK /\ LocalOK(pc[t], op[t])
      /\ pc[t] \in WithMessage => op[t].id \in Ids
      /\ pc[t] \in WithTarget => op[t].want \in Ids
      /\ op[t].attempts \in Nat /\ op[t].drop \in SUBSET (Ids \X States) /\ op[t].todo \in SUBSET Ids
  BY ReadyAll, HasIt, ReadyFacts DEF IInv
<1>1. CASE \/ RecoverBusy(t) \/ Survey(t) \/ RecoverDone(t) \/ Hold(t) \/ ListQueued(t)
           \/ RunDone(t) \/ HoldRetry(t) \/ RetryRefused(t) \/ Scan(t) \/ ReportUnknown(t)
  BY <1>1 DEF RecoverBusy, Survey, RecoverDone, Hold, ListQueued, RunDone, HoldRetry,
              RetryRefused, Scan, ReportUnknown, disk, history, Touches
<1>2. ASSUME NEW i \in Ids, NEW s \in States, Deduplicate(t, i, s) PROVE Touches
  <2>1. s # "sent"
    BY <1>0, <1>2 DEF Deduplicate, LocalOK
  <2> QED
    BY <1>2, <2>1 DEF Deduplicate, IOFails, disk, history, Touches
<1>3. ASSUME NEW i \in Ids, FailStranded(t, i) PROVE Touches
  <2>1. store[i]["sending"] \in Nat
    BY <1>0, <1>3, StateNames DEF FailStranded, LocalOK, Has, TypeOK, Absent
  <2> QED
    BY <1>3, <2>1, StateNames DEF FailStranded, Transition, IOFails, disk, history, Touches
<1>4. CASE Unstrand(t)
  BY <1>0, <1>4, StateNames DEF Unstrand, WithMessage, IOFails, disk, history, Touches
<1>5. ASSUME NEW i \in Ids, SkipUnsendable(t, i) PROVE Touches
  BY <1>5 DEF SkipUnsendable, disk, history, Touches
<1>6. ASSUME NEW i \in Ids, StartSend(t, i) PROVE Touches
  <2>1. store[i]["queued"] + 1 \in Nat
    BY <1>0, <1>6, FindsQueued, StateNames DEF StartSend, Transition, Has, TypeOK, Absent
  <2> QED
    BY <1>6, <2>1, StateNames DEF StartSend, Transition, IOFails, disk, history, Touches
<1>7. CASE Unqueue(t)
  <2>1. (Remove(op[t].id, "queued") \/ IOFails) /\ UNCHANGED history /\ op[t].id \in Ids
    BY <1>0, <1>7 DEF Unqueue, Transition, WithMessage
  <2> QED
    BY <2>1, StateNames DEF IOFails, disk, history, Touches
<1>8. CASE Send(t)
  <2>1. op[t].id \in Ids /\ ~Has(op[t].id, "sent")
    BY <1>0, <1>8 DEF Send, WithMessage, LocalOK, OnTheWire
  <2> QED
    BY <1>8, <2>1 DEF Send, disk, Touches
<1>9. CASE Record(t)
  <2>1. Transition[pc[t]].to \in States
    BY <1>9 DEF Record, Transition, States
  <2> QED
    BY <1>0, <1>9, <2>1 DEF Record, WithMessage, IOFails, disk, history, Touches
<1>10. CASE Unsend(t)
  <2>1. (Remove(op[t].id, "sending") \/ IOFails) /\ UNCHANGED history /\ op[t].id \in Ids
    BY <1>0, <1>10 DEF Unsend, WithMessage
  <2> QED
    BY <2>1, StateNames DEF IOFails, disk, history, Touches
<1>11. CASE Requeue(t)
  <2>1. op[t].want \in Ids
    BY <1>0, <1>11 DEF Requeue, WithTarget
  <2>2. FindsIn(op[t].want, "failed") => store[op[t].want]["failed"] \in Nat
    BY <1>0, <2>1, FindsFailed, StateNames DEF Has, TypeOK, Absent
  <2> QED
    BY <1>11, <2>1, <2>2, StateNames DEF Requeue, Transition, IOFails, disk, Touches
<1>12. CASE Unfail(t)
  BY <1>0, <1>12, StateNames DEF Unfail, Transition, WithTarget, IOFails, disk, history, Touches
<1> QED
  BY <1>1, <1>2, <1>3, <1>4, <1>5, <1>6, <1>7, <1>8, <1>9, <1>10, <1>11, <1>12 DEF Step

\* The same of every step.
LEMMA NextTouches == IInv /\ [Next]_vars => Touches
<1> SUFFICES ASSUME IInv, [Next]_vars PROVE Touches
  OBVIOUS
<1>1. CASE StartServer \/ Tick \/ Misfortune \/ UNCHANGED vars
  BY <1>1 DEF StartServer, Tick, Misfortune, Crash, Damage, vars, disk, history, Touches
<1>2. CASE Request
  BY <1>2, StateNames DEF Request, ClientOutbox, ClientSend, HandlerSend, Enqueue, AskStatus,
                          AskRetry, disk, history, Touches
<1> QED
  BY <1>1, <1>2, StepTouches DEF Next

\* A record that reached sent stays there and is never handed over again: a repair
\* never removes that copy and a delivery never starts from it.
THEOREM SentStays == Spec => SentIsFinal
<1>1. IInv /\ [Next]_vars => [\A i \in Ids : "sent" \in Held(store[i]) =>
                                "sent" \in Held(store'[i]) /\ sends'[i] = sends[i]]_vars
  <2> SUFFICES ASSUME IInv, Touches, NEW i \in Ids, Has(i, "sent")
               PROVE  Has(i, "sent")' /\ sends'[i] = sends[i]
    BY NextTouches, StateNames DEF Held, Has
  <2>0. TypeOK
    BY DEF IInv
  <2>1. CASE UNCHANGED <<store, sends>>
    BY <2>1 DEF Has
  <2>2. ASSUME NEW j \in Ids, NEW s \in States \ {"sent"}, Remove(j, s), UNCHANGED sends
        PROVE  Has(i, "sent")' /\ sends'[i] = sends[i]
    BY <2>0, <2>2, RemoveIs, StateNames DEF Has
  <2>3. ASSUME NEW j \in Ids, NEW s \in States, NEW n \in Nat, Write(j, s, n), UNCHANGED sends
        PROVE  Has(i, "sent")' /\ sends'[i] = sends[i]
    BY <2>0, <2>3, WriteIs, StateNames DEF Has, Absent
  <2>4. ASSUME NEW j \in Ids, ~Has(j, "sent"), UNCHANGED store, sends' = [sends EXCEPT ![j] = @ + 1]
        PROVE  Has(i, "sent")' /\ sends'[i] = sends[i]
    BY <2>0, <2>4 DEF Has, TypeOK
  <2> QED
    BY <2>1, <2>2, <2>3, <2>4 DEF Touches
<1> QED
  BY <1>1, Invariance, PTL DEF Spec, SentIsFinal

-----------------------------------------------------------------------------
(* The state a record is in, read off its copies.                           *)

\* What survivor decides about the copies of a record that no failed file operation
\* has touched.
Stands(copies) ==
  CASE copies["sent"] # Absent -> "sent"
    [] copies["sent"] = Absent /\ copies["sending"] # Absent
       /\ copies["failed"] # copies["sending"] -> "sending"
    [] copies["sent"] = Absent /\ copies["sending"] # Absent
       /\ copies["failed"] = copies["sending"] -> "failed"
    [] copies["sent"] = Absent /\ copies["sending"] = Absent /\ copies["queued"] # Absent -> "queued"
    [] copies["sent"] = Absent /\ copies["sending"] = Absent /\ copies["queued"] = Absent
       /\ copies["failed"] # Absent -> "failed"
    [] OTHER -> "none"

\* The cases of the definition, as facts.
LEMMA StandsIs ==
  ASSUME NEW copies \in [States -> Nat \cup {Absent}]
  PROVE  /\ copies["sent"] # Absent => Stands(copies) = "sent"
         /\ copies["sent"] = Absent /\ copies["sending"] # Absent =>
              Stands(copies) = IF copies["failed"] = copies["sending"] THEN "failed" ELSE "sending"
         /\ copies["sent"] = Absent /\ copies["sending"] = Absent =>
              Stands(copies) = IF copies["queued"] # Absent THEN "queued"
                               ELSE IF copies["failed"] # Absent THEN "failed" ELSE "none"
  BY DEF Stands

\* A pair that an interrupted transition leaves is decided by the transition.
LEMMA SurvivorOfPair ==
  ASSUME NEW copies \in [States -> Nat \cup {Absent}], NEW e \in Events,
         Latest(copies) = {Transition[e].from, Transition[e].to}
  PROVE  Survivor(copies) = Transition[e].to
<1> DEFINE top == Latest(copies)
           interrupted == {d \in Events : top = {Transition[d].from, Transition[d].to}}
<1>1. e \in interrupted
  OBVIOUS
<1>2. ASSUME NEW d \in interrupted PROVE d = e
  <2>1. d \in {"SEND", "SUCCEED", "FAIL", "RETRY"} /\ e \in {"SEND", "SUCCEED", "FAIL", "RETRY"}
    BY DEF Events, Transition
  <2>2. {Transition[d].from, Transition[d].to} = {Transition[e].from, Transition[e].to}
    BY <1>2
  <2> QED
    BY <2>1, <2>2 DEF Transition
<1>3. (CHOOSE d \in interrupted : TRUE) = e
  BY <1>1, <1>2
<1> QED
  BY <1>1, <1>3 DEF Survivor

\* survivor's choice of an orderly record's copies.
LEMMA SurvivorStands ==
  ASSUME NEW copies \in [States -> Nat \cup {Absent}], Orderly(copies), Held(copies) # {}
  PROVE  Survivor(copies) = Stands(copies)
<1> DEFINE q == copies["queued"]
           g == copies["sending"]
           d == copies["sent"]
           f == copies["failed"]
<1>1. /\ q \in Nat \cup {Absent} /\ g \in Nat \cup {Absent}
      /\ d \in Nat \cup {Absent} /\ f \in Nat \cup {Absent}
  BY StateNames
<1>2. Survivor(copies) \in Latest(copies) /\ ("sent" \in Latest(copies) => Survivor(copies) = "sent")
  BY SurvivorIs
<1>3. CASE d # Absent
  <2>1. "sent" \in Latest(copies)
    BY <1>3, StateNames DEF Orderly, Latest, Held
  <2> QED
    BY <1>2, <1>3, <2>1, StandsIs
<1>4. CASE d = Absent /\ g # Absent /\ f = g
  <2>1. q = Absent
    BY <1>1, <1>4 DEF Orderly, Absent
  <2>2. Latest(copies) = {"sending", "failed"}
    BY <1>1, <1>4, <2>1 DEF Latest, Held, States, Absent
  <2>3. Survivor(copies) = Transition["FAIL"].to
    BY <2>2, SurvivorOfPair DEF Events, Transition
  <2> QED
    BY <1>4, <2>3, StandsIs DEF Transition
<1>5. CASE d = Absent /\ g # Absent /\ f # g
  <2>1. f < g /\ q < g
    BY <1>1, <1>5 DEF Orderly, Absent
  <2>2. Latest(copies) = {"sending"}
    BY <1>1, <1>5, <2>1 DEF Latest, Held, States, Absent
  <2> QED
    BY <1>2, <1>5, <2>2, StandsIs
<1>6. CASE d = Absent /\ g = Absent /\ q # Absent
  <2>1. f <= q
    BY <1>6 DEF Orderly
  <2>2. CASE f = q
    <3>1. Latest(copies) = {"failed", "queued"}
      BY <1>1, <1>6, <2>2 DEF Latest, Held, States, Absent
    <3>2. Survivor(copies) = Transition["RETRY"].to
      BY <3>1, SurvivorOfPair DEF Events, Transition
    <3> QED
      BY <1>6, <3>2, StandsIs DEF Transition
  <2>3. CASE f # q
    <3>1. Latest(copies) = {"queued"}
      BY <1>1, <1>6, <2>1, <2>3 DEF Latest, Held, States, Absent
    <3> QED
      BY <1>2, <1>6, <3>1, StandsIs
  <2> QED
    BY <2>2, <2>3
<1>7. CASE d = Absent /\ g = Absent /\ q = Absent
  <2>1. f # Absent /\ Latest(copies) = {"failed"}
    BY <1>1, <1>7 DEF Latest, Held, States, Absent
  <2> QED
    BY <1>2, <1>7, <2>1, StandsIs
<1> QED
  BY <1>3, <1>4, <1>5, <1>6, <1>7

\* The files of every other record are left alone.
Others(i) == \A j \in Ids \ {i} : store'[j] = store[j]

\* Removing a copy that is not the authoritative one leaves an orderly record orderly
\* and where it stands.
LEMMA RemovalStands ==
  ASSUME NEW copies \in [States -> Nat \cup {Absent}], NEW after \in [States -> Nat \cup {Absent}],
         NEW s \in States, after[s] = Absent, \A r \in States \ {s} : after[r] = copies[r],
         Orderly(copies), s # Stands(copies)
  PROVE  Orderly(after) /\ Stands(after) = Stands(copies)
<1>1. /\ copies["queued"] \in Nat \cup {Absent} /\ copies["sending"] \in Nat \cup {Absent}
      /\ copies["sent"] \in Nat \cup {Absent} /\ copies["failed"] \in Nat \cup {Absent}
  BY StateNames
<1>2. CASE s = "queued"
  <2>1. /\ after["queued"] = Absent /\ after["sending"] = copies["sending"]
        /\ after["sent"] = copies["sent"] /\ after["failed"] = copies["failed"]
    BY <1>2, StateNames
  <2>2. Orderly(after)
    BY <1>1, <2>1 DEF Orderly, States, Absent
  <2>3. Stands(after) = Stands(copies)
    BY <1>1, <1>2, <2>1, StandsIs DEF Orderly, Absent
  <2> QED
    BY <2>2, <2>3
<1>3. CASE s = "sending"
  <2>1. /\ after["sending"] = Absent /\ after["queued"] = copies["queued"]
        /\ after["sent"] = copies["sent"] /\ after["failed"] = copies["failed"]
    BY <1>3, StateNames
  <2>2. Orderly(after)
    BY <1>1, <2>1 DEF Orderly, States, Absent
  <2>3. Stands(after) = Stands(copies)
    BY <1>1, <1>3, <2>1, StandsIs DEF Orderly, Absent
  <2> QED
    BY <2>2, <2>3
<1>4. CASE s = "failed"
  <2>1. /\ after["failed"] = Absent /\ after["queued"] = copies["queued"]
        /\ after["sent"] = copies["sent"] /\ after["sending"] = copies["sending"]
    BY <1>4, StateNames
  <2>2. Orderly(after)
    BY <1>1, <2>1 DEF Orderly, States, Absent
  <2>3. Stands(after) = Stands(copies)
    BY <1>1, <1>4, <2>1, StandsIs DEF Orderly, Absent
  <2> QED
    BY <2>2, <2>3
<1>5. CASE s = "sent"
  <2>1. copies["sent"] = Absent
    BY <1>5, StandsIs
  <2>2. \A r \in States : after[r] = copies[r]
    BY <1>5, <2>1
  <2>3. after = copies
    BY <2>2
  <2> QED
    BY <2>3
<1> QED
  BY <1>2, <1>3, <1>4, <1>5 DEF States

-----------------------------------------------------------------------------
(* How a thread comes to where it knows something of a repair or of the wire. *)

Tracked == {"repair", "unstrand", "wire", "SUCCEED", "FAIL"}

\* The files of every message stay as they are, or the message appears.
Bystands == \A i \in Ids : \/ store'[i] = store[i] /\ sends'[i] = sends[i]
                           \/ i \notin accepted /\ \A s \in States : Has(i, s)' => s = "queued"

\* Where the other steps of a thread lead.
LEMMA LeadsElsewhere ==
  ASSUME IInv, NEW t \in Threads,
         \/ RecoverBusy(t) \/ RecoverDone(t) \/ Hold(t) \/ ListQueued(t) \/ Record(t) \/ Unsend(t)
         \/ RunDone(t) \/ HoldRetry(t) \/ RetryRefused(t) \/ Requeue(t) \/ Unfail(t)
         \/ Scan(t) \/ ReportUnknown(t)
         \/ \E i \in Ids : SkipUnsendable(t, i) \/ StartSend(t, i)
  PROVE  pc'[t] \notin Tracked
<1>1. \A l, o : Becomes(t, l, o) => pc'[t] = l
  BY DEF IInv, TypeOK, Becomes
<1>2. Rest(t) \notin Tracked
  BY DEF Rest, Tracked
<1>3. CASE RecoverBusy(t) \/ RecoverDone(t)
  <2>1. pc'[t] \in {"idle", "down", "waitRetry"}
    BY <1>3, ThreadFacts DEF RecoverBusy, RecoverDone, Recovered, ServerThreads
  <2> QED
    BY <2>1 DEF Tracked
<1>4. CASE Hold(t) \/ ListQueued(t) \/ HoldRetry(t) \/ RetryRefused(t) \/ ReportUnknown(t) \/ Scan(t)
  BY <1>1, <1>2, <1>4
  DEF Hold, ListQueued, HoldRetry, RetryRefused, ReportUnknown, Scan, RetryFails, Goto, Tracked
<1>5. CASE Record(t) \/ Unsend(t) \/ RunDone(t)
  BY <1>1, <1>2, <1>5 DEF Record, Unsend, RunDone, Skip, Goto, Tracked
<1>6. CASE Requeue(t) \/ Unfail(t)
  BY <1>1, <1>2, <1>6 DEF Requeue, Unfail, RetryFails, Goto, Tracked
<1>7. ASSUME NEW i \in Ids, SkipUnsendable(t, i) \/ StartSend(t, i) PROVE pc'[t] \notin Tracked
  BY <1>1, <1>7 DEF SkipUnsendable, StartSend, Skip, Tracked
<1> QED
  BY <1>3, <1>4, <1>5, <1>6, <1>7

\* While one thread holds the outbox, the steps of another change no file.
LEMMA OutsiderBystands ==
  ASSUME IInv, NEW t \in Threads, NEW u \in Threads, u # t, pc[t] \in Holding, Step(u)
  PROVE  store' = store /\ sends' = sends
<1>1. lock = t /\ pc[u] \notin Holding /\ lock # Nobody
  BY HolderIs, ThreadFacts
<1>2. CASE RecoverBusy(u) \/ Scan(u) \/ ReportUnknown(u)
  BY <1>2 DEF RecoverBusy, Scan, ReportUnknown, disk, history
<1>3. CASE Survey(u) \/ Hold(u) \/ HoldRetry(u)
  BY <1>1, <1>3 DEF Survey, Hold, HoldRetry
<1>4. CASE \/ Unstrand(u) \/ RecoverDone(u) \/ ListQueued(u) \/ Unqueue(u) \/ Send(u) \/ Record(u)
           \/ Unsend(u) \/ RunDone(u) \/ RetryRefused(u) \/ Requeue(u) \/ Unfail(u)
           \/ \E i \in Ids : \/ FailStranded(u, i) \/ SkipUnsendable(u, i) \/ StartSend(u, i)
                             \/ \E s \in States : Deduplicate(u, i, s)
  BY <1>1, <1>4
  DEF Unstrand, RecoverDone, ListQueued, Unqueue, Send, Record, Unsend, RunDone, RetryRefused,
      Requeue, Unfail, FailStranded, SkipUnsendable, StartSend, Deduplicate, Holding
<1> QED
  BY <1>2, <1>3, <1>4 DEF Step

\* A step leaves the other threads where they are, or the worker's repair is over.
LEMMA LeavesOthers ==
  ASSUME IInv, NEW t \in Threads, NEW u \in Threads, u # t, Step(u), pc'[t] \in Tracked
  PROVE  pc'[t] = pc[t] /\ op'[t] = op[t]
<1>1. \A l, o : Becomes(u, l, o) => pc'[t] = pc[t] /\ op'[t] = op[t]
  BY DEF IInv, TypeOK, Becomes
<1>2. CASE RecoverBusy(u) \/ RecoverDone(u)
  <2>1. op'[t] = op[t] /\ (pc'[t] = pc[t] \/ pc'[t] \in {"idle", "down", "waitRetry"})
    BY <1>2 DEF RecoverBusy, RecoverDone, Recovered, IInv, TypeOK
  <2> QED
    BY <2>1 DEF Tracked
<1>3. CASE \/ Survey(u) \/ Unstrand(u) \/ Hold(u) \/ ListQueued(u) \/ Unqueue(u) \/ Send(u)
           \/ Record(u) \/ Unsend(u) \/ RunDone(u)
  BY <1>1, <1>3 DEF Survey, Unstrand, Hold, ListQueued, Unqueue, Send, Record, Unsend, RunDone,
                    Skip, Goto
<1>4. CASE \/ HoldRetry(u) \/ RetryRefused(u) \/ Requeue(u) \/ Unfail(u) \/ Scan(u)
           \/ ReportUnknown(u)
  BY <1>1, <1>4 DEF HoldRetry, RetryRefused, Requeue, Unfail, Scan, ReportUnknown, RetryFails, Goto
<1>5. ASSUME NEW i \in Ids, \/ FailStranded(u, i) \/ SkipUnsendable(u, i) \/ StartSend(u, i)
                            \/ \E s \in States : Deduplicate(u, i, s)
      PROVE  pc'[t] = pc[t] /\ op'[t] = op[t]
  BY <1>1, <1>5 DEF FailStranded, SkipUnsendable, StartSend, Deduplicate, Skip
<1> QED
  BY <1>2, <1>3, <1>4, <1>5 DEF Step

\* A thread in the middle of a repair or of a send took the step itself or stands by.
LEMMA HowTracked ==
  ASSUME IInv, [Next]_vars, NEW t \in Threads, pc'[t] \in Tracked
  PROVE  \/ Survey(t) \/ Unstrand(t) \/ Unqueue(t) \/ Send(t)
         \/ \E i \in Ids : FailStranded(t, i) \/ \E s \in States : Deduplicate(t, i, s)
         \/ pc'[t] = pc[t] /\ op'[t] = op[t] /\ Bystands
<1> DEFINE Stays == pc'[t] = pc[t] /\ op'[t] = op[t] /\ Bystands
<1>0. TypeOK
  BY DEF IInv
<1>1. CASE Step(t)
  BY <1>1, LeadsElsewhere DEF Step
<1>2. ASSUME NEW u \in Threads, u # t, Step(u) PROVE Stays
  <2>1. pc'[t] = pc[t] /\ op'[t] = op[t]
    BY <1>2, LeavesOthers
  <2>2. pc[t] \in Holding
    BY <2>1 DEF Tracked, Holding
  <2>3. store' = store /\ sends' = sends
    BY <1>2, <2>2, OutsiderBystands
  <2> QED
    BY <2>1, <2>3 DEF Bystands
<1>3. CASE StartServer \/ Tick \/ UNCHANGED vars
  <2>1. Bystands
    BY <1>3 DEF StartServer, Tick, vars, disk, history, Bystands
  <2>2. \/ pc'[t] = pc[t] /\ op'[t] = op[t]
        \/ pc'[t] \in {"claim", "wait"}
    BY <1>0, <1>3, ThreadFacts DEF StartServer, Tick, vars, Goto, Becomes, TypeOK
  <2> QED
    BY <2>1, <2>2 DEF Tracked
<1>4. CASE Misfortune
  <2>1. Bystands
    BY <1>4 DEF Misfortune, Crash, Damage, disk, history, Bystands
  <2>2. \/ pc'[t] = pc[t] /\ op'[t] = op[t]
        \/ pc'[t] = "down"
    BY <1>0, <1>4 DEF Misfortune, Crash, Damage, TypeOK
  <2> QED
    BY <2>1, <2>2 DEF Tracked
<1>5. ASSUME NEW i \in Ids, NEW u \in Threads, NEW l, l \notin Tracked, Enqueue(u, i, l) PROVE Stays
  <2>1. pc'[t] = pc[t] /\ op'[t] = op[t]
    BY <1>0, <1>5 DEF Enqueue, Becomes, TypeOK
  <2>2. /\ store'[i]["queued"] = 0 /\ \A r \in States \ {"queued"} : store'[i][r] = store[i][r]
        /\ \A j \in Ids \ {i} : store'[j] = store[j]
    BY <1>0, <1>5, StateNames, WriteIs DEF Enqueue
  <2>3. i \notin accepted /\ sends' = sends /\ \A s \in States : ~Has(i, s)
    BY <1>5 DEF Enqueue, IInv, RecordOK
  <2>4. ASSUME NEW s \in States, Has(i, s)' PROVE s = "queued"
    BY <2>2, <2>3, <2>4 DEF Has
  <2> QED
    BY <2>1, <2>2, <2>3, <2>4 DEF Bystands
<1>6. CASE Request
  <2>1. ASSUME NEW i \in Ids, NEW c \in Clients, ClientSend(c, i) PROVE Stays
    <3>1. c \in Threads /\ "wait" \notin Tracked
      BY ThreadFacts DEF Tracked
    <3> QED
      BY <1>5, <2>1, <3>1 DEF ClientSend
  <2>2. ASSUME NEW i \in Ids, NEW h \in Handlers, HandlerSend(h, i) PROVE Stays
    <3>1. h \in Threads /\ "idle" \notin Tracked
      BY ThreadFacts DEF Tracked
    <3> QED
      BY <1>5, <2>2, <3>1 DEF HandlerSend
  <2>3. ASSUME NEW u \in Threads,
               \/ ClientOutbox(u)
               \/ \E i \in Ids : AskStatus(u, i) \/ AskRetry(u, i)
        PROVE  Stays
    <3>1. Bystands
      BY <2>3 DEF ClientOutbox, AskStatus, AskRetry, disk, history, Bystands
    <3>2. \/ pc'[t] = pc[t] /\ op'[t] = op[t]
          \/ pc'[t] \in {"claim", "scan", "waitRetry"}
      BY <1>0, <2>3 DEF ClientOutbox, AskStatus, AskRetry, Goto, Becomes, TypeOK
    <3> QED
      BY <3>1, <3>2 DEF Tracked
  <2> QED
    BY <1>6, <2>1, <2>2, <2>3, ThreadFacts DEF Request
<1> QED
  BY <1>1, <1>2, <1>3, <1>4, <1>6 DEF Next

-----------------------------------------------------------------------------
(* A repair that nothing went wrong with leaves single records.             *)

\* A repair starts with every copy that is not the authoritative one on its list.
LEMMA SurveyMends ==
  ASSUME IInv, NEW t \in Threads, Survey(t)
  PROVE  Mending(pc[t], op[t])'
<1>0. TypeOK
  BY DEF IInv
<1> DEFINE T == {i \in Ids : ~Damaged(i) /\ "sending" \in Held(store[i])}
           b == (torn = {})
           o == SurveyOp(op[t], Duplicates, T, b)
<1>1. op[t] \in Ops /\ op'[t] = o /\ pc'[t] = "repair" /\ store' = store
  BY <1>0 DEF Survey, Becomes, TypeOK, SurveyOp, disk
<1>2. o.drop = Duplicates /\ o.todo = T /\ o.clean = b
  BY <1>1 DEF Ops, SurveyOp
<1>3. ASSUME b, NEW i \in Ids
      PROVE  /\ Has(i, "sending") => i \in T
             /\ \E keep \in States : \A s \in States : Has(i, s) /\ s # keep => <<i, s>> \in Duplicates
  <2>1. ~Damaged(i)
    BY <1>3 DEF Damaged
  <2>2. ASSUME NEW s \in States, Has(i, s), s # Survivor(store[i]) PROVE <<i, s>> \in Duplicates
    <3>0. <<i, s>> \in Ids \X States /\ <<i, s>>[1] = i /\ <<i, s>>[2] = s
      BY <2>2
    <3>1. PICK c \in Ids \X States : c = <<i, s>> /\ c[1] = i /\ c[2] = s
      BY <3>0
    <3>2. ~Damaged(c[1])
      BY <2>1, <3>1
    <3>3. c[2] \in Held(store[c[1]]) /\ c[2] # Survivor(store[c[1]])
      BY <2>2, <3>1 DEF Held, Has
    <3>4. c \in Duplicates
      BY <3>2, <3>3 DEF Duplicates
    <3> QED
      BY <3>1, <3>4
  <2>3. (\E s \in States : Has(i, s)) => Survivor(store[i]) \in States
    BY <1>0, SurvivorIs, LatestIs DEF Held, Has, TypeOK
  <2>4. \E keep \in States : \A s \in States : Has(i, s) /\ s # keep => <<i, s>> \in Duplicates
    <3>1. CASE \E s \in States : Has(i, s)
      BY <2>2, <2>3, <3>1
    <3>2. CASE ~\E s \in States : Has(i, s)
      BY <3>2, StateNames
    <3> QED
      BY <3>1, <3>2
  <2> QED
    BY <2>1, <2>4, StateNames DEF Held, Has
<1> HIDE DEF o, b, T
<1>4. Mending("repair", o)
  BY <1>2, <1>3 DEF Mending
<1> QED
  BY <1>1, <1>4 DEF Mending, Has

\* What is left to do gets less with every copy removed.
LEMMA DeduplicateMends ==
  ASSUME IInv, NEW t \in Threads, NEW i \in Ids, NEW s \in States, Deduplicate(t, i, s),
         Mending(pc[t], op[t])
  PROVE  Mending(pc[t], op[t])'
<1>0. TypeOK /\ op[t] \in Ops
  BY DEF IInv, TypeOK
<1>1. CASE IOFails /\ Becomes(t, "repair", KeepOp(op[t], i, s))
  <2>1. pc'[t] = "repair" /\ op'[t].clean = FALSE
    BY <1>0, <1>1 DEF Becomes, TypeOK, KeepOp, Ops
  <2> QED
    BY <2>1 DEF Mending
<1>2. CASE Remove(i, s) /\ Becomes(t, "repair", DropOp(op[t], i, s))
  <2> DEFINE o == DropOp(op[t], i, s)
  <2>1. pc'[t] = "repair" /\ op'[t] = o /\ pc[t] = "repair"
    BY <1>0, <1>2 DEF Becomes, TypeOK, Deduplicate
  <2>2. /\ o.clean = op[t].clean /\ o.drop = op[t].drop \ {<<i, s>>}
        /\ o.todo = IF s = "sending" THEN op[t].todo \ {i} ELSE op[t].todo
    BY <1>0 DEF DropOp, Ops
  <2> HIDE DEF o
  <2>3. /\ store'[i][s] = Absent /\ \A r \in States \ {s} : store'[i][r] = store[i][r]
        /\ \A j \in Ids \ {i} : store'[j] = store[j]
    BY <1>0, <1>2, RemoveIs
  <2>4. \A j \in Ids, r \in States : Has(j, r)' => Has(j, r) /\ <<j, r>> # <<i, s>>
    BY <2>3 DEF Has
  <2>5. ASSUME o.clean, NEW j \in Ids
        PROVE  /\ Has(j, "sending")' => j \in o.todo
               /\ \E keep \in States : \A r \in States : Has(j, r)' /\ r # keep => <<j, r>> \in o.drop
    <3>1. Has(j, "sending") => j \in op[t].todo
      BY <2>1, <2>2, <2>5 DEF Mending
    <3>2. PICK keep \in States : \A r \in States : Has(j, r) /\ r # keep => <<j, r>> \in op[t].drop
      BY <2>1, <2>2, <2>5 DEF Mending
    <3>3. \A r \in States : Has(j, r)' /\ r # keep => <<j, r>> \in o.drop
      BY <2>2, <2>4, <3>2
    <3> QED
      BY <2>2, <2>4, <3>1, <3>3, StateNames
  <2> QED
    BY <2>1, <2>5 DEF Mending
<1> QED
  BY <1>1, <1>2 DEF Deduplicate, DropOp, KeepOp

\* A record that is failed had nothing but its copy in sending.
LEMMA FailStrandedMends ==
  ASSUME IInv, NEW t \in Threads, NEW i \in Ids, FailStranded(t, i), Mending(pc[t], op[t])
  PROVE  Mending(pc[t], op[t])'
<1>0. /\ TypeOK /\ op[t] \in Ops /\ pc[t] = "repair" /\ op[t].drop = {} /\ i \in op[t].todo
      /\ LocalOK(pc[t], op[t])
  BY DEF IInv, TypeOK, FailStranded
<1>1. CASE Becomes(t, "repair", MissOp(op[t], i))
  <2>1. pc'[t] = "repair" /\ op'[t].clean = FALSE
    BY <1>0, <1>1 DEF Becomes, TypeOK, MissOp, Ops
  <2> QED
    BY <2>1 DEF Mending
<1>2. CASE /\ Write(i, "failed", store[i]["sending"])
           /\ Becomes(t, "unstrand", StrandOp(op[t], i))
  <2> DEFINE o == StrandOp(op[t], i)
  <2>1. pc'[t] = "unstrand" /\ op'[t] = o
    BY <1>0, <1>2 DEF Becomes, TypeOK
  <2>2. o.clean = op[t].clean /\ o.id = i /\ o.todo = op[t].todo \ {i}
    BY <1>0 DEF StrandOp, Ops
  <2> HIDE DEF o
  <2>3. Has(i, "sending") /\ store[i]["sending"] \in Nat
    BY <1>0, StateNames DEF LocalOK, Has, TypeOK, Absent
  <2>4. /\ \A r \in States \ {"failed"} : store'[i][r] = store[i][r]
        /\ \A j \in Ids \ {i} : store'[j] = store[j]
    BY <1>0, <1>2, <2>3, StateNames, WriteIs
  <2>5. SUFFICES ASSUME o.clean
                 PROVE  /\ ~Has(i, "queued")' /\ ~Has(i, "sent")'
                        /\ \A j \in Ids \ {i} :
                             /\ Has(j, "sending")' => j \in o.todo
                             /\ \E keep \in States : \A s \in States : Has(j, s)' => s = keep
    BY <2>1, <2>2 DEF Mending
  <2>6. \A j \in Ids : /\ Has(j, "sending") => j \in op[t].todo
                       /\ \E keep \in States : \A s \in States : Has(j, s) => s = keep
    BY <1>0, <2>2, <2>5 DEF Mending
  <2>7. ~Has(i, "queued")' /\ ~Has(i, "sent")'
    BY <2>3, <2>4, <2>6, StateNames DEF Has
  <2>8. ASSUME NEW j \in Ids \ {i}
        PROVE  /\ Has(j, "sending")' => j \in o.todo
               /\ \E keep \in States : \A s \in States : Has(j, s)' => s = keep
    BY <2>2, <2>4, <2>6 DEF Has
  <2> QED
    BY <2>7, <2>8
<1> QED
  BY <1>1, <1>2 DEF FailStranded, StrandOp, MissOp, Transition

\* A record that has been failed leaves sending.
LEMMA UnstrandMends ==
  ASSUME IInv, NEW t \in Threads, Unstrand(t), Mending(pc[t], op[t])
  PROVE  Mending(pc[t], op[t])'
<1>0. /\ TypeOK /\ op[t] \in Ops /\ pc[t] = "unstrand" /\ LocalOK(pc[t], op[t]) /\ op[t].id \in Ids
  BY ReadyAll, HasIt DEF IInv, TypeOK, Unstrand, WithMessage
<1>1. CASE Becomes(t, "repair", UncleanOp(op[t]))
  <2>1. pc'[t] = "repair" /\ op'[t].clean = FALSE
    BY <1>0, <1>1 DEF Becomes, TypeOK, UncleanOp, Ops
  <2> QED
    BY <2>1 DEF Mending
<1>2. CASE Remove(op[t].id, "sending") /\ Becomes(t, "repair", op[t])
  <2>1. pc'[t] = "repair" /\ op'[t] = op[t]
    BY <1>0, <1>2 DEF Becomes, TypeOK
  <2>2. PICK i \in Ids : i = op[t].id
    BY <1>0
  <2>3. /\ store'[i]["sending"] = Absent
        /\ \A r \in States \ {"sending"} : store'[i][r] = store[i][r]
        /\ \A j \in Ids \ {i} : store'[j] = store[j]
    BY <1>0, <1>2, <2>2, StateNames, RemoveIs
  <2>4. op[t].drop = {}
    BY <1>0 DEF LocalOK
  <2>5. ASSUME op[t].clean, NEW j \in Ids
        PROVE  /\ Has(j, "sending")' => j \in op[t].todo
               /\ \E keep \in States : \A s \in States :
                    Has(j, s)' /\ s # keep => <<j, s>> \in op[t].drop
    <3>1. CASE j = i
      <4>1. ~Has(i, "queued") /\ ~Has(i, "sent")
        BY <1>0, <2>2, <2>5 DEF Mending
      <4>2. \A s \in States : Has(i, s)' => s = "failed"
        BY <2>3, <4>1 DEF Has, States
      <4> QED
        BY <3>1, <4>2, StateNames
    <3>2. CASE j # i
      <4>1. /\ Has(j, "sending") => j \in op[t].todo
            /\ \E keep \in States : \A s \in States : Has(j, s) => s = keep
        BY <1>0, <2>2, <2>5, <3>2 DEF Mending
      <4>2. store'[j] = store[j]
        BY <2>3, <3>2
      <4> QED
        BY <4>1, <4>2 DEF Has
    <3> QED
      BY <3>1, <3>2
  <2> QED
    BY <2>1, <2>5 DEF Mending
<1> QED
  BY <1>1, <1>2 DEF Unstrand, Goto, UncleanOp

\* A repair is not disturbed by a message that appears under it.
LEMMA BystanderMends ==
  ASSUME IInv, NEW t \in Threads, pc'[t] = pc[t], op'[t] = op[t], Bystands, Mending(pc[t], op[t])
  PROVE  Mending(pc[t], op[t])'
<1>0. op[t] \in Ops /\ LocalOK(pc[t], op[t]) /\ (pc[t] = "unstrand" => op[t].id \in Ids)
  BY ReadyAll, HasIt DEF IInv, TypeOK, WithMessage
<1>1. ASSUME NEW j \in Ids
      PROVE  \/ store'[j] = store[j]
             \/ ~Has(j, "sending")' /\ \A s \in States : Has(j, s)' => s = "queued"
  BY StateNames DEF Bystands
<1>2. ASSUME pc[t] = "repair", op[t].clean, NEW j \in Ids
      PROVE  /\ Has(j, "sending")' => j \in op[t].todo
             /\ \E keep \in States : \A s \in States :
                  Has(j, s)' /\ s # keep => <<j, s>> \in op[t].drop
  <2>1. /\ Has(j, "sending") => j \in op[t].todo
        /\ \E keep \in States : \A s \in States : Has(j, s) /\ s # keep => <<j, s>> \in op[t].drop
    BY <1>2 DEF Mending
  <2> QED
    BY <1>1, <2>1, StateNames DEF Has
<1>3. ASSUME pc[t] = "unstrand", op[t].clean
      PROVE  /\ ~Has(op[t].id, "queued")' /\ ~Has(op[t].id, "sent")'
             /\ \A j \in Ids \ {op[t].id} :
                  /\ Has(j, "sending")' => j \in op[t].todo
                  /\ \E keep \in States : \A s \in States : Has(j, s)' => s = keep
  <2>1. PICK i \in Ids : i = op[t].id
    BY <1>0, <1>3
  <2>2. store'[i] = store[i]
    <3>1. Has(i, "failed")
      BY <1>0, <1>3, <2>1 DEF LocalOK
    <3>2. i \in accepted
      BY <3>1, StateNames DEF IInv, RecordOK
    <3> QED
      BY <3>2 DEF Bystands
  <2>3. ~Has(i, "queued")' /\ ~Has(i, "sent")'
    BY <1>3, <2>1, <2>2 DEF Mending, Has
  <2>4. ASSUME NEW j \in Ids \ {i}
        PROVE  /\ Has(j, "sending")' => j \in op[t].todo
               /\ \E keep \in States : \A s \in States : Has(j, s)' => s = keep
    <3>1. /\ Has(j, "sending") => j \in op[t].todo
          /\ \E keep \in States : \A s \in States : Has(j, s) => s = keep
      BY <1>3, <2>1 DEF Mending
    <3> QED
      BY <1>1, <3>1, StateNames DEF Has
  <2> QED
    BY <2>1, <2>3, <2>4
<1> QED
  BY <1>2, <1>3 DEF Mending

\* Every step keeps what is left for a repair to do.
LEMMA MendingNext ==
  ASSUME IInv, [Next]_vars, \A t \in Threads : Mending(pc[t], op[t])
  PROVE  \A t \in Threads : Mending(pc[t], op[t])'
<1> TAKE t \in Threads
<1>1. CASE pc'[t] \notin {"repair", "unstrand"}
  BY <1>1 DEF Mending
<1>2. CASE pc'[t] \in {"repair", "unstrand"}
  <2>1. pc'[t] \in Tracked
    BY <1>2 DEF Tracked
  <2>2. CASE Unqueue(t) \/ Send(t)
    <3>1. pc'[t] \notin {"repair", "unstrand"}
      BY <2>2 DEF Unqueue, Send, Skip, Goto, Becomes, IInv, TypeOK
    <3> QED
      BY <1>2, <3>1
  <2> QED
    BY <2>1, <2>2, HowTracked, SurveyMends, DeduplicateMends, FailStrandedMends, UnstrandMends,
       BystanderMends
<1> QED
  BY <1>1, <1>2

\* What a repair that is about to report success leaves.
LEMMA MendedIsSingle ==
  ASSUME IInv, NEW t \in Threads, Mending(pc[t], op[t]), RecoverDone(t), op[t].clean,
         NEW i \in accepted
  PROVE  Cardinality(Held(store[i])) = 1 /\ "sending" \notin Held(store[i])
<1>1. i \in Ids /\ \E s \in States : Has(i, s)
  BY DEF IInv, TypeOK, RecordOK
<1>2. /\ ~Has(i, "sending")
      /\ \E keep \in States : \A s \in States : Has(i, s) => s = keep
  BY <1>1 DEF Mending, RecoverDone
<1>3. \E keep : Held(store[i]) = {keep}
  BY <1>1, <1>2 DEF Held, Has
<1> QED
  BY <1>2, <1>3, FS_Singleton, StateNames DEF Held, Has

\* A repair that reports no error leaves one copy of every record and none in sending,
\* whatever was queued, and whichever other process asked for the outbox, meanwhile.
THEOREM RepairIsClean == Spec => CleanRepair
<1> DEFINE Mends == \A t \in Threads : Mending(pc[t], op[t])
<1>1. Init => Mends
  BY DEF Init, Mending
<1>2. IInv /\ [Next]_vars /\ Mends => Mends'
  <2> SUFFICES ASSUME IInv, [Next]_vars, Mends PROVE Mends'
    OBVIOUS
  <2> QED
    BY MendingNext
<1>3. IInv /\ Mends => \A t \in Threads : RecoverDone(t) /\ op[t].clean =>
        \A i \in accepted : Cardinality(Held(store[i])) = 1 /\ "sending" \notin Held(store[i])
  BY MendedIsSingle
<1> HIDE DEF Mends
<1>4. Spec => [](IInv /\ Mends)
  BY <1>1, <1>2, Invariance, PTL DEF Spec
<1>5. IInv /\ Mends /\ [Next]_vars => [\A t \in Threads : RecoverDone(t) /\ op[t].clean =>
        \A i \in accepted : Cardinality(Held(store[i])) = 1 /\ "sending" \notin Held(store[i])]_vars
  BY <1>3
<1> QED
  BY <1>4, <1>5, PTL DEF Spec, CleanRepair

-----------------------------------------------------------------------------
(* The files move along the lifecycle, as long as no file operation fails.  *)

\* A record goes from one state to the next and no other record's files change.
Turn(i, from, to) ==
  Stands(store[i]) = from /\ Stands(store'[i]) = to /\ Others(i)

\* The events of the lifecycle, as changes of where a record stands.
Happens(i) ==
  \/ Turn(i, "none", "queued") /\ UNCHANGED <<sends, retries>>
  \/ Turn(i, "queued", "sending") /\ UNCHANGED <<sends, retries>>
  \/ Turn(i, "sending", "sent") /\ sends[i] > 0 /\ UNCHANGED <<sends, retries>>
  \/ Turn(i, "sending", "failed") /\ UNCHANGED <<sends, retries>>
  \/ Turn(i, "failed", "queued") /\ retries' = [retries EXCEPT ![i] = @ + 1] /\ UNCHANGED sends
  \/ /\ Stands(store[i]) = "sending" /\ sends[i] <= retries[i]
     /\ sends' = [sends EXCEPT ![i] = @ + 1] /\ UNCHANGED <<store, retries>>

\* Every record stays where it stands, or an event happens to one of them.
Progress ==
  /\ \A i \in Ids : Orderly(store'[i])
  /\ \/ /\ \A i \in Ids : Stands(store'[i]) = Stands(store[i])
        /\ UNCHANGED <<sends, retries>>
     \/ \E i \in Ids : Happens(i)

\* A step that changes no file and hands nothing over.
LEMMA QuietProgress ==
  ASSUME LifecycleInv, UNCHANGED <<store, sends, retries>>
  PROVE  Progress
  BY DEF LifecycleInv, Progress

\* The removal of a copy that does not count.
LEMMA RemovalProgress ==
  ASSUME TypeOK, LifecycleInv, NEW i \in Ids, NEW s \in States, Remove(i, s),
         s # Stands(store[i]), UNCHANGED <<sends, retries>>
  PROVE  Progress /\ Stands(store'[i]) = Stands(store[i])
<1>1. /\ store' \in [Ids -> [States -> Nat \cup {Absent}]]
      /\ store'[i][s] = Absent /\ \A r \in States \ {s} : store'[i][r] = store[i][r]
      /\ \A j \in Ids \ {i} : store'[j] = store[j]
  BY RemoveIs
<1>2. /\ store[i] \in [States -> Nat \cup {Absent}] /\ store'[i] \in [States -> Nat \cup {Absent}]
      /\ Orderly(store[i])
  BY <1>1 DEF TypeOK, LifecycleInv
<1> DEFINE before == store[i]
           after == store'[i]
<1>3. /\ before \in [States -> Nat \cup {Absent}] /\ after \in [States -> Nat \cup {Absent}]
      /\ Orderly(before) /\ s # Stands(before)
      /\ after[s] = Absent /\ \A r \in States \ {s} : after[r] = before[r]
  BY <1>1, <1>2
<1> HIDE DEF before, after
<1>4. Orderly(after) /\ Stands(after) = Stands(before)
  BY <1>3, RemovalStands
<1>5. \A j \in Ids : Orderly(store'[j]) /\ Stands(store'[j]) = Stands(store[j])
  BY <1>1, <1>4 DEF before, after, LifecycleInv
<1> QED
  BY <1>5 DEF Progress

\* A write that makes an orderly record of a record is an event.
LEMMA WriteProgress ==
  ASSUME LifecycleInv, NEW i \in Ids, Others(i), Orderly(store'[i]),
         \/ Happens(i)
         \/ Stands(store'[i]) = Stands(store[i]) /\ UNCHANGED <<sends, retries>>
  PROVE  Progress
<1>1. \A j \in Ids \ {i} : Orderly(store'[j]) /\ Stands(store'[j]) = Stands(store[j])
  BY DEF Others, LifecycleInv
<1> QED
  BY <1>1 DEF Progress

\* The authoritative copy of a message that has one.
LEMMA Authoritative ==
  ASSUME TypeOK, LifecycleInv, NEW i \in Ids, \E s \in States : Has(i, s)
  PROVE  Survivor(store[i]) = Stands(store[i])
<1>1. /\ store[i] \in [States -> Nat \cup {Absent}] /\ Orderly(store[i])
      /\ Held(store[i]) # {}
  BY DEF TypeOK, LifecycleInv, Held, Has
<1> QED
  BY <1>1, SurvivorStands

\* The copies of one message, each with its type.
LEMMA CopiesTyped ==
  ASSUME TypeOK, NEW i \in Ids
  PROVE  /\ store[i] \in [States -> Nat \cup {Absent}]
         /\ store[i]["queued"] \in Nat \cup {Absent} /\ store[i]["sending"] \in Nat \cup {Absent}
         /\ store[i]["sent"] \in Nat \cup {Absent} /\ store[i]["failed"] \in Nat \cup {Absent}
  BY StateNames DEF TypeOK

\* A message enters the lifecycle in queued.
LEMMA EnqueueProgress ==
  ASSUME IInv, LifecycleInv, NEW i \in Ids, NEW t, NEW l, Enqueue(t, i, l)
  PROVE  Progress
<1>0. TypeOK /\ RecordOK(i) /\ i \notin accepted
  BY DEF IInv, Enqueue
<1>1. /\ Others(i) /\ store' \in [Ids -> [States -> Nat \cup {Absent}]]
      /\ store'[i]["queued"] = 0 /\ \A r \in States \ {"queued"} : store'[i][r] = store[i][r]
  BY <1>0, StateNames, WriteIs DEF Enqueue, Others
<1>2. \A s \in States : store[i][s] = Absent
  BY <1>0 DEF RecordOK, Has
<1>3. Stands(store[i]) = "none"
  BY <1>0, <1>2, CopiesTyped, StandsIs, StateNames
<1>4. /\ store'[i]["sending"] = Absent /\ store'[i]["sent"] = Absent /\ store'[i]["failed"] = Absent
  BY <1>1, <1>2, StateNames
<1>5. Orderly(store'[i])
  BY <1>1, <1>4 DEF Orderly, Absent
<1>6. Stands(store'[i]) = "queued"
  <2>1. store'[i] \in [States -> Nat \cup {Absent}]
    BY <1>1
  <2> QED
    BY <1>1, <1>4, <2>1, StandsIs DEF Absent
<1>7. Happens(i)
  BY <1>1, <1>3, <1>6 DEF Happens, Turn, Enqueue
<1> QED
  BY <1>1, <1>5, <1>7, WriteProgress

\* deduplicate removes no authoritative copy.
LEMMA DeduplicateProgress ==
  ASSUME IInv, LifecycleInv, "fault" \notin Mishaps,
         NEW t \in Threads, NEW i \in Ids, NEW s \in States, Deduplicate(t, i, s)
  PROVE  Remove(i, s) /\ s # Stands(store[i]) /\ Progress
         /\ Stands(store'[i]) = Stands(store[i])
<1>0. /\ TypeOK /\ Remove(i, s) /\ UNCHANGED <<sends, retries>>
      /\ pc[t] = "repair" /\ <<i, s>> \in op[t].drop
      /\ LocalOK(pc[t], op[t]) /\ Surveyed(pc[t], op[t])
  BY DEF IInv, LifecycleInv, Deduplicate, IOFails, Mishap, history
<1>1. <<i, s>>[1] = i /\ <<i, s>>[2] = s
  OBVIOUS
<1>2. s # Survivor(store[i])
  BY <1>0, <1>1 DEF Surveyed
<1>3. Has(i, s)
  BY <1>0, <1>1 DEF LocalOK
<1>4. s # Stands(store[i])
  BY <1>0, <1>2, <1>3, Authoritative
<1> QED
  BY <1>0, <1>4, RemovalProgress

\* failStranded fails a record of which nothing but the copy in sending is left.
LEMMA FailStrandedProgress ==
  ASSUME IInv, LifecycleInv, "fault" \notin Mishaps,
         NEW t \in Threads, NEW i \in Ids, FailStranded(t, i)
  PROVE  Progress /\ (UNCHANGED store \/ /\ Others(i) /\ ~Has(i, "queued")' /\ ~Has(i, "sent")')
<1>0. /\ TypeOK /\ UNCHANGED <<sends, retries>>
      /\ pc[t] = "repair" /\ i \in op[t].todo /\ op[t].drop = {}
      /\ LocalOK(pc[t], op[t]) /\ Surveyed(pc[t], op[t])
      /\ Write(i, "failed", store[i]["sending"]) \/ UNCHANGED store
  BY DEF IInv, LifecycleInv, FailStranded, IOFails, Mishap, history, Transition, disk
<1>1. CASE UNCHANGED store
  BY <1>0, <1>1, QuietProgress
<1>2. CASE Write(i, "failed", store[i]["sending"])
  <2>1. Has(i, "sending") /\ \A s \in States : Has(i, s) => s = Survivor(store[i])
    BY <1>0 DEF LocalOK, Surveyed
  <2>2. ~Has(i, "queued") /\ ~Has(i, "sent") /\ ~Has(i, "failed")
    BY <2>1, StateNames
  <2>3. store[i]["sending"] \in Nat
    BY <1>0, <2>1, CopiesTyped DEF Has, Absent
  <2>4. /\ Others(i) /\ store' \in [Ids -> [States -> Nat \cup {Absent}]]
        /\ store'[i]["failed"] = store[i]["sending"]
        /\ \A r \in States \ {"failed"} : store'[i][r] = store[i][r]
    BY <1>0, <1>2, <2>3, StateNames, WriteIs DEF Others
  <2>5. /\ store'[i]["sending"] = store[i]["sending"] /\ store'[i]["queued"] = Absent
        /\ store'[i]["sent"] = Absent /\ store'[i] \in [States -> Nat \cup {Absent}]
    BY <2>2, <2>4, StateNames DEF Has
  <2>6. Orderly(store'[i])
    BY <2>3, <2>4, <2>5 DEF Orderly
  <2>7. Stands(store[i]) = "sending"
    BY <1>0, <2>1, <2>2, CopiesTyped, StandsIs DEF Has
  <2>8. Stands(store'[i]) = "failed"
    BY <2>1, <2>4, <2>5, StandsIs DEF Has
  <2>9. Happens(i)
    BY <1>0, <2>4, <2>7, <2>8 DEF Happens, Turn
  <2> QED
    BY <2>4, <2>5, <2>6, <2>9, WriteProgress DEF Has
<1> QED
  BY <1>0, <1>1, <1>2

\* The copy in sending is removed when the one in failed is authoritative.
LEMMA UnstrandProgress ==
  ASSUME IInv, LifecycleInv, "fault" \notin Mishaps, NEW t \in Threads, Unstrand(t)
  PROVE  Progress
<1>0. /\ TypeOK /\ UNCHANGED <<sends, retries>> /\ Remove(op[t].id, "sending")
      /\ pc[t] = "unstrand" /\ LocalOK(pc[t], op[t]) /\ Surveyed(pc[t], op[t]) /\ op[t].id \in Ids
  BY ReadyAll, HasIt DEF IInv, LifecycleInv, Unstrand, IOFails, Mishap, history, WithMessage
<1>1. PICK i \in Ids : i = op[t].id
  BY <1>0
<1>2. /\ Has(i, "failed") /\ store[i]["sending"] <= store[i]["failed"]
      /\ ~Has(i, "queued") /\ ~Has(i, "sent") /\ Orderly(store[i])
  BY <1>0, <1>1 DEF LocalOK, Surveyed, LifecycleInv
<1>3. Stands(store[i]) = "failed"
  BY <1>0, <1>2, CopiesTyped, StandsIs DEF Has, Orderly, Absent
<1> QED
  BY <1>0, <1>1, <1>3, StateNames, RemovalProgress

\* SEND counts the attempt, or counts it again where it was counted already.
LEMMA StartSendProgress ==
  ASSUME IInv, LifecycleInv, "fault" \notin Mishaps,
         NEW t \in Threads, NEW i \in Ids, StartSend(t, i)
  PROVE  Progress
<1> DEFINE n == store[i]["queued"] + 1
<1>0. /\ TypeOK /\ UNCHANGED <<sends, retries>> /\ FindsIn(i, "queued")
      /\ Write(i, "sending", n) /\ Orderly(store[i])
  BY DEF IInv, LifecycleInv, StartSend, Transition, IOFails, Mishap, history
<1>1. Has(i, "queued") /\ store[i]["queued"] \in Nat /\ n \in Nat
  BY <1>0, FindsQueued, CopiesTyped DEF Has, Absent
<1>2. /\ Others(i) /\ store' \in [Ids -> [States -> Nat \cup {Absent}]]
      /\ store'[i]["sending"] = n /\ \A r \in States \ {"sending"} : store'[i][r] = store[i][r]
  BY <1>0, <1>1, StateNames, WriteIs DEF Others
<1>3. /\ store[i]["sent"] = Absent /\ store[i]["failed"] <= store[i]["queued"]
      /\ store[i]["sending"] # Absent => store[i]["sending"] = n
  BY <1>0, <1>1 DEF Orderly, Has
<1>4. /\ store'[i]["queued"] = store[i]["queued"] /\ store'[i]["sent"] = Absent
      /\ store'[i]["failed"] = store[i]["failed"] /\ store'[i] \in [States -> Nat \cup {Absent}]
  BY <1>2, <1>3, StateNames
<1>5. store[i]["failed"] < n
  BY <1>0, <1>1, <1>3, CopiesTyped DEF Absent
<1>6. Orderly(store'[i])
  BY <1>0, <1>1, <1>2, <1>3, <1>4, <1>5, CopiesTyped DEF Orderly, Absent
<1>7. Stands(store'[i]) = "sending"
  BY <1>0, <1>1, <1>2, <1>4, <1>5, CopiesTyped, StandsIs DEF Absent
<1>8. Stands(store[i]) \in {"queued", "sending"}
  BY <1>0, <1>1, <1>3, <1>5, CopiesTyped, StandsIs DEF Has, Absent
<1>9. Happens(i) \/ Stands(store'[i]) = Stands(store[i])
  BY <1>0, <1>2, <1>7, <1>8 DEF Happens, Turn
<1> QED
  BY <1>0, <1>2, <1>6, <1>9, WriteProgress

\* A message that leaves queued stands in sending already.
LEMMA UnqueueProgress ==
  ASSUME IInv, LifecycleInv, "fault" \notin Mishaps, NEW t \in Threads, Unqueue(t)
  PROVE  Progress /\ store'[op[t].id]["failed"] < op[t].attempts
<1>0. /\ TypeOK /\ UNCHANGED <<sends, retries>> /\ Remove(op[t].id, "queued")
      /\ pc[t] = "unqueue" /\ LocalOK(pc[t], op[t]) /\ op[t].id \in Ids
  BY ReadyAll, HasIt DEF IInv, Unqueue, Transition, IOFails, Mishap, history, WithMessage
<1>1. PICK i \in Ids : i = op[t].id
  BY <1>0
<1>2. /\ Has(i, "queued") /\ ~Has(i, "sent") /\ op[t].attempts = store[i]["queued"] + 1
      /\ store[i]["sending"] = op[t].attempts /\ Orderly(store[i])
  BY <1>0, <1>1 DEF LocalOK, LifecycleInv
<1>3. store[i]["failed"] < op[t].attempts /\ store[i]["sending"] # Absent
  BY <1>0, <1>2, CopiesTyped DEF Orderly, Has, Absent
<1>4. Stands(store[i]) = "sending"
  BY <1>0, <1>2, <1>3, CopiesTyped, StandsIs DEF Has, Absent
<1>5. store'[i]["failed"] = store[i]["failed"]
  BY <1>0, <1>1, RemoveIs, StateNames
<1> QED
  BY <1>0, <1>1, <1>3, <1>4, <1>5, StateNames, RemovalProgress

\* A record on the wire stands in sending.
LEMMA WireStands ==
  ASSUME IInv, LifecycleInv, NEW t \in Threads, pc[t] \in {"wire", "SUCCEED", "FAIL"},
         NEW i \in Ids, i = op[t].id
  PROVE  /\ store[i]["queued"] = Absent /\ store[i]["sent"] = Absent
         /\ store[i]["sending"] = op[t].attempts /\ op[t].attempts \in Nat
         /\ store[i]["failed"] < op[t].attempts
         /\ Stands(store[i]) = "sending"
<1>0. /\ TypeOK /\ LocalOK(pc[t], op[t]) /\ Surveyed(pc[t], op[t]) /\ op[t].attempts \in Nat
  BY ReadyAll, ReadyFacts DEF IInv, LifecycleInv
<1>1. OnTheWire(i, op[t].attempts) /\ store[i]["failed"] < op[t].attempts
  BY <1>0 DEF LocalOK, Surveyed
<1>2. /\ store[i]["queued"] = Absent /\ store[i]["sent"] = Absent
      /\ store[i]["sending"] = op[t].attempts
  BY <1>1 DEF OnTheWire, Has
<1> QED
  BY <1>0, <1>1, <1>2, CopiesTyped, StandsIs DEF Absent

\* The handover is of a record in sending whose latest decision is not acted on.
LEMMA SendProgress ==
  ASSUME IInv, LifecycleInv, NEW t \in Threads, Send(t)
  PROVE  Progress
<1>0. /\ TypeOK /\ pc[t] = "wire" /\ LocalOK(pc[t], op[t]) /\ op[t].id \in Ids
      /\ UNCHANGED <<store, retries>> /\ sends' = [sends EXCEPT ![op[t].id] = @ + 1]
  BY ReadyAll, HasIt DEF IInv, Send, disk, WithMessage
<1>1. PICK i \in Ids : i = op[t].id
  BY <1>0
<1>2. Stands(store[i]) = "sending" /\ sends[i] <= retries[i]
  BY <1>0, <1>1, WireStands DEF LocalOK
<1>3. Happens(i)
  BY <1>0, <1>1, <1>2 DEF Happens
<1> QED
  BY <1>0, <1>3 DEF Progress, LifecycleInv

\* The outcome of a delivery is written over a record in sending.
LEMMA RecordProgress ==
  ASSUME IInv, LifecycleInv, "fault" \notin Mishaps, NEW t \in Threads, Record(t)
  PROVE  Progress
<1>0. /\ TypeOK /\ pc[t] \in {"SUCCEED", "FAIL"} /\ op[t].id \in Ids
      /\ Surveyed(pc[t], op[t]) /\ UNCHANGED <<sends, retries>>
      /\ Write(op[t].id, Transition[pc[t]].to, op[t].attempts)
  BY ReadyAll, HasIt DEF IInv, LifecycleInv, Record, IOFails, Mishap, history, WithMessage
<1>1. PICK i \in Ids : i = op[t].id
  BY <1>0
<1>2. PICK n \in Nat : n = op[t].attempts
  BY <1>0, <1>1, WireStands
<1>3. /\ store[i]["queued"] = Absent /\ store[i]["sent"] = Absent /\ store[i]["sending"] = n
      /\ store[i]["failed"] < n /\ Stands(store[i]) = "sending"
  BY <1>0, <1>1, <1>2, WireStands
<1>4. CASE pc[t] = "SUCCEED"
  <2>1. Write(i, "sent", n)
    BY <1>0, <1>1, <1>2, <1>4 DEF Transition
  <2>2. /\ Others(i) /\ store' \in [Ids -> [States -> Nat \cup {Absent}]]
        /\ store'[i]["sent"] = n /\ \A r \in States \ {"sent"} : store'[i][r] = store[i][r]
    BY <1>0, <2>1, StateNames, WriteIs DEF Others
  <2>3. /\ store'[i]["queued"] = Absent /\ store'[i]["sending"] = n
        /\ store'[i]["failed"] = store[i]["failed"] /\ store'[i] \in [States -> Nat \cup {Absent}]
    BY <1>3, <2>2, StateNames
  <2>4. Orderly(store'[i])
    BY <1>0, <1>3, <2>2, <2>3, CopiesTyped DEF Orderly, States, Absent
  <2>5. Stands(store'[i]) = "sent"
    BY <2>2, <2>3, StandsIs DEF Absent
  <2>6. sends[i] > 0
    BY <1>0, <1>1, <1>4 DEF Surveyed
  <2>7. Happens(i)
    BY <1>0, <1>3, <2>2, <2>5, <2>6 DEF Happens, Turn
  <2> QED
    BY <2>2, <2>4, <2>7, WriteProgress
<1>5. CASE pc[t] = "FAIL"
  <2>1. Write(i, "failed", n)
    BY <1>0, <1>1, <1>2, <1>5 DEF Transition
  <2>2. /\ Others(i) /\ store' \in [Ids -> [States -> Nat \cup {Absent}]]
        /\ store'[i]["failed"] = n /\ \A r \in States \ {"failed"} : store'[i][r] = store[i][r]
    BY <1>0, <2>1, StateNames, WriteIs DEF Others
  <2>3. /\ store'[i]["queued"] = Absent /\ store'[i]["sending"] = n
        /\ store'[i]["sent"] = Absent /\ store'[i] \in [States -> Nat \cup {Absent}]
    BY <1>3, <2>2, StateNames
  <2>4. Orderly(store'[i])
    BY <2>2, <2>3 DEF Orderly
  <2>5. Stands(store'[i]) = "failed"
    BY <2>2, <2>3, StandsIs DEF Absent
  <2>6. Happens(i)
    BY <1>0, <1>3, <2>2, <2>5 DEF Happens, Turn
  <2> QED
    BY <2>2, <2>4, <2>6, WriteProgress
<1> QED
  BY <1>0, <1>4, <1>5

\* A delivered message leaves sending when sent or failed is authoritative.
LEMMA UnsendProgress ==
  ASSUME IInv, LifecycleInv, "fault" \notin Mishaps, NEW t \in Threads, Unsend(t)
  PROVE  Progress
<1>0. /\ TypeOK /\ pc[t] = "unsend" /\ op[t].id \in Ids /\ LocalOK(pc[t], op[t])
      /\ UNCHANGED <<sends, retries>> /\ Remove(op[t].id, "sending")
  BY ReadyAll, HasIt DEF IInv, Unsend, IOFails, Mishap, history, WithMessage
<1>1. PICK i \in Ids : i = op[t].id
  BY <1>0
<1>2. /\ Orderly(store[i])
      /\ \E r \in {"sent", "failed"} : Has(i, r) /\ store[i]["sending"] <= store[i][r]
  BY <1>0, <1>1 DEF LocalOK, LifecycleInv
<1>3. Stands(store[i]) # "sending"
  BY <1>0, <1>2, CopiesTyped, StandsIs DEF Has, Orderly, Absent
<1> QED
  BY <1>0, <1>1, <1>3, StateNames, RemovalProgress

\* A retry is decided about a record that is in failed and nowhere else.
LEMMA RequeueProgress ==
  ASSUME IInv, LifecycleInv, "fault" \notin Mishaps, NEW t \in Threads, Requeue(t)
  PROVE  Progress
<1>0. TypeOK /\ op[t].want \in Ids
  BY ReadyAll, HasIt DEF IInv, Requeue, WithTarget
<1>1. PICK i \in Ids : i = op[t].want
  BY <1>0
<1>2. /\ FindsIn(i, "failed") /\ Write(i, "queued", store[i]["failed"])
      /\ retries' = [retries EXCEPT ![i] = @ + 1] /\ UNCHANGED sends
  BY <1>1 DEF Requeue, Transition, IOFails, Mishap
<1>3. Has(i, "failed") /\ \A s \in States : Has(i, s) => s = "failed"
  BY <1>0, <1>2, FindsFailed
<1>4. /\ store[i]["failed"] \in Nat /\ store[i]["queued"] = Absent
      /\ store[i]["sending"] = Absent /\ store[i]["sent"] = Absent
  BY <1>0, <1>3, CopiesTyped, StateNames DEF Has, Absent
<1>5. /\ Others(i) /\ store' \in [Ids -> [States -> Nat \cup {Absent}]]
      /\ store'[i]["queued"] = store[i]["failed"]
      /\ \A r \in States \ {"queued"} : store'[i][r] = store[i][r]
  BY <1>0, <1>2, <1>4, StateNames, WriteIs DEF Others
<1>6. /\ store'[i]["failed"] = store[i]["failed"] /\ store'[i]["sending"] = Absent
      /\ store'[i]["sent"] = Absent /\ store'[i] \in [States -> Nat \cup {Absent}]
  BY <1>4, <1>5, StateNames
<1>7. Orderly(store'[i])
  BY <1>4, <1>5, <1>6 DEF Orderly
<1>8. Stands(store[i]) = "failed" /\ Stands(store'[i]) = "queued"
  BY <1>0, <1>4, <1>5, <1>6, CopiesTyped, StandsIs DEF Absent
<1>9. Happens(i)
  BY <1>2, <1>5, <1>8 DEF Happens, Turn
<1> QED
  BY <1>5, <1>7, <1>9, WriteProgress

\* A retried message leaves failed when it stands in queued again.
LEMMA UnfailProgress ==
  ASSUME IInv, LifecycleInv, "fault" \notin Mishaps, NEW t \in Threads, Unfail(t)
  PROVE  Progress
<1>0. /\ TypeOK /\ pc[t] = "unfail" /\ op[t].want \in Ids /\ LocalOK(pc[t], op[t])
      /\ UNCHANGED <<sends, retries>> /\ Remove(op[t].want, "failed")
  BY ReadyAll, HasIt DEF IInv, Unfail, Transition, IOFails, Mishap, history, WithTarget
<1>1. PICK i \in Ids : i = op[t].want
  BY <1>0
<1>2. Orderly(store[i]) /\ Has(i, "queued")
  BY <1>0, <1>1 DEF LocalOK, LifecycleInv
<1>3. Stands(store[i]) # "failed"
  BY <1>0, <1>2, CopiesTyped, StandsIs DEF Has, Orderly, Absent
<1> QED
  BY <1>0, <1>1, <1>3, StateNames, RemovalProgress

\* Every step of an operation is an event of the lifecycle, or none that it sees.
LEMMA StepProgress ==
  ASSUME IInv, LifecycleInv, "fault" \notin Mishaps, NEW t \in Threads, Step(t)
  PROVE  Progress
<1>1. CASE \/ RecoverBusy(t) \/ Survey(t) \/ RecoverDone(t) \/ Hold(t) \/ ListQueued(t)
           \/ RunDone(t) \/ HoldRetry(t) \/ RetryRefused(t) \/ Scan(t) \/ ReportUnknown(t)
           \/ \E i \in Ids : SkipUnsendable(t, i)
  BY <1>1, QuietProgress DEF RecoverBusy, Survey, RecoverDone, Hold, ListQueued, RunDone,
       HoldRetry, RetryRefused, Scan, ReportUnknown, SkipUnsendable, disk, history
<1> QED
  BY <1>1, DeduplicateProgress, FailStrandedProgress, UnstrandProgress, StartSendProgress,
     UnqueueProgress, SendProgress, RecordProgress, UnsendProgress, RequeueProgress,
     UnfailProgress DEF Step

\* The same of every step.
LEMMA NextProgress ==
  ASSUME IInv, LifecycleInv, "fault" \notin Mishaps, [Next]_vars
  PROVE  Progress
<1>1. CASE StartServer \/ Tick \/ Misfortune \/ UNCHANGED vars
  BY <1>1, QuietProgress DEF StartServer, Tick, Misfortune, Crash, Damage, vars, disk, history
<1>2. CASE Request
  <2>1. ASSUME NEW t, NEW i \in Ids, ClientSend(t, i) \/ HandlerSend(t, i) PROVE Progress
    BY <2>1, EnqueueProgress DEF ClientSend, HandlerSend
  <2>2. ASSUME NEW t, ClientOutbox(t) \/ \E i \in Ids : AskStatus(t, i) \/ AskRetry(t, i)
        PROVE  Progress
    BY <2>2, QuietProgress DEF ClientOutbox, AskStatus, AskRetry, disk, history
  <2> QED
    BY <1>2, <2>1, <2>2 DEF Request
<1> QED
  BY <1>1, <1>2, StepProgress DEF Next

\* survey lists every copy but the authoritative one.
LEMMA SurveySurveys ==
  ASSUME IInv, NEW t \in Threads, Survey(t)
  PROVE  Surveyed(pc[t], op[t])'
<1>0. TypeOK
  BY DEF IInv
<1> DEFINE T == {i \in Ids : ~Damaged(i) /\ "sending" \in Held(store[i])}
           b == (torn = {})
           o == SurveyOp(op[t], Duplicates, T, b)
<1>1. op[t] \in Ops /\ op'[t] = o /\ pc'[t] = "repair" /\ store' = store
  BY <1>0 DEF Survey, Becomes, TypeOK, SurveyOp, disk
<1>2. o.drop = Duplicates /\ o.todo = T
  BY <1>1 DEF Ops, SurveyOp
<1> HIDE DEF o, b
<1>3. ASSUME NEW j \in T, NEW s \in States, Has(j, s), s # Survivor(store[j])
      PROVE  <<j, s>> \in Duplicates
  <2>0. <<j, s>> \in Ids \X States /\ <<j, s>>[1] = j /\ <<j, s>>[2] = s
    OBVIOUS
  <2>1. PICK c \in Ids \X States : c = <<j, s>> /\ c[1] = j /\ c[2] = s
    BY <2>0
  <2>2. ~Damaged(j)
    OBVIOUS
  <2>3. ~Damaged(c[1])
    BY <2>1, <2>2
  <2>4. c[2] \in Held(store[c[1]]) /\ c[2] # Survivor(store[c[1]])
    BY <1>3, <2>1 DEF Held, Has
  <2>5. c \in Duplicates
    BY <2>3, <2>4 DEF Duplicates
  <2> QED
    BY <2>1, <2>5
<1>4. \A c \in Duplicates : c[2] # Survivor(store[c[1]])
  BY DEF Duplicates
<1> HIDE DEF T
<1>5. Surveyed("repair", o)
  BY <1>2, <1>3, <1>4 DEF Surveyed
<1>6. op'[t].todo = o.todo /\ op'[t].drop = o.drop
  BY <1>1
<1> QED
  BY <1>1, <1>5, <1>6 DEF Surveyed, Has

\* What deduplicate leaves is less of the same.
LEMMA DeduplicateSurveys ==
  ASSUME IInv, IInv', LifecycleInv, Progress, "fault" \notin Mishaps,
         NEW t \in Threads, NEW i \in Ids, NEW s \in States, Deduplicate(t, i, s)
  PROVE  Surveyed(pc[t], op[t])'
<1>0. /\ TypeOK /\ TypeOK' /\ op[t] \in Ops /\ pc[t] = "repair"
      /\ Surveyed(pc[t], op[t]) /\ LocalOK(pc[t], op[t])
  BY DEF IInv, TypeOK, LifecycleInv, Deduplicate
<1>1. Remove(i, s) /\ s # Stands(store[i]) /\ Stands(store'[i]) = Stands(store[i])
  BY DeduplicateProgress
<1> DEFINE o == DropOp(op[t], i, s)
<1>2. pc'[t] = "repair" /\ op'[t] = o
  BY <1>0 DEF Deduplicate, IOFails, Mishap, Becomes, TypeOK, DropOp
<1>3. /\ o.drop = op[t].drop \ {<<i, s>>}
      /\ o.todo = IF s = "sending" THEN op[t].todo \ {i} ELSE op[t].todo
  BY <1>0 DEF DropOp, Ops
<1> HIDE DEF o
<1>4. /\ store'[i][s] = Absent /\ \A r \in States \ {s} : store'[i][r] = store[i][r]
      /\ \A j \in Ids \ {i} : store'[j] = store[j]
  BY <1>0, <1>1, RemoveIs
<1>5. \A j \in Ids, r \in States : Has(j, r)' => Has(j, r) /\ <<j, r>> # <<i, s>>
  BY <1>4 DEF Has
<1>6. ASSUME NEW j \in Ids, \E r \in States : Has(j, r)'
      PROVE  Survivor(store'[j]) = Survivor(store[j])
  <2>1. CASE j # i
    BY <1>4, <2>1
  <2>2. CASE j = i
    <3>1. Survivor(store[i]) = Stands(store[i])
      BY <1>0, <1>5, <1>6, <2>2, Authoritative
    <3>2. /\ store'[i] \in [States -> Nat \cup {Absent}] /\ Orderly(store'[i])
          /\ Held(store'[i]) # {}
      BY <1>0, <1>6, <2>2 DEF TypeOK, Progress, Held, Has
    <3>3. Survivor(store'[i]) = Stands(store'[i])
      BY <3>2, SurvivorStands
    <3> QED
      BY <1>1, <2>2, <3>1, <3>3
  <2> QED
    BY <2>1, <2>2
<1>7. ASSUME NEW j \in o.todo, NEW r \in States, Has(j, r)', r # Survivor(store'[j])
      PROVE  <<j, r>> \in o.drop
  <2>1. j \in op[t].todo /\ j \in Ids
    BY <1>0, <1>3, OpsFields
  <2>2. Has(j, r) /\ <<j, r>> # <<i, s>> /\ r # Survivor(store[j])
    BY <1>5, <1>6, <1>7, <2>1
  <2>3. <<j, r>> \in op[t].drop
    BY <1>0, <2>1, <2>2 DEF Surveyed
  <2> QED
    BY <1>3, <2>2, <2>3
<1>8. ASSUME NEW c \in o.drop PROVE c[2] # Survivor(store'[c[1]])
  <2>1. c \in op[t].drop /\ c # <<i, s>> /\ c[1] \in Ids /\ c[2] \in States /\ c = <<c[1], c[2]>>
    BY <1>0, <1>3, <1>8, OpsFields
  <2>2. Has(c[1], c[2]) /\ c[2] # Survivor(store[c[1]])
    BY <1>0, <2>1 DEF LocalOK, Surveyed
  <2>3. Has(c[1], c[2])'
    <3>1. CASE c[1] = i
      BY <1>4, <2>1, <2>2, <3>1 DEF Has
    <3>2. CASE c[1] # i
      BY <1>4, <2>1, <2>2, <3>2 DEF Has
    <3> QED
      BY <3>1, <3>2
  <2> QED
    BY <1>6, <2>1, <2>2, <2>3
<1> QED
  BY <1>2, <1>7, <1>8 DEF Surveyed

\* failStranded keeps what is known of the records it has yet to fail.
LEMMA FailStrandedSurveys ==
  ASSUME IInv, LifecycleInv, "fault" \notin Mishaps,
         NEW t \in Threads, NEW i \in Ids, FailStranded(t, i)
  PROVE  Surveyed(pc[t], op[t])'
<1>0. /\ TypeOK /\ op[t] \in Ops /\ pc[t] = "repair" /\ op[t].drop = {}
      /\ Surveyed(pc[t], op[t])
  BY DEF IInv, TypeOK, LifecycleInv, FailStranded
<1>1. \A j \in op[t].todo, s \in States : Has(j, s) => s = Survivor(store[j])
  BY <1>0 DEF Surveyed
<1>2. CASE UNCHANGED store /\ Becomes(t, "repair", MissOp(op[t], i))
  <2> DEFINE o == MissOp(op[t], i)
  <2>1. /\ pc'[t] = "repair" /\ op'[t] = o /\ o.drop = {} /\ \A j \in o.todo : j \in op[t].todo
    BY <1>0, <1>2, MissOps DEF Becomes, TypeOK
  <2> HIDE DEF o
  <2> QED
    BY <1>1, <1>2, <2>1 DEF Surveyed, Has
<1>3. CASE /\ Write(i, "failed", store[i]["sending"])
           /\ Becomes(t, "unstrand", StrandOp(op[t], i))
  <2> DEFINE o == StrandOp(op[t], i)
  <2>1. /\ pc'[t] = "unstrand" /\ op'[t] = o /\ o.id = i /\ o.drop = {}
        /\ \A j \in o.todo : j \in op[t].todo /\ j # i
    BY <1>0, <1>3, StrandOps DEF Becomes, TypeOK
  <2> HIDE DEF o
  <2>2. o.todo \subseteq Ids
    BY <1>0, <2>1, OpsFields
  <2>3. store' # store => /\ Others(i) /\ ~Has(i, "queued")' /\ ~Has(i, "sent")'
    BY FailStrandedProgress
  <2>4. CASE store' # store
    BY <1>1, <2>1, <2>2, <2>3, <2>4 DEF Surveyed, Others, Has
  <2>5. CASE store' = store
    <3>1. i \in op[t].todo /\ LocalOK(pc[t], op[t])
      BY DEF FailStranded, IInv
    <3>2. Has(i, "sending") /\ Survivor(store[i]) = "sending"
      BY <1>0, <1>1, <3>1, StateNames DEF LocalOK
    <3>3. ~Has(i, "queued") /\ ~Has(i, "sent")
      BY <1>1, <3>1, <3>2, StateNames
    <3> QED
      BY <1>1, <2>1, <2>2, <2>5, <3>3 DEF Surveyed, Has
  <2> QED
    BY <2>4, <2>5
<1>4. UNCHANGED disk => UNCHANGED store
  BY DEF disk
<1> QED
  BY <1>2, <1>3, <1>4 DEF FailStranded, IOFails, Mishap, MissOp, StrandOp, Transition

\* The removal from sending concerns a record that is on no list any more.
LEMMA UnstrandSurveys ==
  ASSUME IInv, LifecycleInv, "fault" \notin Mishaps, NEW t \in Threads, Unstrand(t)
  PROVE  Surveyed(pc[t], op[t])'
<1>0. /\ TypeOK /\ op[t] \in Ops /\ pc[t] = "unstrand" /\ op[t].id \in Ids
      /\ Surveyed(pc[t], op[t]) /\ LocalOK(pc[t], op[t])
      /\ Remove(op[t].id, "sending")
  BY ReadyAll, HasIt DEF IInv, TypeOK, LifecycleInv, Unstrand, IOFails, Mishap, WithMessage
<1>1. pc'[t] = "repair" /\ op'[t] = op[t]
  BY <1>0 DEF Unstrand, IOFails, Mishap, Goto, Becomes, TypeOK
<1>2. op[t].drop = {} /\ \A j \in op[t].todo : j # op[t].id /\ j \in Ids
  BY <1>0, OpsFields DEF LocalOK
<1>3. \A j \in op[t].todo : store'[j] = store[j]
  BY <1>0, <1>2, RemoveIs, StateNames
<1> QED
  BY <1>0, <1>1, <1>2, <1>3 DEF Surveyed, Has

\* The attempt that goes on the wire is newer than any that failed.
LEMMA UnqueueSurveys ==
  ASSUME IInv, LifecycleInv, "fault" \notin Mishaps, NEW t \in Threads, Unqueue(t)
  PROVE  Surveyed(pc[t], op[t])'
<1>1. pc'[t] = "wire" /\ op'[t] = op[t]
  BY DEF Unqueue, IOFails, Mishap, Goto, Becomes, IInv, TypeOK
<1>2. store'[op[t].id]["failed"] < op[t].attempts
  BY UnqueueProgress
<1> QED
  BY <1>1, <1>2 DEF Surveyed

\* What was handed over has been handed over once more.
LEMMA SendSurveys ==
  ASSUME IInv, LifecycleInv, NEW t \in Threads, Send(t)
  PROVE  Surveyed(pc[t], op[t])'
<1>0. /\ TypeOK /\ pc[t] = "wire" /\ op[t].id \in Ids /\ Surveyed(pc[t], op[t])
      /\ UNCHANGED store /\ sends' = [sends EXCEPT ![op[t].id] = @ + 1]
  BY ReadyAll, HasIt DEF IInv, LifecycleInv, Send, disk, WithMessage
<1>1. op'[t] = op[t] /\ pc'[t] \in {"SUCCEED", "FAIL"}
  BY <1>0 DEF Send, Goto, Becomes, TypeOK
<1>2. sends'[op[t].id] > 0
  BY <1>0 DEF TypeOK
<1> QED
  BY <1>0, <1>1, <1>2 DEF Surveyed

\* What a thread knows of a repair and of the wire is about messages that were accepted.
LEMMA BystanderSurveys ==
  ASSUME IInv, LifecycleInv, NEW t \in Threads, pc'[t] = pc[t], op'[t] = op[t], Bystands
  PROVE  Surveyed(pc[t], op[t])'
<1>0. /\ TypeOK /\ op[t] \in Ops /\ LocalOK(pc[t], op[t]) /\ Surveyed(pc[t], op[t])
      /\ pc[t] \in WithMessage => op[t].id \in Ids
  BY ReadyAll, HasIt DEF IInv, TypeOK, LifecycleInv
<1>1. ASSUME NEW j \in Ids, NEW s \in States, Has(j, s)
      PROVE  store'[j] = store[j] /\ sends'[j] = sends[j]
  BY <1>1 DEF IInv, RecordOK, Bystands
<1>2. CASE pc[t] \in {"repair", "unstrand"}
  <2>1. \A j \in op[t].todo : store'[j] = store[j]
    BY <1>0, <1>1, <1>2, OpsFields, StateNames DEF LocalOK
  <2>2. pc[t] = "repair" => \A c \in op[t].drop : store'[c[1]] = store[c[1]]
    <3> SUFFICES ASSUME pc[t] = "repair", NEW c \in op[t].drop PROVE store'[c[1]] = store[c[1]]
      OBVIOUS
    <3>1. c[1] \in Ids /\ c[2] \in States
      BY <1>0, OpsFields
    <3>2. Has(c[1], c[2])
      BY <1>0 DEF LocalOK
    <3> QED
      BY <1>1, <3>1, <3>2
  <2>3. pc[t] = "unstrand" => store'[op[t].id] = store[op[t].id]
    BY <1>0, <1>1, StateNames DEF LocalOK, WithMessage
  <2> QED
    BY <1>0, <1>2, <2>1, <2>2, <2>3 DEF Surveyed, Has
<1>3. CASE pc[t] \in {"wire", "SUCCEED", "FAIL"}
  <2>1. PICK i \in Ids : i = op[t].id
    BY <1>0, <1>3 DEF WithMessage
  <2>2. Has(i, "sending")
    BY <1>3, <2>1, WireStands DEF Has, Absent
  <2>3. store'[i] = store[i] /\ sends'[i] = sends[i]
    BY <1>1, <2>2, StateNames
  <2> QED
    BY <1>0, <1>3, <2>1, <2>3 DEF Surveyed
<1>4. CASE pc[t] \notin {"repair", "unstrand", "wire", "SUCCEED", "FAIL"}
  BY <1>4 DEF Surveyed
<1> QED
  BY <1>2, <1>3, <1>4

\* Every step keeps what repairs and deliveries know of the lifecycle.
LEMMA LifecycleNext ==
  ASSUME IInv, IInv', LifecycleInv, "fault" \notin Mishaps, [Next]_vars
  PROVE  LifecycleInv'
<1>1. Progress
  BY NextProgress
<1>2. ASSUME NEW t \in Threads PROVE Surveyed(pc[t], op[t])'
  <2>1. CASE pc'[t] \notin Tracked
    BY <2>1 DEF Tracked, Surveyed
  <2>2. CASE pc'[t] \in Tracked
    BY <1>1, <2>2, HowTracked, SurveySurveys, DeduplicateSurveys, FailStrandedSurveys,
       UnstrandSurveys, UnqueueSurveys, SendSurveys, BystanderSurveys
  <2> QED
    BY <2>1, <2>2
<1> QED
  BY <1>1, <1>2 DEF LifecycleInv, Progress

\* The lifecycle's view of a record is where it stands.
LEMMA PhaseIs ==
  ASSUME NEW files \in [Ids -> [States -> Nat \cup {Absent}]], \A i \in Ids : Orderly(files[i])
  PROVE  [i \in Ids |-> IF Held(files[i]) = {} THEN "none" ELSE Survivor(files[i])]
           = [i \in Ids |-> Stands(files[i])]
<1>1. ASSUME NEW i \in Ids
      PROVE  (IF Held(files[i]) = {} THEN "none" ELSE Survivor(files[i])) = Stands(files[i])
  <2>1. files[i] \in [States -> Nat \cup {Absent}] /\ Orderly(files[i])
    OBVIOUS
  <2>2. CASE Held(files[i]) = {}
    <3>1. \A s \in States : files[i][s] = Absent
      BY <2>2 DEF Held
    <3> QED
      BY <2>1, <2>2, <3>1, StandsIs, StateNames
  <2>3. CASE Held(files[i]) # {}
    BY <2>1, <2>3, SurvivorStands
  <2> QED
    BY <2>2, <2>3
<1> QED
  BY <1>1

\* Progress is a step of the lifecycle or changes nothing it sees.
LEMMA ProgressImplements ==
  ASSUME TypeOK, TypeOK', LifecycleInv, Progress
  PROVE  [L!Next]_(L!vars)
<1> DEFINE was == [i \in Ids |-> Stands(store[i])]
           is == [i \in Ids |-> Stands(store'[i])]
<1>1. [i \in Ids |-> IF Held(store[i]) = {} THEN "none" ELSE Survivor(store[i])] = was
  BY PhaseIs DEF TypeOK, LifecycleInv
<1>2. [i \in Ids |-> IF Held(store'[i]) = {} THEN "none" ELSE Survivor(store'[i])] = is
  BY PhaseIs DEF TypeOK, Progress
<1>3. CASE (\A i \in Ids : Stands(store'[i]) = Stands(store[i])) /\ UNCHANGED <<sends, retries>>
  <2>1. is = was
    BY <1>3
  <2> HIDE DEF is, was
  <2> QED
    BY <1>1, <1>2, <1>3, <2>1 DEF L!vars
<1>4. ASSUME NEW i \in Ids, Happens(i) PROVE L!Next
  <2>1. \A from, to : Turn(i, from, to) => was[i] = from /\ is = [was EXCEPT ![i] = to]
    BY DEF Turn, Others
  <2>2. was[i] = Stands(store[i]) /\ (UNCHANGED store => is = was)
    OBVIOUS
  <2> HIDE DEF is, was
  <2>3. L!Accept(i) \/ L!SEND(i) \/ L!HandOver(i) \/ L!SUCCEED(i) \/ L!FAIL(i) \/ L!RETRY(i)
    BY <1>1, <1>2, <1>4, <2>1, <2>2
    DEF Happens, L!Accept, L!SEND, L!HandOver, L!SUCCEED, L!FAIL, L!RETRY, L!Move
  <2> QED
    BY <2>3 DEF L!Next
<1> QED
  BY <1>3, <1>4 DEF Progress

\* Where no file operation fails, the files, locks and processes of the outbox implement
\* the lifecycle of domain/outbox.go, whatever crashes and is repaired and whichever
\* record is damaged: the authoritative copy moves along its events, and a message is
\* handed over only in sending and once per decision.
THEOREM LifecycleImplemented ==
  ASSUME "fault" \notin Mishaps
  PROVE  Spec => ImplementsLifecycle
<1>1. Init => LifecycleInv
  <2> SUFFICES ASSUME Init PROVE LifecycleInv
    OBVIOUS
  <2>1. \A i \in Ids : Orderly(store[i])
    BY StateNames DEF Init, Orderly
  <2>2. \A t \in Threads : Surveyed(pc[t], op[t])
    BY DEF Init, Surveyed
  <2> QED
    BY <2>1, <2>2 DEF LifecycleInv
<1>2. IInv /\ IInv' /\ [Next]_vars /\ LifecycleInv => LifecycleInv'
  BY LifecycleNext
<1>3. Init => L!Init
  <2> SUFFICES ASSUME Init PROVE L!Init
    OBVIOUS
  <2>1. \A i \in Ids : Held(store[i]) = {}
    BY DEF Init, Held
  <2> QED
    BY <2>1 DEF Init, L!Init
<1>4. IInv /\ IInv' /\ [Next]_vars /\ LifecycleInv => [L!Next]_(L!vars)
  BY NextProgress, ProgressImplements DEF IInv
<1> QED
  BY <1>1, <1>2, <1>3, <1>4, Invariance, PTL DEF Spec, ImplementsLifecycle, L!Spec
=============================================================================
