-------------------------- MODULE MailRequestsProofs --------------------------
(***************************************************************************)
(* Proofs about requests to the MCP server, for every number of callers,   *)
(* backends and messages and every list of ids.                            *)
(***************************************************************************)
EXTENDS MailRequests, FiniteSetTheorems, FunctionTheorems, TLAPS

Phases == {"idle", "original", "derive", "gate", "enqueue", "service", "switch", "limit",
           "locate", "stat", "work", "over"}
Answers == {"none", "ok", "refused", "declined", "cancelled"}
Messages ==
    {NoMessage}
    \cup {DeriveReply(Header[b][id], Self[d], all) : b \in Backends, id \in Ids, d \in Backends, all \in BOOLEAN}
    \cup {DeriveForward(Header[b][id], to) : b \in Backends, id \in Ids, to \in Others \cup {<<>>}}

(* What a request is. *)
Requests ==
    [pc : Phases, tool : Tools, ids : Seq(Ids), bulk : BOOLEAN, all : BOOLEAN,
     to : Others \cup {<<>>}, via : Backends, self : Backends, at : Nat \ {0}, path : Places, total : Nat,
     done : Seq(Ids), failed : Seq(Ids), message : Messages, answer : Answers,
     asked : BOOLEAN, cap : Nat, stirred : BOOLEAN]

Placed ==
    /\ box \in [Backends -> [Ids -> Places]] /\ current \in Backends /\ sender \in Backends
    /\ req \in [Callers -> Requests]

-----------------------------------------------------------------------------
(* The inductive invariant. *)

Apart(s) == \A i, j \in DOMAIN s : s[i] = s[j] => i = j

(* The ids were checked. *)
Passed(r) ==
    /\ Len(r.ids) >= 1 /\ Apart(r.ids)
    /\ IF r.bulk THEN Len(r.ids) <= r.cap ELSE Len(r.ids) = 1

(* The first n ids are on the lists, each on one of them and once. *)
Accounted(r, n) ==
    /\ n <= Len(r.ids) /\ Len(r.done) + Len(r.failed) = n
    /\ Range(r.done) \cup Range(r.failed) = {r.ids[i] : i \in 1 .. n}
    /\ Range(r.done) \cap Range(r.failed) = {}
    /\ Apart(r.done) /\ Apart(r.failed)

Fresh(r) == r.done = <<>> /\ r.failed = <<>>
Approved(r) == r.tool \in Curations => r.asked

(* What is known of a request where it stands. *)
Sound(r) ==
    /\ r.pc \notin {"work", "over"} => Fresh(r)
    /\ r.pc \notin {"locate", "stat", "work"} => r.at = 1
    /\ r.pc \notin {"idle", "over"} => Passed(r)
    /\ r.pc \in {"locate", "stat", "work"} => r.at <= Len(r.ids)
    /\ r.pc \in {"service", "switch", "limit", "locate", "stat", "work"} => Approved(r)
    /\ r.pc \in {"original", "derive", "enqueue"} => ~r.bulk
    /\ r.pc = "gate" => r.tool \in Curations \/ ~r.bulk
    /\ r.pc = "work" => Accounted(r, r.at - 1)
    /\ r.answer # "none" => r.pc = "over"
    /\ ~Fresh(r) => Passed(r) /\ Approved(r) /\ \E n \in Nat : Accounted(r, n)
    /\ r.bulk /\ r.answer = "ok" => Accounted(r, Len(r.ids))

(* Moved messages and the requests that report them belong together. *)
Ledger ==
    /\ \A c \in Callers, b \in Backends, id \in Ids : Curated(c, b, id) => box[b][id] = Lands(req[c].tool)
    /\ \A b \in Backends, id \in Ids : box[b][id] \in {"archive", "trash"} => \E c \in Callers : Curated(c, b, id)
    /\ \A c, d \in Callers, b \in Backends, id \in Ids : Curated(c, b, id) /\ Curated(d, b, id) => c = d

IInv == Placed /\ (\A c \in Callers : Sound(req[c])) /\ Ledger

-----------------------------------------------------------------------------
(* Requests. *)

(* A request with the same ids, lists and approval is known as much of. *)
LEMMA Keeps ==
    ASSUME NEW r \in Requests, NEW s \in Requests,
           s.ids = r.ids, s.bulk = r.bulk, s.tool = r.tool, s.done = r.done,
           s.failed = r.failed, s.cap = r.cap, r.asked => s.asked
    PROVE  /\ Fresh(r) <=> Fresh(s)
           /\ Passed(r) => Passed(s)
           /\ Approved(r) => Approved(s)
           /\ \A n : Accounted(r, n) => Accounted(s, n)
<1>1. (Fresh(r) <=> Fresh(s)) /\ (Passed(r) => Passed(s)) /\ (Approved(r) => Approved(s))
  BY DEF Fresh, Passed, Approved
<1>2. \A n : Accounted(r, n) => Accounted(s, n)
  BY DEF Accounted
<1> QED BY <1>1, <1>2

(* A list as long as it has members repeats none. *)
LEMMA ApartByCount ==
    ASSUME NEW s \in Seq(Ids), Cardinality(Range(s)) = Len(s)
    PROVE  Apart(s)
<1>1. s \in Surjection(1 .. Len(s), Range(s))
  BY DEF Surjection, Range
<1>2. IsFiniteSet(1 .. Len(s)) /\ Cardinality(1 .. Len(s)) = Len(s)
  <2>1. Len(s) \in Nat
    OBVIOUS
  <2>2. \A n \in Nat : 1 \in Int /\ n \in Int /\ (IF 1 > n THEN 0 ELSE n - 1 + 1) = n
    OBVIOUS
  <2> QED BY <2>1, <2>2, FS_Interval
<1>3. s \in Injection(1 .. Len(s), Range(s))
  BY <1>1, <1>2, FS_SurjSameCardinalityImpliesInj
<1> QED BY <1>3 DEF Injection, IsInjective, Apart

(* What checks a batch leaves lists that repeat nothing. *)
LEMMA CheckedApart ==
    ASSUME NEW ids \in Seq(Ids), NEW limit \in Nat, CheckBulkIDs(ids, limit)
    PROVE  Len(ids) >= 1 /\ Len(ids) <= limit /\ Apart(ids)
BY ApartByCount DEF CheckBulkIDs

(* A request that is answered. *)
LEMMA OverSound ==
    ASSUME NEW r \in Requests, NEW how \in Answers \ {"none"},
           ~Fresh(r) => Passed(r) /\ Approved(r) /\ \E n \in Nat : Accounted(r, n),
           r.bulk /\ how = "ok" => Accounted(r, Len(r.ids))
    PROVE  LET s == Over(r, how) IN
           /\ s \in Requests /\ Sound(s)
           /\ s.done = r.done /\ s.tool = r.tool /\ s.via = r.via
<1> DEFINE s == Over(r, how)
<1>1. s \in Requests
  <2>1. NoMessage \in Messages /\ "absent" \in Places /\ "over" \in Phases /\ how \in Answers /\ 1 \in Nat \ {0} /\ 0 \in Nat
    BY DEF Messages, Places, Phases, Answers
  <2> QED BY <2>1 DEF Over, Requests
<1>2. /\ s.pc = "over" /\ s.at = 1 /\ s.answer = how
      /\ s.ids = r.ids /\ s.bulk = r.bulk /\ s.tool = r.tool /\ s.done = r.done /\ s.via = r.via
      /\ s.failed = r.failed /\ s.cap = r.cap /\ s.asked = r.asked
  BY DEF Over, Requests
<1> HIDE DEF s
<1>3. Sound(s)
  BY <1>1, <1>2, Keeps DEF Sound
<1> QED BY <1>1, <1>2, <1>3 DEF s

(* A request in whose batch a message changed its place. *)
LEMMA StirSound ==
    ASSUME NEW r \in Requests, NEW b, NEW moved, Sound(r)
    PROVE  LET s == Stir(b, moved, r) IN
           /\ s \in Requests /\ Sound(s)
           /\ s.done = r.done /\ s.tool = r.tool /\ s.via = r.via
<1> DEFINE s == Stir(b, moved, r)
           flag == r.stirred \/ (r.via = b /\ r.pc \in {"locate", "stat", "work"} /\ moved \in Range(r.ids))
<1>1. flag \in BOOLEAN
  OBVIOUS
<1> HIDE DEF flag
<1>2. s = [r EXCEPT !.stirred = flag]
  BY DEF Stir, flag
<1>3. s \in Requests
  BY <1>1, <1>2 DEF Requests
<1>4. /\ s.pc = r.pc /\ s.at = r.at /\ s.answer = r.answer
      /\ s.ids = r.ids /\ s.bulk = r.bulk /\ s.tool = r.tool /\ s.done = r.done /\ s.via = r.via
      /\ s.failed = r.failed /\ s.cap = r.cap /\ s.asked = r.asked
  BY <1>2 DEF Requests
<1> HIDE DEF s
<1>5. Sound(s)
  BY <1>3, <1>4, Keeps DEF Sound
<1> QED BY <1>3, <1>4, <1>5 DEF s

(* The blank a request starts from. *)
LEMMA BlankFits ==
    Backends # {} => NoRequest \in Requests /\ Fresh(NoRequest) /\ Sound(NoRequest)
<1> SUFFICES ASSUME Backends # {} PROVE NoRequest \in Requests /\ Fresh(NoRequest) /\ Sound(NoRequest)
  OBVIOUS
<1> DEFINE someone == CHOOSE b \in Backends : TRUE
<1>1. someone \in Backends
  OBVIOUS
<1> HIDE DEF someone
<1>2. NoRequest \in Requests
  <2>1. NoMessage \in Messages /\ "absent" \in Places /\ "idle" \in Phases /\ "none" \in Answers
        /\ "fetch" \in Tools /\ 1 \in Nat \ {0} /\ 0 \in Nat /\ <<>> \in Seq(Ids) /\ <<>> \in Others \cup {<<>>}
    BY DEF Messages, Places, Phases, Answers, Tools
  <2> QED BY <1>1, <2>1 DEF NoRequest, Requests, someone
<1>3. /\ NoRequest.pc = "idle" /\ NoRequest.at = 1 /\ NoRequest.answer = "none" /\ NoRequest.bulk = FALSE
      /\ NoRequest.done = <<>> /\ NoRequest.failed = <<>>
  BY DEF NoRequest
<1>4. Fresh(NoRequest)
  BY <1>3 DEF Fresh
<1>5. Sound(NoRequest)
  BY <1>3, <1>4, Zenon DEF Sound
<1> QED BY <1>2, <1>4, <1>5

(* A step of one request that moves no mail. *)
LEMMA Quiet ==
    ASSUME IInv, NEW c \in Callers, NEW s \in Requests, Sound(s),
           req' = [req EXCEPT ![c] = s], UNCHANGED <<box, current, sender>>,
           \/ Fresh(s) /\ Fresh(req[c])
           \/ s.done = req[c].done /\ s.tool = req[c].tool /\ s.via = req[c].via
    PROVE  IInv'
<1>1. Placed'
  BY DEF IInv, Placed
<1>2. \A d \in Callers : req'[d] = IF d = c THEN s ELSE req[d]
  BY DEF IInv, Placed
<1>3. \A d \in Callers : Sound(req'[d])
  BY <1>2 DEF IInv
<1>4. \A d \in Callers : \A b, id : Curated(d, b, id)' <=> Curated(d, b, id)
  BY <1>2 DEF Curated, Fresh, Range
<1>5. \A d \in Callers : \A b, id : Curated(d, b, id) => req'[d].tool = req[d].tool
  BY <1>2 DEF Curated, Fresh, Range
<1>6. Ledger'
  BY <1>2, <1>4, <1>5 DEF IInv, Ledger
<1> QED BY <1>1, <1>3, <1>6 DEF IInv

-----------------------------------------------------------------------------
(* Steps of a request that move no mail. *)

(* Nothing is accounted for before the work begins. *)
LEMMA FreshAccounted ==
    ASSUME NEW s \in Requests, Fresh(s)
    PROVE  Accounted(s, 0)
<1>1. s.done = <<>> /\ s.failed = <<>> /\ 0 <= Len(s.ids)
  BY DEF Fresh, Requests
<1>2. Range(<<>>) = {} /\ Len(<<>>) = 0 /\ Apart(<<>>)
  BY DEF Range, Apart
<1>3. {s.ids[i] : i \in 1 .. 0} = {}
  OBVIOUS
<1>4. Len(s.done) + Len(s.failed) = 0
  BY <1>1, <1>2
<1>5. Range(s.done) \cup Range(s.failed) = {s.ids[i] : i \in 1 .. 0} /\ Range(s.done) \cap Range(s.failed) = {}
  BY <1>1, <1>2, <1>3
<1> QED BY <1>1, <1>2, <1>4, <1>5 DEF Accounted

(* A request that is answered with what it has. *)
LEMMA AnswerKeeps ==
    ASSUME IInv, NEW c \in Callers, NEW how \in Answers \ {"none"},
           how = "ok" => ~req[c].bulk, Answer(c, how), UNCHANGED <<box, current, sender>>
    PROVE  IInv'
<1>1. req[c] \in Requests /\ Sound(req[c])
  BY DEF IInv, Placed
<1>2. ~Fresh(req[c]) => Passed(req[c]) /\ Approved(req[c]) /\ \E n \in Nat : Accounted(req[c], n)
  BY <1>1 DEF Sound
<1> DEFINE s == Over(req[c], how)
<1>3. s \in Requests /\ Sound(s) /\ s.done = req[c].done /\ s.tool = req[c].tool /\ s.via = req[c].via
  BY <1>1, <1>2, OverSound
<1>4. req' = [req EXCEPT ![c] = s]
  BY DEF Answer, Set
<1> HIDE DEF s
<1> QED BY <1>3, <1>4, Quiet

(* A request that goes on without touching its lists. *)
LEMMA MoveKeeps ==
    ASSUME IInv, NEW c \in Callers, NEW s \in Requests, Set(c, s), UNCHANGED <<box, current, sender>>,
           req[c].pc \notin {"idle", "over"}, Fresh(req[c]), s.answer = "none",
           s.ids = req[c].ids, s.bulk = req[c].bulk, s.tool = req[c].tool, s.done = req[c].done,
           s.failed = req[c].failed, s.cap = req[c].cap, req[c].asked => s.asked,
           s.pc \notin {"idle", "over"},
           s.pc \notin {"locate", "stat", "work"} => s.at = 1,
           s.at <= Len(s.ids),
           s.pc \in {"service", "switch", "limit", "locate", "stat", "work"} => Approved(s),
           s.pc \in {"original", "derive", "enqueue"} => ~s.bulk,
           s.pc = "gate" => s.tool \in Curations \/ ~s.bulk,
           s.pc = "work" => s.at = 1
    PROVE  IInv'
<1>1. req[c] \in Requests /\ Sound(req[c])
  BY DEF IInv, Placed
<1>2. Fresh(s) /\ Passed(s)
  BY <1>1, Keeps DEF Sound
<1>3. s.pc = "work" => Accounted(s, s.at - 1)
  <2>1. ASSUME s.pc = "work" PROVE s.at - 1 = 0
    BY <2>1
  <2> QED BY <1>2, <2>1, FreshAccounted
<1>4. Sound(s)
  BY <1>2, <1>3 DEF Sound
<1>5. req' = [req EXCEPT ![c] = s]
  BY DEF Set
<1> QED BY <1>2, <1>4, <1>5, Quiet

LEMMA ReceiveKeeps ==
    ASSUME IInv, NEW c \in Callers, Receive(c)
    PROVE  IInv'
<1> DEFINE Draft(tool, bulk, ids, all, to) ==
              [NoRequest EXCEPT !.tool = tool, !.bulk = bulk, !.ids = ids, !.all = all, !.to = to, !.cap = Cap[current]]
<1>1. PICK tool \in Tools, bulk \in BOOLEAN, ids \in Batches, all \in BOOLEAN, to \in Others :
          /\ bulk => tool \notin {"reply", "forward"}
          /\ ~bulk => Len(ids) = 1
          /\ all => tool = "reply"
          /\ tool # "forward" => to = <<>>
          /\ LET first == CASE tool \in {"reply", "forward"} -> "original"
                             [] tool \in Curations -> "gate"
                             [] OTHER -> "service"
             IN Set(c, IF batchIDs(c, bulk, ids) THEN [Draft(tool, bulk, ids, all, to) EXCEPT !.pc = first]
                       ELSE Over(Draft(tool, bulk, ids, all, to), "refused"))
  BY Zenon DEF Receive
<1> DEFINE r == Draft(tool, bulk, ids, all, to)
           goes(step) == [r EXCEPT !.pc = step]
<1>2. req[c] \in Requests /\ Fresh(req[c]) /\ current \in Backends /\ UNCHANGED <<box, current, sender>>
      /\ req \in [Callers -> Requests]
  BY DEF IInv, Placed, Sound, Receive
<1>3. NoRequest \in Requests /\ Fresh(NoRequest) /\ Cap[current] \in Nat /\ ids \in Seq(Ids)
  BY <1>2, BlankFits, RequestsAssumption DEF RequestsAssumption
<1>4. r \in Requests
  BY <1>3 DEF Requests
<1>5. /\ r.done = <<>> /\ r.failed = <<>> /\ r.ids = ids /\ r.bulk = bulk /\ r.tool = tool
      /\ r.at = 1 /\ r.answer = "none" /\ r.cap = Cap[current]
  BY DEF NoRequest
<1> HIDE DEF r
<1>6. Fresh(r)
  BY <1>5 DEF Fresh
<1>7. CASE ~batchIDs(c, bulk, ids)
  <2>1. Set(c, Over(r, "refused"))
    BY <1>1, <1>7 DEF r
  <2>2. Over(r, "refused") \in Requests /\ Sound(Over(r, "refused")) /\ Over(r, "refused").done = <<>>
    BY <1>4, <1>5, <1>6, OverSound DEF Answers
  <2>3. Over(r, "refused").failed = <<>>
    BY <1>4, <1>5 DEF Over, Requests
  <2> QED BY <1>2, <2>1, <2>2, <2>3, Quiet DEF Set, Fresh
<1>8. CASE batchIDs(c, bulk, ids)
  <2>1. Len(ids) >= 1 /\ Apart(ids) /\ IF bulk THEN Len(ids) <= Cap[current] ELSE Len(ids) = 1
    <3>1. CASE bulk
      BY <1>3, <1>8, <3>1, CheckedApart DEF batchIDs
    <3>2. CASE ~bulk
      <4>1. Len(ids) = 1
        BY <1>1, <3>2
      <4>2. Apart(ids)
        BY <1>3, <4>1 DEF Apart
      <4> QED BY <3>2, <4>1, <4>2
    <3> QED BY <3>1, <3>2
  <2>2. PICK step \in {"original", "gate", "service"} :
            /\ Set(c, goes(step))
            /\ step = "original" => tool \in {"reply", "forward"}
            /\ step = "gate" => tool \in Curations
            /\ step = "service" => tool \notin Curations
    <3> DEFINE first == CASE tool \in {"reply", "forward"} -> "original"
                          [] tool \in Curations -> "gate"
                          [] OTHER -> "service"
    <3>1. Set(c, goes(first))
      BY <1>1, <1>8, Zenon DEF r
    <3>2. /\ first \in {"original", "gate", "service"}
          /\ first = "original" => tool \in {"reply", "forward"}
          /\ first = "gate" => tool \in Curations
          /\ first = "service" => tool \notin Curations
      BY DEF Curations
    <3> HIDE DEF first
    <3> QED BY <3>1, <3>2
  <2> DEFINE s == goes(step)
  <2>3. s \in Requests
    BY <1>4 DEF Requests, Phases
  <2>4. /\ s.pc = step /\ s.done = <<>> /\ s.failed = <<>> /\ s.ids = ids /\ s.bulk = bulk /\ s.tool = tool
        /\ s.at = 1 /\ s.answer = "none" /\ s.cap = Cap[current]
    BY <1>4, <1>5 DEF Requests
  <2>5. Set(c, s)
    BY <2>2
  <2> HIDE DEF s, goes
  <2>6. Fresh(s) /\ Passed(s)
    BY <2>1, <2>4 DEF Fresh, Passed
  <2>7. Sound(s)
    BY <1>1, <2>2, <2>4, <2>6 DEF Sound, Approved
  <2> QED BY <1>2, <2>3, <2>5, <2>6, <2>7, Quiet DEF Set
<1> QED BY <1>7, <1>8

LEMMA OriginalKeeps ==
    ASSUME IInv, NEW c \in Callers, Original(c)
    PROVE  IInv'
<1> DEFINE r == req[c]
           s == [r EXCEPT !.via = current, !.pc = "derive"]
<1>1. /\ r \in Requests /\ Sound(r) /\ r.pc = "original" /\ UNCHANGED <<box, current, sender>>
      /\ current \in Backends
  BY DEF IInv, Placed, Original
<1>2. Fresh(r) /\ Passed(r) /\ ~r.bulk /\ r.at = 1 /\ Len(r.ids) >= 1 /\ r.answer = "none"
  BY <1>1 DEF Sound, Passed
<1>3. CASE Answer(c, "refused")
  BY <1>1, <1>3, AnswerKeeps DEF Answers
<1>4. CASE Set(c, s)
  <2>1. s \in Requests
    BY <1>1 DEF Requests, Phases
  <2>2. /\ s.pc = "derive" /\ s.ids = r.ids /\ s.bulk = r.bulk /\ s.tool = r.tool /\ s.done = r.done
        /\ s.failed = r.failed /\ s.cap = r.cap /\ s.asked = r.asked /\ s.at = 1 /\ s.answer = "none"
    BY <1>1, <1>2 DEF Requests
  <2> HIDE DEF s
  <2> QED BY <1>1, <1>2, <1>4, <2>1, <2>2, MoveKeeps
<1> QED BY <1>3, <1>4 DEF Original

LEMMA DeriveKeeps ==
    ASSUME IInv, NEW c \in Callers, Derive(c)
    PROVE  IInv'
<1> DEFINE r == req[c]
           o == Header[r.via][r.ids[1]]
           m == IF r.tool = "reply" THEN DeriveReply(o, Self[sender], r.all) ELSE DeriveForward(o, r.to)
           s == [r EXCEPT !.message = m, !.self = sender, !.pc = "gate"]
<1>1. r \in Requests /\ Sound(r) /\ r.pc = "derive" /\ UNCHANGED <<box, current, sender>> /\ sender \in Backends
  BY DEF IInv, Placed, Derive
<1>2. Fresh(r) /\ ~r.bulk /\ r.ids[1] \in Ids /\ r.at = 1 /\ Len(r.ids) >= 1 /\ r.answer = "none"
  BY <1>1 DEF Sound, Passed, Requests
<1>3. CASE Answer(c, "refused")
  BY <1>1, <1>3, AnswerKeeps DEF Answers
<1>4. CASE Set(c, s)
  <2>1. m \in Messages
    <3>1. r.all \in BOOLEAN /\ r.to \in Others \cup {<<>>} /\ r.via \in Backends
      BY <1>1 DEF Requests
    <3>2. CASE r.tool = "reply"
      BY <1>1, <1>2, <3>1, <3>2 DEF Messages
    <3>3. CASE r.tool # "reply"
      BY <1>1, <1>2, <3>1, <3>3 DEF Messages
    <3> QED BY <3>2, <3>3
  <2> HIDE DEF m
  <2>2. s \in Requests
    BY <1>1, <2>1 DEF Requests, Phases
  <2>3. /\ s.pc = "gate" /\ s.ids = r.ids /\ s.bulk = r.bulk /\ s.tool = r.tool /\ s.done = r.done
        /\ s.failed = r.failed /\ s.cap = r.cap /\ s.asked = r.asked /\ s.at = 1 /\ s.answer = "none"
    BY <1>1, <1>2 DEF Requests
  <2> HIDE DEF s
  <2> QED BY <1>1, <1>2, <1>4, <2>2, <2>3, MoveKeeps
<1> QED BY <1>3, <1>4 DEF Derive

LEMMA GateKeeps ==
    ASSUME IInv, NEW c \in Callers, Gate(c)
    PROVE  IInv'
<1> DEFINE r == req[c]
           s == [r EXCEPT !.asked = TRUE, !.pc = IF r.tool \in Curations THEN "service" ELSE "enqueue"]
<1>1. r \in Requests /\ Sound(r) /\ r.pc = "gate" /\ UNCHANGED <<box, current, sender>>
  BY DEF IInv, Placed, Gate
<1>2. Fresh(r) /\ Passed(r) /\ r.at = 1 /\ r.answer = "none" /\ (r.tool \in Curations \/ ~r.bulk)
  BY <1>1 DEF Sound
<1>3. CASE Answer(c, "declined")
  BY <1>1, <1>3, AnswerKeeps DEF Answers
<1>4. CASE Set(c, s)
  <2>1. s \in Requests
    BY <1>1 DEF Requests, Phases
  <2>2. /\ s.pc = IF r.tool \in Curations THEN "service" ELSE "enqueue"
        /\ s.ids = r.ids /\ s.bulk = r.bulk /\ s.tool = r.tool /\ s.done = r.done
        /\ s.failed = r.failed /\ s.cap = r.cap /\ s.asked = TRUE /\ s.at = 1 /\ s.answer = "none"
    BY <1>1, <1>2 DEF Requests
  <2>3. Approved(s) /\ s.at <= Len(s.ids)
    BY <1>2, <2>2 DEF Approved, Passed
  <2> HIDE DEF s
  <2>4. /\ s.pc \in {"service", "enqueue"}
        /\ s.pc = "enqueue" => ~s.bulk
    BY <1>2, <2>2
  <2> QED BY <1>1, <1>2, <1>4, <2>1, <2>2, <2>3, <2>4, MoveKeeps
<1> QED BY <1>3, <1>4 DEF Gate

LEMMA EnqueueKeeps ==
    ASSUME IInv, NEW c \in Callers, Enqueue(c)
    PROVE  IInv'
<1>1. ~req[c].bulk /\ UNCHANGED <<box, current, sender>>
  BY DEF IInv, Sound, Enqueue
<1>2. Answer(c, "ok") \/ Answer(c, "refused")
  BY DEF Enqueue
<1> QED BY <1>1, <1>2, AnswerKeeps DEF Answers

LEMMA CancelKeeps ==
    ASSUME IInv, NEW c \in Callers, Cancel(c)
    PROVE  IInv'
BY AnswerKeeps DEF Cancel, Answers

(* The service, the switchable mailbox and its look at the cap only move on. *)
LEMMA PassingKeeps ==
    ASSUME IInv, NEW c \in Callers, Service(c) \/ Switch(c) \/ Limit(c)
    PROVE  IInv'
<1> DEFINE r == req[c]
           goes(step, via) == [r EXCEPT !.via = via, !.pc = step]
<1>1. /\ r \in Requests /\ Sound(r) /\ r.pc \in {"service", "switch", "limit"}
      /\ UNCHANGED <<box, current, sender>> /\ current \in Backends /\ r.via \in Backends
  BY DEF IInv, Placed, Service, Switch, Limit, Requests
<1>2. Fresh(r) /\ Passed(r) /\ Approved(r) /\ r.at = 1 /\ r.answer = "none"
  BY <1>1 DEF Sound
<1>3. CASE Answer(c, "refused")
  BY <1>1, <1>3, AnswerKeeps DEF Answers
<1>4. CASE \E step \in {"switch", "limit", "locate", "work"}, via \in Backends : Set(c, goes(step, via))
  <2>1. PICK step \in {"switch", "limit", "locate", "work"}, via \in Backends : Set(c, goes(step, via))
    BY <1>4
  <2> DEFINE s == goes(step, via)
  <2>2. s \in Requests
    BY <1>1 DEF Requests, Phases
  <2>3. /\ s.pc = step
        /\ s.ids = r.ids /\ s.bulk = r.bulk /\ s.tool = r.tool /\ s.done = r.done
        /\ s.failed = r.failed /\ s.cap = r.cap /\ s.asked = r.asked /\ s.at = 1 /\ s.answer = "none"
    BY <1>1, <1>2 DEF Requests
  <2>4. Approved(s) /\ s.at <= Len(s.ids)
    BY <1>2, <2>3 DEF Approved, Passed
  <2>5. Set(c, s)
    BY <2>1
  <2> HIDE DEF s, goes
  <2> QED BY <1>1, <1>2, <2>2, <2>3, <2>4, <2>5, MoveKeeps
<1>5. Answer(c, "refused") \/ \E step \in {"switch", "limit", "locate", "work"}, via \in Backends : Set(c, goes(step, via))
  <2>1. \A step : Goto(c, step) => Set(c, goes(step, r.via))
    <3>1. \A step : [r EXCEPT !.pc = step] = goes(step, r.via)
      BY <1>1 DEF Requests
    <3> QED BY <3>1 DEF Goto
  <2>2. CASE Service(c)
    BY <1>1, <2>1, <2>2 DEF Service
  <2>3. CASE Switch(c)
    BY <1>1, <2>3 DEF Switch
  <2>4. CASE Limit(c)
    BY <1>1, <2>1, <2>4 DEF Limit
  <2> QED BY <2>2, <2>3, <2>4
<1> QED BY <1>3, <1>4, <1>5

LEMMA LocateKeeps ==
    ASSUME IInv, NEW c \in Callers, Locate(c)
    PROVE  IInv'
<1> DEFINE r == req[c]
           place == box[r.via][r.ids[r.at]]
           s == [r EXCEPT !.path = place, !.pc = "stat"]
<1>1. r \in Requests /\ Sound(r) /\ r.pc = "locate" /\ UNCHANGED <<box, current, sender>> /\ Set(c, s)
  BY DEF IInv, Placed, Locate
<1>2. Fresh(r) /\ Passed(r) /\ Approved(r) /\ r.at <= Len(r.ids) /\ r.answer = "none"
  BY <1>1 DEF Sound
<1>3. place \in Places
  <2>1. r.ids[r.at] \in Ids /\ r.via \in Backends
    BY <1>1, <1>2 DEF Requests
  <2> QED BY <2>1 DEF IInv, Placed
<1> HIDE DEF place
<1>4. s \in Requests
  BY <1>1, <1>3 DEF Requests, Phases
<1>5. /\ s.pc = "stat"
        /\ s.ids = r.ids /\ s.bulk = r.bulk /\ s.tool = r.tool /\ s.done = r.done
        /\ s.failed = r.failed /\ s.cap = r.cap /\ s.asked = r.asked /\ s.at = r.at /\ s.answer = "none"
  BY <1>1, <1>2 DEF Requests
<1>6. Approved(s)
  BY <1>2, <1>5 DEF Approved
<1> HIDE DEF s
<1> QED BY <1>1, <1>2, <1>4, <1>5, <1>6, MoveKeeps

LEMMA StatKeeps ==
    ASSUME IInv, NEW c \in Callers, Stat(c)
    PROVE  IInv'
<1> DEFINE r0 == req[c]
           r == [r0 EXCEPT !.total = Measured(r0)]
           goes(at, step) == [r EXCEPT !.at = at, !.pc = step]
<1>1. r0 \in Requests /\ Sound(r0) /\ r0.pc = "stat" /\ UNCHANGED <<box, current, sender>>
  BY DEF IInv, Placed, Stat
<1>2. Fresh(r0) /\ Passed(r0) /\ Approved(r0) /\ r0.at <= Len(r0.ids) /\ r0.answer = "none"
  BY <1>1 DEF Sound
<1>3. Measured(r0) \in Nat
  <2>1. r0.ids[r0.at] \in Ids /\ r0.total \in Nat
    BY <1>1, <1>2 DEF Requests
  <2>2. Size[r0.ids[r0.at]] \in Nat
    BY <2>1, RequestsAssumption DEF RequestsAssumption
  <2> QED BY <2>1, <2>2 DEF Measured
<1>4. r \in Requests
  BY <1>1, <1>3 DEF Requests
<1>5. /\ r.pc = "stat" /\ r.ids = r0.ids /\ r.bulk = r0.bulk /\ r.tool = r0.tool /\ r.done = r0.done
      /\ r.failed = r0.failed /\ r.cap = r0.cap /\ r.asked = r0.asked /\ r.at = r0.at /\ r.answer = "none"
      /\ r.via = r0.via
  BY <1>1, <1>2 DEF Requests
<1>6. \/ Answer(c, "refused")
      \/ Set(c, Over(r, "refused"))
      \/ r.at < Len(r.ids) /\ Set(c, goes(r.at + 1, "locate"))
      \/ Set(c, goes(1, "work"))
  <2>1. \/ Answer(c, "refused")
        \/ Set(c, Over(r, "refused"))
        \/ r.at < Len(r.ids) /\ Set(c, [r EXCEPT !.at = @ + 1, !.pc = "locate"])
        \/ Set(c, goes(1, "work"))
    BY Zenon DEF Stat
  <2>2. [r EXCEPT !.at = @ + 1, !.pc = "locate"] = goes(r.at + 1, "locate")
    OBVIOUS
  <2> QED BY <2>1, <2>2
<1> HIDE DEF r
<1>7. CASE Set(c, Over(r, "refused"))
  <2>1. Fresh(r)
    BY <1>2, <1>5 DEF Fresh
  <2>2. Over(r, "refused") \in Requests /\ Sound(Over(r, "refused"))
        /\ Over(r, "refused").done = r.done /\ Over(r, "refused").tool = r.tool /\ Over(r, "refused").via = r.via
    BY <1>4, <2>1, OverSound DEF Answers
  <2> QED BY <1>1, <1>5, <1>7, <2>2, Quiet DEF Set
<1>8. CASE (r.at < Len(r.ids) /\ Set(c, goes(r.at + 1, "locate"))) \/ Set(c, goes(1, "work"))
  <2>1. PICK at \in Nat \ {0}, step \in {"locate", "work"} :
            Set(c, goes(at, step)) /\ at <= Len(r.ids) /\ (step = "work" => at = 1)
    <3>1. r.at \in Nat \ {0} /\ Len(r.ids) \in Nat /\ 1 <= Len(r.ids)
      BY <1>2, <1>4, <1>5 DEF Requests, Passed
    <3>2. r.at < Len(r.ids) => r.at + 1 \in Nat \ {0} /\ r.at + 1 <= Len(r.ids)
      BY <3>1
    <3> HIDE DEF goes
    <3> QED BY <1>8, <3>1, <3>2
  <2> DEFINE s == goes(at, step)
  <2>2. s \in Requests
    BY <1>4 DEF Requests, Phases
  <2>3. /\ s.pc = step /\ s.ids = r0.ids /\ s.bulk = r0.bulk /\ s.tool = r0.tool /\ s.done = r0.done
        /\ s.failed = r0.failed /\ s.cap = r0.cap /\ s.asked = r0.asked /\ s.at = at /\ s.answer = "none"
    BY <1>4, <1>5 DEF Requests
  <2>4. Approved(s) /\ s.at <= Len(s.ids)
    BY <1>2, <1>5, <2>1, <2>3 DEF Approved
  <2>5. Set(c, s)
    BY <2>1
  <2> HIDE DEF s, goes
  <2> QED BY <1>1, <1>2, <2>1, <2>2, <2>3, <2>4, <2>5, MoveKeeps
<1>9. CASE Answer(c, "refused")
  BY <1>1, <1>9, AnswerKeeps DEF Answers
<1> QED BY <1>6, <1>7, <1>8, <1>9

-----------------------------------------------------------------------------
(* Steps that move mail. *)

(* One more id on one of the lists. *)
LEMMA AppendAccounted ==
    ASSUME NEW r \in Requests, NEW s \in Requests, Passed(r), r.at <= Len(r.ids), Accounted(r, r.at - 1),
           s.ids = r.ids,
           \/ s.done = Append(r.done, r.ids[r.at]) /\ s.failed = r.failed
           \/ s.failed = Append(r.failed, r.ids[r.at]) /\ s.done = r.done
    PROVE  Accounted(s, r.at)
<1> DEFINE id == r.ids[r.at]
<1>1. /\ r.at \in Nat \ {0} /\ r.ids \in Seq(Ids) /\ r.done \in Seq(Ids) /\ r.failed \in Seq(Ids)
      /\ id \in Ids
  BY DEF Requests
<1>2. {r.ids[i] : i \in 1 .. r.at} = {r.ids[i] : i \in 1 .. r.at - 1} \cup {id}
  <2>1. 1 .. r.at = (1 .. r.at - 1) \cup {r.at}
    BY <1>1
  <2> QED BY <2>1
<1>3. id \notin {r.ids[i] : i \in 1 .. r.at - 1}
  <2> SUFFICES ASSUME NEW i \in 1 .. r.at - 1, r.ids[i] = id PROVE FALSE
    OBVIOUS
  <2>1. i \in DOMAIN r.ids /\ r.at \in DOMAIN r.ids /\ i # r.at
    BY <1>1
  <2> QED BY <2>1 DEF Passed, Apart
<1>4. id \notin Range(r.done) /\ id \notin Range(r.failed)
  BY <1>3 DEF Accounted
<1>5. \A list \in Seq(Ids) : id \notin Range(list) =>
          /\ Range(Append(list, id)) = Range(list) \cup {id}
          /\ Apart(list) => Apart(Append(list, id))
          /\ Len(Append(list, id)) = Len(list) + 1
  <2> SUFFICES ASSUME NEW list \in Seq(Ids), id \notin Range(list)
               PROVE  /\ Range(Append(list, id)) = Range(list) \cup {id}
                      /\ Apart(list) => Apart(Append(list, id))
                      /\ Len(Append(list, id)) = Len(list) + 1
    OBVIOUS
  <2>1. /\ DOMAIN list = 1 .. Len(list) /\ DOMAIN Append(list, id) = 1 .. Len(list) + 1
        /\ \A i \in 1 .. Len(list) : Append(list, id)[i] = list[i]
        /\ Append(list, id)[Len(list) + 1] = id
        /\ Len(Append(list, id)) = Len(list) + 1 /\ Len(list) \in Nat
    BY <1>1
  <2>2. 1 .. Len(list) + 1 = (1 .. Len(list)) \cup {Len(list) + 1}
    BY <2>1
  <2>3. Range(Append(list, id)) = Range(list) \cup {id}
    BY <2>1, <2>2 DEF Range
  <2>4. Apart(list) => Apart(Append(list, id))
    BY <2>1, <2>2 DEF Apart, Range
  <2> QED BY <2>1, <2>3, <2>4
<1>6. /\ Apart(r.done) /\ Apart(r.failed) /\ Range(r.done) \cap Range(r.failed) = {}
      /\ Len(r.done) + Len(r.failed) = r.at - 1
      /\ Range(r.done) \cup Range(r.failed) = {r.ids[i] : i \in 1 .. r.at - 1}
  BY DEF Accounted
<1>7. /\ Range(Append(r.done, id)) = Range(r.done) \cup {id} /\ Apart(Append(r.done, id))
      /\ Range(Append(r.failed, id)) = Range(r.failed) \cup {id} /\ Apart(Append(r.failed, id))
  BY <1>1, <1>4, <1>5, <1>6
<1>8. /\ Len(Append(r.done, id)) + Len(r.failed) = r.at
      /\ Len(r.done) + Len(Append(r.failed, id)) = r.at
  <2>1. Len(Append(r.done, id)) = Len(r.done) + 1 /\ Len(Append(r.failed, id)) = Len(r.failed) + 1
    BY <1>1, <1>4, <1>5
  <2>2. Len(r.done) \in Nat /\ Len(r.failed) \in Nat
    BY <1>1
  <2>3. Len(r.done) + Len(r.failed) = r.at - 1 /\ r.at \in Nat \ {0}
    BY <1>1, <1>6
  <2> DEFINE dones == Len(r.done)
             faileds == Len(r.failed)
             n == r.at
  <2>4. (dones + 1) + faileds = n /\ dones + (faileds + 1) = n
    <3>1. dones \in Nat /\ faileds \in Nat /\ n \in Nat \ {0} /\ dones + faileds = n - 1
      BY <2>2, <2>3
    <3> HIDE DEF dones, faileds, n
    <3> QED BY <3>1
  <2> QED BY <2>1, <2>4, Zenon
<1> DEFINE before == {r.ids[i] : i \in 1 .. r.at - 1}
           after == {r.ids[i] : i \in 1 .. r.at}
<1>9. after = before \cup {id} /\ Range(r.done) \cup Range(r.failed) = before
  BY <1>2, <1>6
<1>12. after = {s.ids[i] : i \in 1 .. r.at} /\ r.at <= Len(s.ids)
  OBVIOUS
<1> HIDE DEF id, before, after
<1>10. CASE s.done = Append(r.done, id) /\ s.failed = r.failed
  <2>1. Range(s.done) \cup Range(s.failed) = after /\ Range(s.done) \cap Range(s.failed) = {}
    BY <1>4, <1>6, <1>7, <1>9, <1>10
  <2>2. Len(s.done) + Len(s.failed) = r.at /\ Apart(s.done) /\ Apart(s.failed)
    BY <1>6, <1>7, <1>8, <1>10
  <2> QED BY <1>12, <2>1, <2>2, Zenon DEF Accounted
<1>11. CASE s.failed = Append(r.failed, id) /\ s.done = r.done
  <2>1. Range(s.done) \cup Range(s.failed) = after /\ Range(s.done) \cap Range(s.failed) = {}
    BY <1>4, <1>6, <1>7, <1>9, <1>11
  <2>2. Len(s.done) + Len(s.failed) = r.at /\ Apart(s.done) /\ Apart(s.failed)
    BY <1>6, <1>7, <1>8, <1>11
  <2> QED BY <1>12, <2>1, <2>2, Zenon DEF Accounted
<1> QED BY <1>10, <1>11 DEF id

(* An id is worked on: the request goes on with it on one of its lists. *)
LEMMA WorkedOn ==
    ASSUME NEW r \in Requests, Sound(r), r.pc = "work", NEW works \in BOOLEAN
    PROVE  LET t == Record(r, works)
               s == IF r.at < Len(r.ids) THEN [t EXCEPT !.at = @ + 1]
                    ELSE Over(t, IF works \/ r.bulk THEN "ok" ELSE "refused")
           IN /\ s \in Requests /\ Sound(s)
              /\ s.done = IF works THEN Append(r.done, r.ids[r.at]) ELSE r.done
              /\ s.tool = r.tool /\ s.via = r.via
<1> DEFINE t == Record(r, works)
           s == IF r.at < Len(r.ids) THEN [t EXCEPT !.at = @ + 1]
                ELSE Over(t, IF works \/ r.bulk THEN "ok" ELSE "refused")
           id == r.ids[r.at]
<1>1. /\ Passed(r) /\ Approved(r) /\ r.at <= Len(r.ids) /\ Accounted(r, r.at - 1) /\ r.answer = "none"
  BY DEF Sound
<1>2. id \in Ids /\ r.done \in Seq(Ids) /\ r.failed \in Seq(Ids) /\ r.at \in Nat \ {0} /\ Len(r.ids) \in Nat
  BY <1>1 DEF Requests
<1>3. Append(r.done, id) \in Seq(Ids) /\ Append(r.failed, id) \in Seq(Ids)
  BY <1>2
<1>4. /\ t \in Requests
      /\ t.done = IF works THEN Append(r.done, id) ELSE r.done
      /\ t.failed = IF works THEN r.failed ELSE Append(r.failed, id)
      /\ t.pc = "work" /\ t.ids = r.ids /\ t.bulk = r.bulk /\ t.tool = r.tool /\ t.cap = r.cap
      /\ t.asked = r.asked /\ t.at = r.at /\ t.answer = "none" /\ t.via = r.via
  <2>1. CASE works
    BY <1>1, <1>3, <2>1 DEF Record, Requests
  <2>2. CASE ~works
    BY <1>1, <1>3, <2>2 DEF Record, Requests
  <2> QED BY <2>1, <2>2
<1> HIDE DEF t
<1>5. Accounted(t, r.at)
  BY <1>1, <1>4, AppendAccounted
<1>6. Passed(t) /\ Approved(t)
  BY <1>1, <1>4 DEF Passed, Approved
<1>7. CASE r.at < Len(r.ids)
  <2>1. s = [t EXCEPT !.at = t.at + 1]
    BY <1>7
  <2>2. t.at + 1 \in Nat \ {0} /\ t.at + 1 <= Len(r.ids) /\ t.at + 1 - 1 = r.at
    BY <1>2, <1>4, <1>7
  <2>3. s \in Requests
    BY <1>4, <2>1, <2>2 DEF Requests
  <2>4. /\ s.pc = "work" /\ s.ids = t.ids /\ s.bulk = t.bulk /\ s.tool = t.tool /\ s.done = t.done
        /\ s.failed = t.failed /\ s.cap = t.cap /\ s.asked = t.asked /\ s.at = t.at + 1
        /\ s.answer = "none" /\ s.via = t.via
    BY <1>4, <2>1 DEF Requests
  <2> HIDE DEF s
  <2>5. Passed(s) /\ Approved(s) /\ Accounted(s, r.at)
    BY <1>4, <1>5, <1>6, <2>3, <2>4, Keeps
  <2>6. Sound(s)
    BY <1>2, <1>4, <2>2, <2>4, <2>5 DEF Sound
  <2> QED BY <1>4, <2>3, <2>4, <2>6 DEF s, t
<1>8. CASE ~(r.at < Len(r.ids))
  <2> DEFINE how == IF works \/ r.bulk THEN "ok" ELSE "refused"
  <2>1. s = Over(t, how) /\ how \in Answers \ {"none"}
    BY <1>8 DEF Answers
  <2>2. r.at = Len(t.ids) /\ r.at \in Nat
    BY <1>1, <1>2, <1>4, <1>8
  <2> HIDE DEF how
  <2>3. Over(t, how) \in Requests /\ Sound(Over(t, how)) /\ Over(t, how).done = t.done
        /\ Over(t, how).tool = t.tool /\ Over(t, how).via = t.via
    BY <1>4, <1>5, <1>6, <2>1, <2>2, OverSound
  <2> HIDE DEF s
  <2> QED BY <1>4, <2>1, <2>3 DEF s, t
<1> QED BY <1>7, <1>8

LEMMA WorkKeeps ==
    ASSUME IInv, NEW c \in Callers, Work(c)
    PROVE  IInv'
<1> DEFINE r == req[c]
           id == r.ids[r.at]
           place == box[r.via][id]
           next(works) ==
               LET t == Record(r, works)
               IN IF r.at < Len(r.ids) THEN [t EXCEPT !.at = @ + 1]
                  ELSE Over(t, IF works \/ r.bulk THEN "ok" ELSE "refused")
           there(works) == IF works THEN Moved(r.tool, place) ELSE place
<1>1. PICK works \in BOOLEAN :
          /\ works => place \in Listed
          /\ box' = [box EXCEPT ![r.via][id] = there(works)]
          /\ req' = [d \in Callers |->
                        IF d = c THEN next(works)
                        ELSE IF there(works) # place THEN Stir(r.via, id, req[d]) ELSE req[d]]
          /\ UNCHANGED <<current, sender>>
  BY Zenon DEF Work
<1>2. /\ r \in Requests /\ Sound(r) /\ r.pc = "work"
      /\ \A d \in Callers : req[d] \in Requests /\ Sound(req[d])
      /\ box \in [Backends -> [Ids -> Places]] /\ current \in Backends /\ sender \in Backends
  BY DEF IInv, Placed, Work
<1>3. r.via \in Backends /\ id \in Ids /\ r.done \in Seq(Ids) /\ r.at <= Len(r.ids)
  BY <1>2 DEF Requests, Sound
<1>4. place \in Places /\ there(works) \in Places
  BY <1>2, <1>3 DEF Moved, Lands, Places, Listed
<1>5. /\ works /\ r.tool \in Curations => there(works) = Lands(r.tool)
      /\ ~works \/ r.tool \notin Curations =>
             there(works) = place \/ (there(works) \in Listed /\ place \in Listed)
  BY <1>1 DEF Moved, Curations, Listed
<1> DEFINE s == next(works)
           to == there(works)
<1>6. /\ s \in Requests /\ Sound(s) /\ s.done = IF works THEN Append(r.done, id) ELSE r.done
      /\ s.tool = r.tool /\ s.via = r.via
  BY <1>2, WorkedOn
<1>7. /\ box' = [box EXCEPT ![r.via][id] = to]
      /\ req' = [d \in Callers |->
                    IF d = c THEN s ELSE IF to # place THEN Stir(r.via, id, req[d]) ELSE req[d]]
  BY <1>1
<1>8. place \in Places /\ to \in Places
  BY <1>4
<1>9. works => place \in Listed
  BY <1>1
<1>10. /\ works /\ r.tool \in Curations => to = Lands(r.tool)
       /\ ~works \/ r.tool \notin Curations => to = place \/ (to \in Listed /\ place \in Listed)
  BY <1>5
<1> HIDE DEF s, to, place, id, next, there
<1>11. \A d \in Callers : d # c =>
           /\ req'[d] \in Requests /\ Sound(req'[d])
           /\ req'[d].done = req[d].done /\ req'[d].tool = req[d].tool /\ req'[d].via = req[d].via
  BY <1>2, <1>7, StirSound
<1>12. req'[c] = s
  BY <1>7
<1>13. \A b \in Backends, i \in Ids : box'[b][i] = IF b = r.via /\ i = id THEN to ELSE box[b][i]
  BY <1>2, <1>3, <1>7
<1>14. Placed'
  <2>1. box' \in [Backends -> [Ids -> Places]]
    BY <1>2, <1>3, <1>7, <1>8
  <2>2. req' \in [Callers -> Requests]
    <3>1. \A d \in Callers : req'[d] \in Requests
      BY <1>6, <1>11, <1>12
    <3>2. req' = [d \in Callers |-> req'[d]]
      BY <1>7
    <3> QED BY <3>1, <3>2
  <2> QED BY <1>1, <1>2, <2>1, <2>2 DEF Placed
<1>15. \A d \in Callers : Sound(req'[d])
  BY <1>6, <1>11, <1>12
<1>16. \A d \in Callers : req'[d].tool = req[d].tool
  BY <1>6, <1>11, <1>12
<1>17. \A d \in Callers, b \in Backends, i \in Ids :
           Curated(d, b, i)' <=> \/ Curated(d, b, i)
                                 \/ works /\ d = c /\ r.tool \in Curations /\ b = r.via /\ i = id
  <2>1. Range(s.done) = Range(r.done) \cup (IF works THEN {id} ELSE {})
    <3>1. Range(Append(r.done, id)) = Range(r.done) \cup {id}
      <4>1. DOMAIN Append(r.done, id) = (DOMAIN r.done) \cup {Len(r.done) + 1}
            /\ \A i \in DOMAIN r.done : Append(r.done, id)[i] = r.done[i]
            /\ Append(r.done, id)[Len(r.done) + 1] = id
        BY <1>3
      <4> QED BY <4>1 DEF Range
    <3> QED BY <1>6, <3>1
  <2>2. \A b \in Backends, i \in Ids :
            Curated(c, b, i)' <=> \/ Curated(c, b, i)
                                  \/ works /\ r.tool \in Curations /\ b = r.via /\ i = id
    BY <1>6, <1>12, <2>1 DEF Curated
  <2>3. \A d \in Callers, b \in Backends, i \in Ids : d # c => (Curated(d, b, i)' <=> Curated(d, b, i))
    BY <1>11 DEF Curated
  <2> QED BY <2>2, <2>3
<1>18. Ledger'
  <2>1. /\ \A d \in Callers, b \in Backends, i \in Ids : Curated(d, b, i) => box[b][i] = Lands(req[d].tool)
        /\ \A b \in Backends, i \in Ids : box[b][i] \in {"archive", "trash"} => \E d \in Callers : Curated(d, b, i)
        /\ \A d, e \in Callers, b \in Backends, i \in Ids : Curated(d, b, i) /\ Curated(e, b, i) => d = e
    BY DEF IInv, Ledger
  <2>2. box[r.via][id] = place
    BY DEF place
  <2>3. \A d \in Callers : place \in Listed => ~Curated(d, r.via, id)
    BY <1>3, <2>1, <2>2 DEF Lands, Listed
  <2>4. CASE works /\ r.tool \in Curations
    BY <1>3, <1>9, <1>10, <1>13, <1>16, <1>17, <2>1, <2>3, <2>4 DEF Ledger
  <2>5. CASE ~(works /\ r.tool \in Curations)
    <3>1. \A d \in Callers, b \in Backends, i \in Ids : Curated(d, b, i)' <=> Curated(d, b, i)
      BY <1>17, <2>5
    <3>2. \A b \in Backends, i \in Ids : box'[b][i] = box[b][i] \/ (box'[b][i] \in Listed /\ box[b][i] \in Listed)
      BY <1>10, <1>13, <2>2, <2>5
    <3>3. \A d \in Callers, b \in Backends, i \in Ids : box[b][i] \in Listed => ~Curated(d, b, i)
      BY <2>1 DEF Lands, Listed
    <3> QED BY <1>16, <2>1, <3>1, <3>2, <3>3 DEF Ledger, Listed
  <2> QED BY <2>4, <2>5
<1> QED BY <1>14, <1>15, <1>18 DEF IInv

LEMMA DeliverKeeps ==
    ASSUME IInv, NEW bx \in Backends, NEW id \in Ids, Deliver(bx, id)
    PROVE  IInv'
<1>1. /\ \A d \in Callers : req[d] \in Requests /\ Sound(req[d])
      /\ box \in [Backends -> [Ids -> Places]] /\ current \in Backends /\ sender \in Backends
      /\ box[bx][id] = "absent" /\ current' = current /\ sender' = sender
      /\ box' = [box EXCEPT ![bx][id] = "new"]
      /\ req' = [c \in Callers |-> Stir(bx, id, req[c])]
  BY DEF IInv, Placed, Deliver
<1>2. \A d \in Callers :
          /\ req'[d] \in Requests /\ Sound(req'[d])
          /\ req'[d].done = req[d].done /\ req'[d].tool = req[d].tool /\ req'[d].via = req[d].via
  BY <1>1, StirSound
<1>3. \A b \in Backends, i \in Ids : box'[b][i] = IF b = bx /\ i = id THEN "new" ELSE box[b][i]
  BY <1>1
<1>4. Placed'
  <2>1. box' \in [Backends -> [Ids -> Places]]
    BY <1>1 DEF Places, Listed
  <2>2. req' \in [Callers -> Requests]
    <3>1. req' = [d \in Callers |-> req'[d]]
      BY <1>1
    <3> QED BY <1>2, <3>1
  <2> QED BY <1>1, <2>1, <2>2 DEF Placed
<1>5. \A d \in Callers, b \in Backends, i \in Ids : Curated(d, b, i)' <=> Curated(d, b, i)
  BY <1>2 DEF Curated
<1>6. Ledger'
  <2>1. /\ \A d \in Callers, b \in Backends, i \in Ids : Curated(d, b, i) => box[b][i] = Lands(req[d].tool)
        /\ \A b \in Backends, i \in Ids : box[b][i] \in {"archive", "trash"} => \E d \in Callers : Curated(d, b, i)
        /\ \A d, e \in Callers, b \in Backends, i \in Ids : Curated(d, b, i) /\ Curated(e, b, i) => d = e
    BY DEF IInv, Ledger
  <2>2. \A d \in Callers : ~Curated(d, bx, id)
    BY <1>1, <2>1 DEF Lands
  <2> QED BY <1>2, <1>3, <1>5, <2>1, <2>2 DEF Ledger
<1> QED BY <1>2, <1>4, <1>6 DEF IInv

LEMMA SwapKeeps ==
    ASSUME IInv, SwapSender \/ \E b \in Backends : Swap(b)
    PROVE  IInv'
<1>1. box' = box /\ req' = req
  BY DEF Swap, SwapSender
<1>2. current' \in Backends /\ sender' \in Backends
  BY DEF IInv, Placed, Swap, SwapSender
<1>3. Placed' /\ Ledger'
  BY <1>1, <1>2 DEF IInv, Placed, Ledger, Curated
<1> QED BY <1>1, <1>3 DEF IInv

(* Nothing but history changes in a stutter. *)
LEMMA StutterKeeps == IInv /\ UNCHANGED vars => IInv'
BY DEF IInv, Placed, Ledger, Curated, vars

(* The invariant holds at first. *)
LEMMA InitIInv == Init => IInv
<1> SUFFICES ASSUME Init PROVE IInv
  OBVIOUS
<1>1. NoRequest \in Requests /\ Fresh(NoRequest) /\ Sound(NoRequest)
  BY BlankFits DEF Init
<1>2. /\ req = [c \in Callers |-> NoRequest] /\ current \in Backends /\ sender \in Backends
      /\ box \in [Backends -> [Ids -> {"absent", "new"}]]
  BY DEF Init
<1>3. Placed
  BY <1>1, <1>2 DEF Placed, Places, Listed
<1>4. \A c \in Callers, b \in Backends, id \in Ids : ~Curated(c, b, id)
  BY <1>1, <1>2 DEF Curated, Fresh, Range
<1>5. Ledger
  BY <1>2, <1>4 DEF Ledger
<1> QED BY <1>1, <1>2, <1>3, <1>5 DEF IInv

(* Every step keeps the invariant. *)
LEMMA NextIInv == IInv /\ [Next]_vars => IInv'
<1> SUFFICES ASSUME IInv, [Next]_vars PROVE IInv'
  OBVIOUS
<1>1. ASSUME NEW c \in Callers,
             \/ Receive(c) \/ Original(c) \/ Derive(c) \/ Gate(c) \/ Enqueue(c)
             \/ Service(c) \/ Switch(c) \/ Limit(c)
             \/ Locate(c) \/ Stat(c) \/ Work(c) \/ Cancel(c)
      PROVE  IInv'
  BY <1>1, ReceiveKeeps, OriginalKeeps, DeriveKeeps, GateKeeps, EnqueueKeeps, PassingKeeps, LocateKeeps, StatKeeps,
     WorkKeeps, CancelKeeps
<1>2. ASSUME NEW b \in Backends, NEW id \in Ids, Deliver(b, id) PROVE IInv'
  BY <1>2, DeliverKeeps
<1>3. CASE SwapSender \/ \E b \in Backends : Swap(b)
  BY <1>3, SwapKeeps
<1>4. CASE UNCHANGED vars
  BY <1>4, StutterKeeps
<1> QED BY <1>1, <1>2, <1>3, <1>4 DEF Next

-----------------------------------------------------------------------------
(* What follows. *)

(* How often a member stands in a list that repeats none. *)
LEMMA StandsOnce ==
    ASSUME NEW s \in Seq(Ids), Apart(s), NEW x
    PROVE  Cardinality({i \in DOMAIN s : s[i] = x}) = IF x \in Range(s) THEN 1 ELSE 0
<1> DEFINE at == {i \in DOMAIN s : s[i] = x}
<1>1. CASE x \in Range(s)
  <2>1. PICK k \in DOMAIN s : s[k] = x
    BY <1>1 DEF Range
  <2>2. at = {k}
    BY <2>1 DEF Apart
  <2> HIDE DEF at
  <2>3. Cardinality(at) = 1
    BY <2>2, FS_Singleton
  <2> QED BY <1>1, <2>3 DEF at
<1>2. CASE x \notin Range(s)
  <2>1. at = {}
    BY <1>2 DEF Range
  <2> HIDE DEF at
  <2>2. Cardinality(at) = 0
    BY <2>1, FS_EmptySet
  <2> QED BY <1>2, <2>2 DEF at
<1> QED BY <1>1, <1>2

(* The invariant implies the bound on one gesture. *)
LEMMA GestureFromIInv == IInv => OneGestureBounds
<1> SUFFICES ASSUME IInv, NEW c \in Callers, req[c].tool \in Curations, req[c].done # <<>>
             PROVE  /\ req[c].asked
                    /\ Range(req[c].done) \subseteq Range(req[c].ids)
                    /\ req[c].bulk => Len(req[c].done) <= req[c].cap
  BY Zenon DEF OneGestureBounds
<1> DEFINE r == req[c]
<1>1. r \in Requests /\ Passed(r) /\ Approved(r) /\ \E n \in Nat : Accounted(r, n)
  BY DEF IInv, Placed, Sound, Fresh
<1>2. PICK n \in Nat : Accounted(r, n)
  BY <1>1
<1>3. /\ Len(r.done) \in Nat /\ Len(r.failed) \in Nat /\ Len(r.ids) \in Nat /\ r.cap \in Nat
      /\ DOMAIN r.ids = 1 .. Len(r.ids)
  BY <1>1 DEF Requests
<1>4. n <= Len(r.ids) /\ Len(r.done) + Len(r.failed) = n /\ Range(r.done) \subseteq {r.ids[i] : i \in 1 .. n}
  BY <1>2 DEF Accounted
<1>5. {r.ids[i] : i \in 1 .. n} \subseteq Range(r.ids)
  BY <1>3, <1>4 DEF Range
<1>6. r.bulk => Len(r.done) <= r.cap
  <2>1. r.bulk => Len(r.ids) <= r.cap
    BY <1>1 DEF Passed
  <2>2. Len(r.done) <= Len(r.ids)
    <3>1. \A x, y, z \in Nat : x + y = n /\ n <= z => x <= z
      OBVIOUS
    <3> QED BY <1>3, <1>4, <3>1
  <2>3. Len(r.ids) <= r.cap => Len(r.done) <= r.cap
    BY <1>3, <2>2
  <2> QED BY <2>1, <2>3, Zenon
<1> QED BY <1>1, <1>4, <1>5, <1>6 DEF Approved

(* The invariant implies that reports are exact. *)
LEMMA ReportFromIInv == IInv => ReportIsExact
<1> SUFFICES ASSUME IInv PROVE BatchesAccounted /\ MovesReported
  BY DEF ReportIsExact
<1>1. ASSUME NEW c \in Callers, req[c].bulk, req[c].answer = "ok", NEW id \in Range(req[c].ids)
      PROVE  Cardinality({i \in DOMAIN req[c].done : req[c].done[i] = id})
             + Cardinality({i \in DOMAIN req[c].failed : req[c].failed[i] = id}) = 1
  <2> DEFINE r == req[c]
  <2>1. r \in Requests /\ Sound(r)
    BY <1>1 DEF IInv, Placed
  <2>10. Accounted(r, Len(r.ids))
    BY <1>1, <2>1, Zenon DEF Sound
  <2>2. /\ r.done \in Seq(Ids) /\ r.failed \in Seq(Ids) /\ DOMAIN r.ids = 1 .. Len(r.ids)
    BY <2>1 DEF Requests
  <2>3. /\ Apart(r.done) /\ Apart(r.failed) /\ Range(r.done) \cap Range(r.failed) = {}
        /\ Range(r.done) \cup Range(r.failed) = Range(r.ids)
    <3>1. {r.ids[i] : i \in 1 .. Len(r.ids)} = Range(r.ids)
      BY <2>2 DEF Range
    <3> QED BY <2>10, <3>1 DEF Accounted
  <2> DEFINE dones == Cardinality({i \in DOMAIN r.done : r.done[i] = id})
             faileds == Cardinality({i \in DOMAIN r.failed : r.failed[i] = id})
  <2>4. dones = IF id \in Range(r.done) THEN 1 ELSE 0
    BY <2>2, <2>3, StandsOnce
  <2>5. faileds = IF id \in Range(r.failed) THEN 1 ELSE 0
    BY <2>2, <2>3, StandsOnce
  <2> HIDE DEF dones, faileds
  <2>6. (id \in Range(r.done) /\ id \notin Range(r.failed)) \/ (id \notin Range(r.done) /\ id \in Range(r.failed))
    BY <1>1, <2>3
  <2>7. dones + faileds = 1
    BY <2>4, <2>5, <2>6
  <2> QED BY <2>7 DEF dones, faileds
<1>2. ASSUME NEW b \in Backends, NEW id \in Ids
      PROVE  LET by == {c \in Callers : Curated(c, b, id)} IN
             /\ Cardinality(by) <= 1
             /\ (by # {}) <=> box[b][id] \in {"archive", "trash"}
             /\ \A c \in by : Lands(req[c].tool) = box[b][id]
  <2> DEFINE by == {c \in Callers : Curated(c, b, id)}
  <2>1. \A c, d \in by : c = d
    BY DEF IInv, Ledger
  <2>2. \A c \in by : Lands(req[c].tool) = box[b][id]
    BY DEF IInv, Ledger
  <2>3. (by # {}) <=> box[b][id] \in {"archive", "trash"}
    BY <2>2 DEF IInv, Ledger, Lands
  <2> HIDE DEF by
  <2>4. Cardinality(by) <= 1
    <3>1. CASE by = {}
      BY <3>1, FS_EmptySet
    <3>2. CASE by # {}
      <4>1. PICK c \in by : by = {c}
        BY <2>1, <3>2
      <4>2. Cardinality({c}) = 1
        BY FS_Singleton
      <4> QED BY <4>1, <4>2
    <3> QED BY <3>1, <3>2
  <2> QED BY <2>2, <2>3, <2>4 DEF by
<1>3. BatchesAccounted
  BY <1>1 DEF BatchesAccounted
<1>4. MovesReported
  BY <1>2 DEF MovesReported
<1> QED BY <1>3, <1>4

-----------------------------------------------------------------------------
(* Folds: what is computed from the left to the right exists, and is computed
   item by item. *)

LEMMA LeastOf ==
    ASSUME NEW S \in SUBSET Nat, S # {}
    PROVE  \E m \in S : \A x \in S : m <= x
<1> DEFINE Upto(x) == 1 .. x
           T == {Upto(x) : x \in S}
<1>1. T \subseteq FiniteSubsetsOf(Nat)
  <2>1. \A x \in S : Upto(x) \in SUBSET Nat /\ IsFiniteSet(Upto(x))
    BY FS_Interval
  <2> QED BY <2>1 DEF FiniteSubsetsOf
<1>2. PICK A \in T : \A B \in T : <<B, A>> \notin StrictSubsetOrdering(Nat)
  <2>1. T # {}
    OBVIOUS
  <2>2. IsWellFoundedOn(StrictSubsetOrdering(Nat), FiniteSubsetsOf(Nat))
    BY FS_StrictSubsetOrderingWellFounded
  <2> HIDE DEF T
  <2> QED BY <1>1, <2>1, <2>2, WFMin
<1>3. PICK m \in S : A = Upto(m)
  OBVIOUS
<1>4. ASSUME NEW x \in S, x < m PROVE FALSE
  <2>1. Upto(x) \subseteq Upto(m) /\ m \in Upto(m) /\ m \notin Upto(x)
    BY <1>4
  <2>2. <<Upto(x), Upto(m)>> \in StrictSubsetOrdering(Nat)
    BY <2>1 DEF StrictSubsetOrdering
  <2> QED BY <1>2, <1>3, <2>2
<1> QED BY <1>4

(* A set of numbers that has 0 and with each number the next one has them all. *)
LEMMA EveryNumber ==
    ASSUME NEW S, 0 \in S, \A n \in Nat : n \in S => n + 1 \in S
    PROVE  \A n \in Nat : n \in S
<1> DEFINE M == {n \in Nat : n \notin S}
<1> SUFFICES ASSUME M # {} PROVE FALSE
  OBVIOUS
<1>1. PICK m \in M : \A x \in M : m <= x
  BY LeastOf
<1>2. m \in Nat /\ m \notin S /\ m # 0
  OBVIOUS
<1>3. m - 1 \in Nat /\ m - 1 \in S
  BY <1>1, <1>2
<1> QED BY <1>2, <1>3

(* The values that start from a and go on as G says. *)
Course(f, V, a, G) == f \in [Nat -> V] /\ f[0] = a /\ \A n \in Nat : f[n + 1] = G[n][f[n]]

LEMMA Recursion ==
    ASSUME NEW V, NEW a, a \in V, NEW G, G \in [Nat -> [V -> V]]
    PROVE  \E f : Course(f, V, a, G)
<1> DEFINE Upto(n, g) == /\ g \in [0 .. n -> V] /\ g[0] = a
                         /\ \A k \in 1 .. n : g[k] = G[k - 1][g[k - 1]]
           S == {n \in Nat : \E g : Upto(n, g)}
<1>1. 0 \in S
  <2>1. Upto(0, [k \in 0 .. 0 |-> a])
    OBVIOUS
  <2> QED BY <2>1
<1>2. ASSUME NEW n \in Nat, n \in S PROVE n + 1 \in S
  <2>1. PICK g : Upto(n, g)
    BY <1>2
  <2> DEFINE h == [k \in 0 .. n + 1 |-> IF k = n + 1 THEN G[n][g[n]] ELSE g[k]]
  <2>2. g[n] \in V /\ G[n] \in [V -> V] /\ G[n][g[n]] \in V
    <3>1. n \in 0 .. n
      OBVIOUS
    <3>2. g[n] \in V
      BY <2>1, <3>1
    <3> QED BY <3>2
  <2>3. \A k \in 0 .. n + 1 : h[k] = IF k = n + 1 THEN G[n][g[n]] ELSE g[k]
    OBVIOUS
  <2>4. DOMAIN h = 0 .. n + 1 /\ h = [k \in 0 .. n + 1 |-> h[k]]
    OBVIOUS
  <2> HIDE DEF h
  <2>5. \A k \in 0 .. n : h[k] = g[k]
    BY <2>3
  <2>6. h[n + 1] = G[n][g[n]]
    BY <2>3
  <2>7. \A k \in 0 .. n + 1 : h[k] \in V
    <3> TAKE k \in 0 .. n + 1
    <3>1. k = n + 1 \/ k \in 0 .. n
      OBVIOUS
    <3> QED BY <2>1, <2>2, <2>5, <2>6, <3>1
  <2>8. h \in [0 .. n + 1 -> V] /\ h[0] = a
    <3>1. 0 \in 0 .. n
      OBVIOUS
    <3>2. h[0] = a
      BY <2>1, <2>5, <3>1
    <3>3. h \in [0 .. n + 1 -> V]
      BY <2>4, <2>7
    <3> QED BY <3>2, <3>3
  <2>9. \A k \in 1 .. n + 1 : h[k] = G[k - 1][h[k - 1]]
    <3> TAKE k \in 1 .. n + 1
    <3>1. CASE k = n + 1
      <4>1. n \in 0 .. n /\ k - 1 = n
        BY <3>1
      <4>2. h[n] = g[n]
        BY <2>5, <4>1
      <4> QED BY <2>6, <3>1, <4>1, <4>2
    <3>2. CASE k # n + 1
      <4>1. k \in 1 .. n /\ k \in 0 .. n /\ k - 1 \in 0 .. n
        BY <3>2
      <4>2. h[k] = g[k] /\ h[k - 1] = g[k - 1]
        BY <2>5, <4>1
      <4> QED BY <2>1, <4>1, <4>2
    <3> QED BY <3>1, <3>2
  <2>10. Upto(n + 1, h)
    BY <2>8, <2>9
  <2>11. \E i : Upto(n + 1, i)
    <3> HIDE DEF Upto
    <3> QED BY <2>10
  <2> HIDE DEF Upto
  <2> QED BY <2>11
<1>3. \A n \in Nat : n \in S
  <2> HIDE DEF S
  <2> QED BY <1>1, <1>2, EveryNumber
<1>4. ASSUME NEW n \in Nat, NEW g, Upto(n, g), NEW m \in Nat, NEW h, Upto(m, h), n <= m
      PROVE  g[n] = h[n]
  <2> DEFINE E == {k \in Nat : k <= n => g[k] = h[k]}
  <2>1. 0 \in E
    BY <1>4
  <2>2. ASSUME NEW k \in Nat, k \in E PROVE k + 1 \in E
    <3> SUFFICES ASSUME k + 1 <= n PROVE g[k + 1] = h[k + 1]
      OBVIOUS
    <3>1. g[k] = h[k] /\ k + 1 \in 1 .. n /\ k + 1 \in 1 .. m /\ (k + 1) - 1 = k
      BY <1>4, <2>2
    <3> QED BY <1>4, <3>1
  <2>3. n \in E
    <3> HIDE DEF E
    <3> QED BY <2>1, <2>2, EveryNumber
  <2> QED BY <2>3
<1> DEFINE best(n) == CHOOSE g : Upto(n, g)
           f == [n \in Nat |-> best(n)[n]]
<1>5. \A n \in Nat : Upto(n, best(n))
  BY <1>3
<1>6. f \in [Nat -> V]
  <2>1. ASSUME NEW n \in Nat PROVE best(n)[n] \in V
    <3> HIDE DEF best
    <3>1. n \in 0 .. n
      OBVIOUS
    <3> QED BY <1>5, <3>1
  <2> HIDE DEF best
  <2> QED BY <2>1
<1>7. f[0] = a
  <2> HIDE DEF best
  <2> QED BY <1>5
<1>8. ASSUME NEW n \in Nat PROVE f[n + 1] = G[n][f[n]]
  <2> HIDE DEF best
  <2>1. n + 1 \in Nat /\ n <= n + 1 /\ n + 1 \in 1 .. n + 1 /\ (n + 1) - 1 = n
    OBVIOUS
  <2>2. Upto(n + 1, best(n + 1)) /\ Upto(n, best(n))
    BY <1>5, <2>1
  <2>3. best(n)[n] = best(n + 1)[n]
    <3> HIDE DEF Upto
    <3> QED BY <1>4, <2>1, <2>2
  <2>4. best(n + 1)[n + 1] = G[n][best(n + 1)[n]]
    BY <2>1, <2>2
  <2> QED BY <2>1, <2>3, <2>4
<1>9. Course(f, V, a, G)
  <2> HIDE DEF f
  <2> QED BY <1>6, <1>7, <1>8 DEF Course
<1> QED BY <1>9

(* Of a set of positions there is a last one. *)
LEMMA LastOne ==
    ASSUME NEW n \in Nat, NEW s \in SUBSET (1 .. n), s # {}
    PROVE  Max(s) \in s /\ \A x \in s : x <= Max(s)
<1> DEFINE R == {n - x : x \in s}
<1>1. R \in SUBSET Nat /\ R # {}
  <2>1. \A x \in s : n - x \in Nat
    OBVIOUS
  <2> QED BY <2>1
<1>2. PICK r \in R : \A y \in R : r <= y
  BY <1>1, LeastOf
<1>3. PICK m \in s : r = n - m
  OBVIOUS
<1>4. ASSUME NEW x \in s PROVE x <= m /\ m >= x
  <2>1. n - x \in R /\ x \in Nat /\ m \in Nat
    OBVIOUS
  <2>2. n - m <= n - x
    <3> HIDE DEF R
    <3> QED BY <1>2, <1>3, <2>1
  <2> QED BY <2>1, <2>2
<1>5. Max(s) \in s /\ \A x \in s : Max(s) >= x
  BY <1>4 DEF Max
<1>6. \A x, y \in s : x >= y => y <= x
  OBVIOUS
<1> QED BY <1>5, <1>6

LEMMA LastOfPrefix ==
    ASSUME NEW n \in Nat, NEW i \in 0 .. n
    PROVE  /\ 1 .. i \in SUBSET (1 .. n)
           /\ i = 0 => 1 .. i = {}
           /\ i # 0 => /\ 1 .. i # {} /\ Max(1 .. i) = i
                       /\ (1 .. i) \ {i} = 1 .. i - 1 /\ i - 1 \in 0 .. n
<1>1. 1 .. i \in SUBSET (1 .. n) /\ (i = 0 => 1 .. i = {})
  OBVIOUS
<1>2. ASSUME i # 0
      PROVE  1 .. i # {} /\ Max(1 .. i) = i /\ (1 .. i) \ {i} = 1 .. i - 1 /\ i - 1 \in 0 .. n
  <2>1. i \in 1 .. i /\ (1 .. i) \ {i} = 1 .. i - 1 /\ i - 1 \in 0 .. n
    BY <1>2
  <2>2. Max(1 .. i) \in 1 .. i /\ i <= Max(1 .. i)
    BY <1>1, <2>1, LastOne
  <2>3. Max(1 .. i) = i
    BY <2>2
  <2> QED BY <2>1, <2>3
<1> QED BY <1>1, <1>2

(* The values of a fold for every set of positions: the last position comes last. *)
Folded(it, n, V, a, G) ==
    /\ it \in [SUBSET (1 .. n) -> V]
    /\ \A s \in SUBSET (1 .. n) : it[s] = IF s = {} THEN a ELSE G[Max(s)][it[s \ {Max(s)}]]

LEMMA FoldExists ==
    ASSUME NEW n \in Nat, NEW V, NEW a \in V, NEW G, G \in [1 .. n -> [V -> V]]
    PROVE  \E it : Folded(it, n, V, a, G)
<1> DEFINE H(s) == [i \in Nat |-> [v \in V |-> IF i + 1 \in s THEN G[i + 1][v] ELSE v]]
           Runs(s, f) == /\ f \in [Nat -> V] /\ f[0] = a
                         /\ \A i \in Nat : f[i + 1] = IF i + 1 \in s THEN G[i + 1][f[i]] ELSE f[i]
           run(s) == CHOOSE f : Runs(s, f)
           it == [s \in SUBSET (1 .. n) |-> run(s)[n]]
<1>1. ASSUME NEW s \in SUBSET (1 .. n) PROVE Runs(s, run(s))
  <2>1. H(s) \in [Nat -> [V -> V]]
    <3>1. ASSUME NEW i \in Nat, NEW v \in V PROVE (IF i + 1 \in s THEN G[i + 1][v] ELSE v) \in V
      <4>1. i + 1 \in s => G[i + 1] \in [V -> V]
        OBVIOUS
      <4> QED BY <4>1
    <3> QED BY <3>1
  <2>2. PICK f : f \in [Nat -> V] /\ f[0] = a /\ \A i \in Nat : f[i + 1] = H(s)[i][f[i]]
    <3> HIDE DEF H
    <3>1. PICK f : Course(f, V, a, H(s))
      BY <2>1, Recursion
    <3> QED BY <3>1 DEF Course
  <2>3. \A i \in Nat : H(s)[i][f[i]] = IF i + 1 \in s THEN G[i + 1][f[i]] ELSE f[i]
    <3>1. \A i \in Nat, v \in V : H(s)[i][v] = IF i + 1 \in s THEN G[i + 1][v] ELSE v
      OBVIOUS
    <3> HIDE DEF H
    <3> QED BY <2>2, <3>1
  <2>4. Runs(s, f)
    <3> HIDE DEF H
    <3> QED BY <2>2, <2>3
  <2>5. \E g : Runs(s, g)
    <3> HIDE DEF Runs
    <3> QED BY <2>4
  <2> HIDE DEF Runs
  <2> QED BY <2>5
<1>2. it \in [SUBSET (1 .. n) -> V]
  <2> HIDE DEF run
  <2> QED BY <1>1
<1>3. ASSUME NEW s \in SUBSET (1 .. n)
      PROVE  it[s] = IF s = {} THEN a ELSE G[Max(s)][it[s \ {Max(s)}]]
  <2>1. CASE s = {}
    <3> DEFINE f == run(s)
               S == {i \in Nat : f[i] = a}
    <3>0. Runs(s, f)
      BY <1>1
    <3> HIDE DEF f
    <3>1. 0 \in S /\ \A i \in Nat : i \in S => i + 1 \in S
      BY <2>1, <3>0
    <3>2. n \in S
      <4> HIDE DEF S
      <4> QED BY <3>1, EveryNumber
    <3>3. it[s] = f[n]
      <4> HIDE DEF run
      <4> QED BY DEF f
    <3> QED BY <2>1, <3>2, <3>3
  <2>2. CASE s # {}
    <3> DEFINE m == Max(s)
               t == s \ {m}
    <3>1. m \in s /\ m \in 1 .. n /\ t \in SUBSET (1 .. n) /\ \A x \in s : x <= m
      BY <2>2, LastOne
    <3> HIDE DEF m
    <3> DEFINE f == run(s)
               g == run(t)
    <3>2. Runs(s, f) /\ Runs(t, g)
      <4> HIDE DEF run, Runs
      <4> QED BY <1>1, <3>1
    <3> HIDE DEF f, g
    <3>3. f[m - 1] = g[m - 1]
      <4> DEFINE S == {i \in Nat : i < m => f[i] = g[i]}
      <4>1. 0 \in S
        BY <3>2
      <4>2. ASSUME NEW i \in Nat, i \in S PROVE i + 1 \in S
        <5> SUFFICES ASSUME i + 1 < m PROVE f[i + 1] = g[i + 1]
          OBVIOUS
        <5>1. f[i] = g[i] /\ (i + 1 \in s <=> i + 1 \in t)
          BY <3>1, <4>2
        <5>2. f[i + 1] = IF i + 1 \in s THEN G[i + 1][f[i]] ELSE f[i]
          BY <3>2
        <5>3. g[i + 1] = IF i + 1 \in t THEN G[i + 1][g[i]] ELSE g[i]
          BY <3>2
        <5> HIDE DEF t
        <5> QED BY <5>1, <5>2, <5>3
      <4>3. m - 1 \in S
        <5>1. m - 1 \in Nat
          BY <3>1
        <5> HIDE DEF S
        <5> QED BY <4>1, <4>2, <5>1, EveryNumber
      <4> QED BY <3>1, <4>3
    <3>4. f[m] = G[m][f[m - 1]] /\ g[m] = g[m - 1]
      <4>1. m - 1 \in Nat /\ (m - 1) + 1 = m /\ m \notin t
        BY <3>1
      <4> QED BY <3>1, <3>2, <4>1
    <3>5. f[n] = f[m] /\ g[n] = g[m]
      <4> DEFINE S == {i \in Nat : m <= i => f[i] = f[m] /\ g[i] = g[m]}
      <4>1. 0 \in S
        BY <3>1
      <4>2. ASSUME NEW i \in Nat, i \in S PROVE i + 1 \in S
        <5> SUFFICES ASSUME m <= i + 1 PROVE f[i + 1] = f[m] /\ g[i + 1] = g[m]
          OBVIOUS
        <5>1. CASE m = i + 1
          BY <5>1
        <5>2. CASE m # i + 1
          <6>1. m <= i /\ i + 1 \notin s /\ i + 1 \notin t
            BY <3>1, <5>2
          <6> QED BY <3>2, <4>2, <6>1
        <5> QED BY <5>1, <5>2
      <4>3. n \in S
        <5> HIDE DEF S
        <5> QED BY <4>1, <4>2, EveryNumber
      <4> QED BY <3>1, <4>3
    <3>6. f[n] = G[m][g[n]]
      BY <3>3, <3>4, <3>5
    <3>7. it[s] = f[n] /\ it[t] = g[n]
      <4> HIDE DEF run
      <4> QED BY <3>1 DEF f, g
    <3> QED BY <2>2, <3>6, <3>7 DEF m
  <2> QED BY <2>1, <2>2
<1>4. Folded(it, n, V, a, G)
  <2> HIDE DEF it
  <2> QED BY <1>2, <1>3 DEF Folded
<1> QED BY <1>4

-----------------------------------------------------------------------------
(* Who is taken from a list of addresses. *)

(* What has been taken after one more candidate. *)
Taken(excluded, out, a) ==
    IF addrSpec(a) \in excluded \cup {addrSpec(out[i]) : i \in DOMAIN out} THEN out ELSE Append(out, a)

LEMMA TakeFold ==
    ASSUME NEW excluded, NEW list, list \in Seq(Range(list))
    PROVE  \E F : /\ F[0] = <<>> /\ take(excluded, list) = F[Len(list)]
                  /\ \A i \in 1 .. Len(list) : F[i] = Taken(excluded, F[i - 1], list[i])
<1> DEFINE n == Len(list)
           V == Seq(Range(list))
           step(it, s) == IF s = {} THEN <<>> ELSE Taken(excluded, it[s \ {Max(s)}], list[Max(s)])
           Solves(it) == it = [s \in SUBSET DOMAIN list |-> step(it, s)]
           J == CHOOSE it : Solves(it)
<1>1. n \in Nat /\ DOMAIN list = 1 .. n /\ \A i \in 1 .. n : list[i] \in Range(list)
  BY DEF Range
<1>2. take(excluded, list) = J[1 .. n]
  <2>1. take(excluded, list) = J[DOMAIN list]
    BY DEF take, FoldLeft, MapThenFoldSet, Taken
  <2> HIDE DEF J
  <2> QED BY <1>1, <2>1
<1>3. \E it : Solves(it)
  <2> DEFINE G == [i \in 1 .. n |-> [v \in V |-> Taken(excluded, v, list[i])]]
  <2>1. \A i \in 1 .. n, v \in V : Taken(excluded, v, list[i]) \in V
    BY <1>1 DEF Taken
  <2>2. G \in [1 .. n -> [V -> V]] /\ <<>> \in V
    BY <2>1
  <2>3. \A i \in 1 .. n, v \in V : G[i][v] = Taken(excluded, v, list[i])
    OBVIOUS
  <2> HIDE DEF G, V, n
  <2>4. PICK it : Folded(it, n, V, <<>>, G)
    BY <1>1, <2>2, FoldExists
  <2>5. ASSUME NEW s \in SUBSET (1 .. n) PROVE it[s] = step(it, s)
    <3>1. CASE s = {}
      BY <2>4, <3>1 DEF Folded
    <3>2. CASE s # {}
      <4> DEFINE m == Max(s)
      <4>1. m \in 1 .. n /\ s \ {m} \in SUBSET (1 .. n)
        BY <1>1, <3>2, LastOne
      <4> HIDE DEF m
      <4>2. it[s \ {m}] \in V /\ it[s] = G[m][it[s \ {m}]]
        BY <2>4, <3>2, <4>1 DEF m, Folded
      <4>3. it[s] = Taken(excluded, it[s \ {m}], list[m])
        BY <2>3, <4>1, <4>2
      <4> QED BY <3>2, <4>3 DEF m
    <3> QED BY <3>1, <3>2
  <2>6. it = [s \in SUBSET DOMAIN list |-> step(it, s)]
    <3> HIDE DEF step
    <3> QED BY <1>1, <2>4, <2>5 DEF Folded
  <2> QED BY <2>6
<1>4. \A s \in SUBSET (1 .. n) : J[s] = step(J, s)
  <2>1. Solves(J)
    <3> HIDE DEF Solves
    <3> QED BY <1>3
  <2> HIDE DEF J, step
  <2> QED BY <1>1, <2>1
<1> HIDE DEF J
<1> DEFINE F == [i \in 0 .. n |-> J[1 .. i]]
<1>5. ASSUME NEW i \in 0 .. n PROVE F[i] = J[1 .. i]
  OBVIOUS
<1>6. F[0] = <<>> /\ F[n] = J[1 .. n]
  <2>1. 0 \in 0 .. n /\ n \in 0 .. n /\ 1 .. 0 = {} /\ {} \in SUBSET (1 .. n)
    BY <1>1
  <2>2. J[{}] = <<>>
    BY <1>4, <2>1
  <2> HIDE DEF F
  <2> QED BY <1>5, <2>1, <2>2
<1>7. ASSUME NEW i \in 1 .. n PROVE F[i] = Taken(excluded, F[i - 1], list[i])
  <2>1. i \in 0 .. n /\ i # 0 /\ i - 1 \in 0 .. n
    BY <1>1
  <2> DEFINE upto == 1 .. i
             before == 1 .. i - 1
  <2>2. upto \in SUBSET (1 .. n) /\ upto # {} /\ Max(upto) = i /\ upto \ {i} = before
    BY <1>1, <2>1, LastOfPrefix
  <2>3. F[i] = J[upto] /\ F[i - 1] = J[before]
    <3> HIDE DEF F
    <3> QED BY <1>5, <2>1
  <2> HIDE DEF upto, before, F
  <2>4. J[upto] = Taken(excluded, J[before], list[i])
    BY <1>4, <2>2
  <2> QED BY <2>3, <2>4
<1>8. F[0] = <<>> /\ take(excluded, list) = F[Len(list)]
      /\ \A i \in 1 .. Len(list) : F[i] = Taken(excluded, F[i - 1], list[i])
  <2> HIDE DEF F
  <2> QED BY <1>2, <1>6, <1>7
<1> QED BY <1>8

(* Everybody on the list is taken once, but for the excluded. *)
LEMMA TakeTakes ==
    ASSUME NEW excluded, NEW list, list \in Seq(Range(list))
    PROVE  LET out == take(excluded, list) IN
           /\ out \in Seq(Range(list))
           /\ Specs(out) = Specs(list) \ excluded
           /\ IsFiniteSet(Specs(out)) /\ Cardinality(Specs(out)) = Len(out)
<1> DEFINE n == Len(list)
           Alone(out) == \A j, k \in DOMAIN out : addrSpec(out[j]) = addrSpec(out[k]) => j = k
           Good(i, out) == /\ out \in Seq(Range(list)) /\ Alone(out)
                           /\ Specs(out) = {addrSpec(list[j]) : j \in 1 .. i} \ excluded
<1>1. PICK F : /\ F[0] = <<>> /\ take(excluded, list) = F[n]
               /\ \A i \in 1 .. n : F[i] = Taken(excluded, F[i - 1], list[i])
  BY TakeFold
<1>2. n \in Nat /\ DOMAIN list = 1 .. n /\ \A i \in 1 .. n : list[i] \in Range(list)
  BY DEF Range
<1> HIDE DEF n
<1> DEFINE S == {i \in Nat : i <= n => Good(i, F[i])}
<1>3. 0 \in S
  <2>1. Good(0, <<>>)
    BY DEF Specs
  <2> HIDE DEF Good
  <2> QED BY <1>1, <2>1
<1>4. ASSUME NEW i \in Nat, i \in S PROVE i + 1 \in S
  <2> SUFFICES ASSUME i + 1 <= n PROVE Good(i + 1, F[i + 1])
    OBVIOUS
  <2> DEFINE a == list[i + 1]
             out == F[i]
             seen == {addrSpec(list[j]) : j \in 1 .. i}
  <2>1. i + 1 \in 1 .. n /\ (i + 1) - 1 = i /\ a \in Range(list)
    BY <1>2
  <2>2. Good(i, out)
    <3> HIDE DEF Good
    <3> QED BY <1>2, <1>4
  <2>3. F[i + 1] = Taken(excluded, out, a)
    BY <1>1, <2>1
  <2>4. {addrSpec(list[j]) : j \in 1 .. i + 1} = seen \cup {addrSpec(a)}
    <3>1. 1 .. i + 1 = 1 .. i \cup {i + 1}
      OBVIOUS
    <3> QED BY <3>1
  <2>5. Specs(out) = seen \ excluded /\ out \in Seq(Range(list)) /\ Alone(out)
    BY <2>2
  <2> HIDE DEF out, a, seen
  <2>6. CASE addrSpec(a) \in excluded \cup Specs(out)
    <3>1. F[i + 1] = out
      BY <2>3, <2>6 DEF Taken, Specs
    <3>2. Specs(out) = (seen \cup {addrSpec(a)}) \ excluded
      BY <2>5, <2>6
    <3> QED BY <2>4, <2>5, <3>1, <3>2
  <2>7. CASE addrSpec(a) \notin excluded \cup Specs(out)
    <3> DEFINE more == Append(out, a)
    <3>1. F[i + 1] = more
      BY <2>3, <2>7 DEF Taken, Specs
    <3>2. /\ more \in Seq(Range(list)) /\ DOMAIN more = 1 .. Len(out) + 1 /\ DOMAIN out = 1 .. Len(out)
          /\ Len(out) \in Nat /\ more[Len(out) + 1] = a /\ \A j \in 1 .. Len(out) : more[j] = out[j]
      BY <2>1, <2>5
    <3> HIDE DEF more
    <3>3. Specs(more) = Specs(out) \cup {addrSpec(a)}
      <4>1. 1 .. Len(out) + 1 = 1 .. Len(out) \cup {Len(out) + 1}
        BY <3>2
      <4> QED BY <3>2, <4>1 DEF Specs
    <3>4. Alone(more)
      <4> SUFFICES ASSUME NEW j \in DOMAIN more, NEW k \in DOMAIN more, addrSpec(more[j]) = addrSpec(more[k])
                   PROVE  j = k
        OBVIOUS
      <4>1. \A l \in DOMAIN more : l = Len(out) + 1 \/ l \in DOMAIN out
        BY <3>2
      <4>2. \A l \in DOMAIN out : addrSpec(more[l]) \in Specs(out) /\ more[l] = out[l]
        BY <3>2 DEF Specs
      <4>3. addrSpec(a) \notin Specs(out)
        BY <2>7
      <4> HIDE DEF addrSpec
      <4> QED BY <2>5, <3>2, <4>1, <4>2, <4>3
    <3>5. Specs(more) = (seen \cup {addrSpec(a)}) \ excluded
      BY <2>5, <2>7, <3>3
    <3> QED BY <2>4, <3>1, <3>2, <3>4, <3>5
  <2> QED BY <2>6, <2>7
<1>5. Good(n, F[n])
  <2>1. n \in S
    <3> HIDE DEF S
    <3> QED BY <1>2, <1>3, <1>4, EveryNumber
  <2> HIDE DEF Good
  <2> QED BY <1>2, <2>1
<1> DEFINE out == take(excluded, list)
<1>6. /\ out \in Seq(Range(list)) /\ Alone(out)
      /\ Specs(out) = {addrSpec(list[j]) : j \in 1 .. n} \ excluded
  BY <1>1, <1>5
<1>7. Specs(list) = {addrSpec(list[j]) : j \in 1 .. n}
  BY <1>2 DEF Specs
<1> HIDE DEF out
<1>8. IsFiniteSet(Specs(out)) /\ Cardinality(Specs(out)) = Len(out)
  <2> DEFINE f == [j \in 1 .. Len(out) |-> addrSpec(out[j])]
  <2>1. Len(out) \in Nat /\ DOMAIN out = 1 .. Len(out)
    BY <1>6
  <2>2. f \in Bijection(1 .. Len(out), Specs(out))
    <3>1. f \in [1 .. Len(out) -> Specs(out)]
      BY <2>1 DEF Specs
    <3>2. \A j, k \in 1 .. Len(out) : f[j] = f[k] => j = k
      <4>1. \A j \in 1 .. Len(out) : f[j] = addrSpec(out[j])
        OBVIOUS
      <4> HIDE DEF f
      <4> QED BY <1>6, <2>1, <4>1
    <3>3. \A x \in Specs(out) : \E j \in 1 .. Len(out) : f[j] = x
      BY <2>1 DEF Specs
    <3> HIDE DEF f
    <3> QED BY <3>1, <3>2, <3>3 DEF Bijection, Injection, Surjection, IsInjective
  <2>3. ExistsBijection(1 .. Len(out), Specs(out))
    BY <2>2 DEF ExistsBijection
  <2>4. IsFiniteSet(1 .. Len(out))
    BY <2>1, FS_Interval
  <2> QED BY <2>1, <2>3, <2>4, FS_Bijection, FS_CountingElements
<1> QED BY <1>6, <1>7, <1>8 DEF out

-----------------------------------------------------------------------------
(* The bytes of a list of messages. *)

Bytes(list) == FoldLeft(LAMBDA sum, id : sum + Size[id], 0, list)

(* The messages have sizes. *)
LEMMA Sizes == \A id \in Ids : Size[id] \in Nat
BY RequestsAssumption DEF RequestsAssumption

LEMMA BytesFold ==
    ASSUME NEW list \in Seq(Ids)
    PROVE  \E F : /\ F[0] = 0 /\ Bytes(list) = F[Len(list)]
                  /\ \A i \in 1 .. Len(list) : F[i] = F[i - 1] + Size[list[i]]
<1> DEFINE n == Len(list)
           step(it, s) == IF s = {} THEN 0 ELSE it[s \ {Max(s)}] + Size[list[Max(s)]]
           Solves(it) == it = [s \in SUBSET DOMAIN list |-> step(it, s)]
           J == CHOOSE it : Solves(it)
<1>1. n \in Nat /\ DOMAIN list = 1 .. n /\ \A i \in 1 .. n : Size[list[i]] \in Nat
  BY Sizes
<1>2. Bytes(list) = J[1 .. n]
  <2>1. Bytes(list) = J[DOMAIN list]
    BY DEF Bytes, FoldLeft, MapThenFoldSet
  <2> HIDE DEF J
  <2> QED BY <1>1, <2>1
<1>3. \E it : Solves(it)
  <2> DEFINE G == [i \in 1 .. n |-> [v \in Nat |-> v + Size[list[i]]]]
  <2>1. \A i \in 1 .. n, v \in Nat : v + Size[list[i]] \in Nat
    BY <1>1
  <2>2. G \in [1 .. n -> [Nat -> Nat]]
    BY <2>1
  <2>3. \A i \in 1 .. n, v \in Nat : G[i][v] = v + Size[list[i]]
    OBVIOUS
  <2> HIDE DEF G, n
  <2>4. PICK it : Folded(it, n, Nat, 0, G)
    BY <1>1, <2>2, FoldExists
  <2>5. ASSUME NEW s \in SUBSET (1 .. n) PROVE it[s] = step(it, s)
    <3>1. CASE s = {}
      BY <2>4, <3>1 DEF Folded
    <3>2. CASE s # {}
      <4> DEFINE m == Max(s)
      <4>1. m \in 1 .. n /\ s \ {m} \in SUBSET (1 .. n)
        BY <1>1, <3>2, LastOne
      <4> HIDE DEF m
      <4>2. it[s \ {m}] \in Nat /\ it[s] = G[m][it[s \ {m}]]
        BY <2>4, <3>2, <4>1 DEF m, Folded
      <4>3. it[s] = it[s \ {m}] + Size[list[m]]
        BY <2>3, <4>1, <4>2
      <4> QED BY <3>2, <4>3 DEF m
    <3> QED BY <3>1, <3>2
  <2>6. it = [s \in SUBSET DOMAIN list |-> step(it, s)]
    <3> HIDE DEF step
    <3> QED BY <1>1, <2>4, <2>5 DEF Folded
  <2> QED BY <2>6
<1>4. \A s \in SUBSET (1 .. n) : J[s] = step(J, s)
  <2>1. Solves(J)
    <3> HIDE DEF Solves
    <3> QED BY <1>3
  <2> HIDE DEF J, step
  <2> QED BY <1>1, <2>1
<1> HIDE DEF J
<1> DEFINE F == [i \in 0 .. n |-> J[1 .. i]]
<1>5. ASSUME NEW i \in 0 .. n PROVE F[i] = J[1 .. i]
  OBVIOUS
<1>6. F[0] = 0 /\ F[n] = J[1 .. n]
  <2>1. 0 \in 0 .. n /\ n \in 0 .. n /\ 1 .. 0 = {} /\ {} \in SUBSET (1 .. n)
    BY <1>1
  <2>2. J[{}] = 0
    BY <1>4, <2>1
  <2> HIDE DEF F
  <2> QED BY <1>5, <2>1, <2>2
<1>7. ASSUME NEW i \in 1 .. n PROVE F[i] = F[i - 1] + Size[list[i]]
  <2>1. i \in 0 .. n /\ i # 0 /\ i - 1 \in 0 .. n
    BY <1>1
  <2> DEFINE upto == 1 .. i
             before == 1 .. i - 1
  <2>2. upto \in SUBSET (1 .. n) /\ upto # {} /\ Max(upto) = i /\ upto \ {i} = before
    BY <1>1, <2>1, LastOfPrefix
  <2>3. F[i] = J[upto] /\ F[i - 1] = J[before]
    <3> HIDE DEF F
    <3> QED BY <1>5, <2>1
  <2> HIDE DEF upto, before, F
  <2>4. J[upto] = J[before] + Size[list[i]]
    BY <1>4, <2>2
  <2> QED BY <2>3, <2>4
<1>8. F[0] = 0 /\ Bytes(list) = F[Len(list)]
      /\ \A i \in 1 .. Len(list) : F[i] = F[i - 1] + Size[list[i]]
  <2> HIDE DEF F
  <2> QED BY <1>2, <1>6, <1>7
<1> QED BY <1>8

(* One more message is its size in bytes more. *)
LEMMA BytesAdd ==
    ASSUME NEW list \in Seq(Ids), NEW id \in Ids
    PROVE  /\ Bytes(list) \in Nat
           /\ Bytes(Append(list, id)) = Bytes(list) + Size[id]
<1> DEFINE n == Len(list)
           longer == Append(list, id)
<1>1. /\ n \in Nat /\ longer \in Seq(Ids) /\ Len(longer) = n + 1 /\ longer[n + 1] = id
      /\ \A i \in 1 .. n : longer[i] = list[i] /\ Size[list[i]] \in Nat
  BY Sizes
<1> HIDE DEF longer
<1>2. PICK F : /\ F[0] = 0 /\ Bytes(list) = F[n]
               /\ \A i \in 1 .. n : F[i] = F[i - 1] + Size[list[i]]
  BY BytesFold
<1>3. PICK E : /\ E[0] = 0 /\ Bytes(longer) = E[n + 1]
               /\ \A i \in 1 .. n + 1 : E[i] = E[i - 1] + Size[longer[i]]
  BY <1>1, BytesFold
<1> HIDE DEF n
<1> DEFINE S == {i \in Nat : i <= n => F[i] \in Nat /\ E[i] = F[i]}
<1>4. 0 \in S
  BY <1>2, <1>3
<1>5. ASSUME NEW i \in Nat, i \in S PROVE i + 1 \in S
  <2> SUFFICES ASSUME i + 1 <= n PROVE F[i + 1] \in Nat /\ E[i + 1] = F[i + 1]
    OBVIOUS
  <2>1. i + 1 \in 1 .. n /\ i + 1 \in 1 .. n + 1 /\ (i + 1) - 1 = i /\ i <= n
    BY <1>1
  <2>2. F[i] \in Nat /\ E[i] = F[i]
    BY <1>5, <2>1
  <2>3. F[i + 1] = F[i] + Size[list[i + 1]] /\ E[i + 1] = E[i] + Size[longer[i + 1]]
    BY <1>2, <1>3, <2>1
  <2> QED BY <1>1, <2>1, <2>2, <2>3
<1>6. F[n] \in Nat /\ E[n] = F[n]
  <2>1. n \in S
    <3> HIDE DEF S
    <3> QED BY <1>1, <1>4, <1>5, EveryNumber
  <2> QED BY <1>1, <2>1
<1>7. E[n + 1] = E[n] + Size[id]
  <2>1. n + 1 \in 1 .. n + 1 /\ (n + 1) - 1 = n
    BY <1>1
  <2> QED BY <1>1, <1>3, <2>1
<1> QED BY <1>2, <1>3, <1>6, <1>7 DEF longer

(* An empty list has none. *)
LEMMA BytesNone == Bytes(<<>>) = 0
<1>1. <<>> \in Seq(Ids) /\ Len(<<>>) = 0
  OBVIOUS
<1>2. PICK F : F[0] = 0 /\ Bytes(<<>>) = F[Len(<<>>)]
  BY <1>1, BytesFold
<1> QED BY <1>1, <1>2

(* What the listed ones of the first n ids of a batch weigh, in places p. *)
Weigh(p, ids, n) ==
    LET f == CHOOSE f : Course(f, Nat, 0,
                               [i \in Nat |-> [v \in Nat |->
                                   IF i + 1 \in DOMAIN ids /\ p[ids[i + 1]] \in Listed
                                   THEN v + Size[ids[i + 1]] ELSE v]])
    IN f[n]

LEMMA Weighing ==
    ASSUME NEW p, NEW ids \in Seq(Ids)
    PROVE  /\ Weigh(p, ids, 0) = 0
           /\ \A n \in Nat : Weigh(p, ids, n) \in Nat
           /\ \A n \in Nat : n + 1 <= Len(ids) =>
                 Weigh(p, ids, n + 1) = IF p[ids[n + 1]] \in Listed
                                        THEN Weigh(p, ids, n) + Size[ids[n + 1]] ELSE Weigh(p, ids, n)
<1> DEFINE G == [i \in Nat |-> [v \in Nat |-> IF i + 1 \in DOMAIN ids /\ p[ids[i + 1]] \in Listed
                                              THEN v + Size[ids[i + 1]] ELSE v]]
           f == CHOOSE f : Course(f, Nat, 0, G)
<1>1. \A i \in DOMAIN ids : Size[ids[i]] \in Nat
  BY Sizes
<1>2. G \in [Nat -> [Nat -> Nat]]
  <2>1. \A i \in Nat, v \in Nat : (IF i + 1 \in DOMAIN ids /\ p[ids[i + 1]] \in Listed
                                   THEN v + Size[ids[i + 1]] ELSE v) \in Nat
    BY <1>1
  <2> QED BY <2>1
<1>3. \A i \in Nat, v \in Nat : G[i][v] = IF i + 1 \in DOMAIN ids /\ p[ids[i + 1]] \in Listed
                                          THEN v + Size[ids[i + 1]] ELSE v
  OBVIOUS
<1>4. \A n : Weigh(p, ids, n) = f[n]
  BY DEF Weigh
<1> HIDE DEF G
<1>5. Course(f, Nat, 0, G)
  BY <1>2, Recursion
<1> HIDE DEF f
<1>6. \A n \in Nat : n + 1 <= Len(ids) => n + 1 \in DOMAIN ids
  OBVIOUS
<1>7. \A n \in Nat : f[n] \in Nat /\ f[n + 1] = G[n][f[n]]
  BY <1>5 DEF Course
<1>8. f[0] = 0
  BY <1>5 DEF Course
<1>9. ASSUME NEW n \in Nat, n + 1 <= Len(ids)
      PROVE  f[n + 1] = IF p[ids[n + 1]] \in Listed THEN f[n] + Size[ids[n + 1]] ELSE f[n]
  BY <1>3, <1>6, <1>7, <1>9
<1>10. \A n \in Nat : n + 1 <= Len(ids) =>
          Weigh(p, ids, n + 1) = IF p[ids[n + 1]] \in Listed
                                 THEN Weigh(p, ids, n) + Size[ids[n + 1]] ELSE Weigh(p, ids, n)
  <2> TAKE n \in Nat
  <2> HAVE n + 1 <= Len(ids)
  <2>1. Weigh(p, ids, n + 1) = f[n + 1] /\ Weigh(p, ids, n) = f[n]
    BY <1>4
  <2> QED BY <1>9, <2>1
<1> QED BY <1>4, <1>7, <1>8, <1>10

(* More of them do not weigh less. *)
LEMMA WeighingGrows ==
    ASSUME NEW p, NEW ids \in Seq(Ids), NEW n \in Nat, n + 1 <= Len(ids)
    PROVE  Weigh(p, ids, n) <= Weigh(p, ids, n + 1)
<1>1. n + 1 \in DOMAIN ids
  OBVIOUS
<1>2. Size[ids[n + 1]] \in Nat
  BY <1>1, Sizes
<1>3. Weigh(p, ids, n) \in Nat
  BY Weighing
<1>4. Weigh(p, ids, n + 1) = IF p[ids[n + 1]] \in Listed
                             THEN Weigh(p, ids, n) + Size[ids[n + 1]] ELSE Weigh(p, ids, n)
  BY Weighing
<1> QED BY <1>2, <1>3, <1>4

-----------------------------------------------------------------------------
(* Who is written to. *)

(* The lists of a header, and what is made of two lists, are lists. *)
LEMMA Lists ==
    ASSUME NEW b \in Backends, NEW id \in Ids
    PROVE  List(Targets(Header[b][id])) /\ List(Header[b][id].to \o Header[b][id].cc)
<1> DEFINE to == Header[b][id].to
           cc == Header[b][id].cc
<1>1. List(Header[b][id].from) /\ List(Header[b][id].replyTo) /\ List(to) /\ List(cc)
  BY RequestsAssumption DEF RequestsAssumption
<1>2. List(Targets(Header[b][id]))
  BY <1>1 DEF Targets
<1> HIDE DEF to, cc
<1>3. List(to \o cc)
  <2> DEFINE both == to \o cc
  <2>1. /\ Len(to) \in Nat /\ Len(cc) \in Nat /\ DOMAIN to = 1 .. Len(to) /\ DOMAIN cc = 1 .. Len(cc)
        /\ to \in Seq(Range(to) \cup Range(cc)) /\ cc \in Seq(Range(to) \cup Range(cc))
    BY <1>1 DEF List
  <2>2. both \in Seq(Range(to) \cup Range(cc))
    BY <2>1
  <2>3. /\ DOMAIN both = 1 .. Len(both) /\ Len(both) \in Nat
    BY <2>2
  <2> HIDE DEF both
  <2>4. both = [i \in 1 .. Len(both) |-> both[i]] /\ \A i \in 1 .. Len(both) : both[i] \in Range(both)
    <3>1. \A S : both \in Seq(S) => both = [i \in 1 .. Len(both) |-> both[i]]
      OBVIOUS
    <3> QED BY <2>2, <2>3, <3>1 DEF Range
  <2>5. both \in Seq(Range(both))
    BY <2>3, <2>4
  <2> QED BY <2>5 DEF List, both
<1> QED BY <1>2, <1>3 DEF to, cc

(* Everybody a reply to o reaches is in m, once. *)
Reaches(m, o, self, all) ==
    LET to == Specs(Targets(o)) \ {self}
        cc == IF all THEN Specs(o.to \o o.cc) \ (to \cup {self}) ELSE {}
    IN /\ Specs(m.to) = to /\ Specs(m.cc) = cc
       /\ Len(m.to) = Cardinality(to) /\ Len(m.cc) = Cardinality(cc)

(* A reply goes to whom the original and the mode determine, each once. *)
LEMMA ReplyReaches ==
    ASSUME NEW b \in Backends, NEW id \in Ids, NEW self, NEW all \in BOOLEAN,
           DeriveReply(Header[b][id], self, all).ok
    PROVE  Reaches(DeriveReply(Header[b][id], self, all), Header[b][id], self, all)
<1> DEFINE o == Header[b][id]
           targets == Targets(o)
           rest == o.to \o o.cc
           none == {self}
           outTo == take(none, targets)
           gone == {self} \cup {addrSpec(outTo[i]) : i \in DOMAIN outTo}
           others == take(gone, rest)
           m == DeriveReply(o, self, all)
           to == Specs(targets) \ {self}
<1>1. m = [ok |-> TRUE, to |-> outTo, cc |-> IF all THEN others ELSE <<>>]
  BY Zenon DEF DeriveReply, NoMessage
<1>2. targets \in Seq(Range(targets)) /\ rest \in Seq(Range(rest))
  BY Lists DEF List
<1>3. gone = {self} \cup Specs(outTo)
  BY DEF Specs
<1> HIDE DEF targets, rest, none, gone, outTo, others, m
<1>4. Specs(outTo) = Specs(targets) \ none /\ Cardinality(Specs(outTo)) = Len(outTo)
  BY <1>2, TakeTakes DEF outTo
<1>5. Specs(others) = Specs(rest) \ gone /\ Cardinality(Specs(others)) = Len(others)
  BY <1>2, TakeTakes DEF others
<1>6. Specs(<<>>) = {} /\ Len(<<>>) = 0 /\ Cardinality({}) = 0
  BY FS_EmptySet DEF Specs
<1>7. m.to = outTo /\ m.cc = IF all THEN others ELSE <<>>
  BY <1>1
<1>8. to = Specs(outTo)
  BY <1>4 DEF none
<1>9. gone = to \cup {self}
  BY <1>3, <1>8
<1> DEFINE cc == IF all THEN Specs(rest) \ (to \cup {self}) ELSE {}
<1>10. Specs(m.to) = to /\ Len(m.to) = Cardinality(to)
  BY <1>4, <1>7, <1>8
<1>11. Specs(m.cc) = cc /\ Len(m.cc) = Cardinality(cc)
  <2>1. CASE all
    BY <1>5, <1>7, <1>9, <2>1
  <2>2. CASE ~all
    BY <1>6, <1>7, <2>2
  <2> QED BY <2>1, <2>2
<1> QED BY <1>10, <1>11 DEF m, rest, targets, Reaches

(* A forward goes to whom the caller named, each once. *)
LEMMA ForwardReaches ==
    ASSUME NEW o, NEW to, List(to), DeriveForward(o, to).ok
    PROVE  LET m == DeriveForward(o, to)
           IN /\ Specs(m.to) = Specs(to) /\ Specs(m.cc) = {}
              /\ Len(m.to) = Cardinality(Specs(to)) /\ Len(m.cc) = 0
<1> DEFINE none == {}
           dest == take(none, to)
           m == DeriveForward(o, to)
<1>1. m = [ok |-> TRUE, to |-> dest, cc |-> <<>>]
  BY Zenon DEF DeriveForward, NoMessage
<1> HIDE DEF m, none, dest
<1>2. Specs(dest) = Specs(to) \ none /\ Cardinality(Specs(dest)) = Len(dest)
  BY TakeTakes DEF List, dest
<1>3. Specs(<<>>) = {} /\ Len(<<>>) = 0
  BY DEF Specs
<1>4. m.to = dest /\ m.cc = <<>>
  BY <1>1
<1> QED BY <1>2, <1>3, <1>4 DEF m, none

(* A batch weighs the same wherever its messages are in the same places. *)
LEMMA WeighSame ==
    ASSUME NEW p, NEW pp, NEW ids \in Seq(Ids), \A i \in DOMAIN ids : pp[ids[i]] = p[ids[i]],
           NEW n \in Nat, n <= Len(ids)
    PROVE  Weigh(pp, ids, n) = Weigh(p, ids, n)
<1> DEFINE S == {k \in Nat : k <= Len(ids) => Weigh(pp, ids, k) = Weigh(p, ids, k)}
<1>1. 0 \in S
  BY Weighing
<1>2. ASSUME NEW k \in Nat, k \in S PROVE k + 1 \in S
  <2> SUFFICES ASSUME k + 1 <= Len(ids) PROVE Weigh(pp, ids, k + 1) = Weigh(p, ids, k + 1)
    OBVIOUS
  <2>1. k + 1 \in DOMAIN ids /\ k <= Len(ids)
    OBVIOUS
  <2>2. Weigh(pp, ids, k) = Weigh(p, ids, k) /\ pp[ids[k + 1]] = p[ids[k + 1]]
    BY <1>2, <2>1
  <2>3. /\ Weigh(p, ids, k + 1) = IF p[ids[k + 1]] \in Listed
                                  THEN Weigh(p, ids, k) + Size[ids[k + 1]] ELSE Weigh(p, ids, k)
        /\ Weigh(pp, ids, k + 1) = IF pp[ids[k + 1]] \in Listed
                                   THEN Weigh(pp, ids, k) + Size[ids[k + 1]] ELSE Weigh(pp, ids, k)
    BY Weighing
  <2> QED BY <2>2, <2>3
<1>3. n \in S
  <2> HIDE DEF S
  <2> QED BY <1>1, <1>2, EveryNumber
<1> QED BY <1>3

(* A part of a batch weighs no more than all of it. *)
LEMMA WeighsLess ==
    ASSUME NEW p, NEW ids \in Seq(Ids), NEW n \in Nat, n <= Len(ids)
    PROVE  Weigh(p, ids, n) <= Weigh(p, ids, Len(ids))
<1>0. \A i \in Nat : Weigh(p, ids, i) \in Nat
  BY Weighing
<1> DEFINE S == {k \in Nat : n <= k /\ k <= Len(ids) => Weigh(p, ids, n) <= Weigh(p, ids, k)}
<1>1. 0 \in S
  <2>1. n <= 0 => n = 0
    OBVIOUS
  <2>2. Weigh(p, ids, n) \in Nat
    BY Weighing
  <2> QED BY <2>1, <2>2
<1>2. ASSUME NEW k \in Nat, k \in S PROVE k + 1 \in S
  <2> SUFFICES ASSUME n <= k + 1, k + 1 <= Len(ids) PROVE Weigh(p, ids, n) <= Weigh(p, ids, k + 1)
    OBVIOUS
  <2>1. /\ Weigh(p, ids, n) \in Nat /\ Weigh(p, ids, k) \in Nat /\ Weigh(p, ids, k + 1) \in Nat
        /\ Weigh(p, ids, k) <= Weigh(p, ids, k + 1)
    <3>1. k + 1 \in Nat
      OBVIOUS
    <3>2. Weigh(p, ids, k) <= Weigh(p, ids, k + 1)
      BY WeighingGrows
    <3> QED BY <1>0, <3>1, <3>2
  <2>2. CASE n = k + 1
    BY <2>1, <2>2
  <2>3. CASE n # k + 1
    <3>1. n <= k /\ k <= Len(ids)
      BY <2>3
    <3> QED BY <1>2, <2>1, <3>1
  <2> QED BY <2>2, <2>3
<1>3. Len(ids) \in S
  <2>1. Len(ids) \in Nat
    OBVIOUS
  <2> HIDE DEF S
  <2> QED BY <1>1, <1>2, <2>1, EveryNumber
<1> QED BY <1>3

-----------------------------------------------------------------------------
(* What is known of the mail a request sends or fetches. *)

Derived(r) ==
    LET o == Header[r.via][r.ids[1]]
    IN IF r.tool = "reply" THEN DeriveReply(o, Self[r.self], r.all) ELSE DeriveForward(o, r.to)

Writes(r) == r.tool \in {"reply", "forward"}

(* What waits for its gate, and what passed it, is what was derived. *)
Addressed(r) ==
    /\ r.pc \in {"original", "derive"} => Writes(r)
    /\ r.pc = "enqueue" => r.asked /\ r.tool \notin Curations
    /\ r.pc \in {"gate", "enqueue"} /\ r.tool \notin Curations =>
          Writes(r) /\ r.message = Derived(r) /\ r.message.ok

(* While nothing of a batch moves, the total is what its messages weigh in the
   places p of its backend, and what was fetched weighs no more. *)
Measuring(p, r) ==
    r.tool = "fetch" /\ r.bulk /\ ~r.stirred =>
        /\ r.pc \notin {"locate", "stat", "work"} => r.total = 0
        /\ r.pc \in {"locate", "stat"} => r.total = Weigh(p, r.ids, r.at - 1)
        /\ r.pc = "stat" => r.path = p[r.ids[r.at]]
        /\ r.pc = "work" => /\ Weigh(p, r.ids, Len(r.ids)) <= Budget
                            /\ Bytes(r.done) <= Weigh(p, r.ids, r.at - 1)
        /\ Bytes(r.done) <= Budget

Known(p, r) == Addressed(r) /\ Measuring(p, r)

(* A message in the outbox is what its request derived, and was approved. *)
Sent(r, q) ==
    /\ r.pc = "over" /\ r.answer = "ok" /\ r.asked /\ Writes(r) /\ Len(r.ids) >= 1
    /\ q.message = Derived(r) /\ q.message.ok

Letters ==
    /\ \A q \in queued : q.by \in Callers /\ Sent(req[q.by], q)
    /\ \A q, other \in queued : other.by = q.by => other = q

Mailing == (\A c \in Callers : Known(box[req[c].via], req[c])) /\ Letters

(* A request that has fetched nothing is within the budget. *)
LEMMA NothingFetched ==
    ASSUME NEW r \in Requests, Fresh(r)
    PROVE  Bytes(r.done) <= Budget
BY BytesNone, RequestsAssumption DEF Fresh, RequestsAssumption

(* A step of one request that is not over, while nothing else changes. *)
LEMMA Onward ==
    ASSUME IInv, Mailing, NEW c \in Callers, NEW s, req[c].pc # "over",
           req' = [req EXCEPT ![c] = s], box' = box, queued' = queued, Known(box[s.via], s)
    PROVE  Mailing'
<1>1. \A d \in Callers : req'[d] = IF d = c THEN s ELSE req[d]
  BY DEF IInv, Placed
<1>2. \A d \in Callers : Known(box'[req'[d].via], req'[d])
  BY <1>1 DEF Mailing
<1>3. \A q \in queued : q.by \in Callers /\ q.by # c /\ Sent(req'[q.by], q)
  BY <1>1 DEF Mailing, Letters, Sent
<1>4. Letters'
  BY <1>3 DEF Mailing, Letters
<1> QED BY <1>2, <1>4 DEF Mailing

(* An answer keeps what was fetched. *)
LEMMA AnswerKnown ==
    ASSUME NEW p, NEW r \in Requests, NEW how, Measuring(p, r)
    PROVE  Known(p, Over(r, how))
<1> DEFINE s == Over(r, how)
<1>1. s.pc = "over" /\ s.total = 0 /\ s.done = r.done /\ s.tool = r.tool /\ s.bulk = r.bulk /\ s.stirred = r.stirred
  BY DEF Over, Requests
<1> HIDE DEF s
<1>2. Addressed(s)
  BY <1>1 DEF Addressed
<1>3. Measuring(p, s)
  BY <1>1, Zenon DEF Measuring
<1> QED BY <1>2, <1>3 DEF Known, s

(* A request that is answered as it stands. *)
LEMMA AnswerMails ==
    ASSUME IInv, Mailing, NEW c \in Callers, NEW how, Answer(c, how), req[c].pc # "over",
           box' = box, queued' = queued
    PROVE  Mailing'
<1> DEFINE s == Over(req[c], how)
<1>1. req[c] \in Requests /\ Measuring(box[req[c].via], req[c])
  BY DEF IInv, Placed, Mailing, Known
<1>2. s.via = req[c].via /\ req' = [req EXCEPT ![c] = s]
  BY <1>1 DEF Over, Requests, Answer, Set
<1>3. Known(box[s.via], s)
  BY <1>1, <1>2, AnswerKnown
<1> HIDE DEF s
<1> QED BY <1>2, <1>3, Onward

(* The blank a request starts from. *)
LEMMA BlankKnown == Backends # {} => \A p : Known(p, NoRequest)
<1> SUFFICES ASSUME Backends # {}, NEW p PROVE Known(p, NoRequest)
  OBVIOUS
<1>1. Bytes(NoRequest.done) <= Budget
  BY BlankFits, NothingFetched
<1>2. NoRequest.pc = "idle" /\ NoRequest.total = 0
  BY DEF NoRequest
<1> QED BY <1>1, <1>2, Zenon DEF Known, Addressed, Measuring

LEMMA ReceiveMails ==
    ASSUME IInv, Mailing, NEW c \in Callers, Receive(c)
    PROVE  Mailing'
<1> DEFINE Draft(tool, bulk, ids, all, to) ==
              [NoRequest EXCEPT !.tool = tool, !.bulk = bulk, !.ids = ids, !.all = all, !.to = to, !.cap = Cap[current]]
<1>1. PICK tool \in Tools, bulk \in BOOLEAN, ids \in Batches, all \in BOOLEAN, to \in Others :
          /\ bulk => tool \notin {"reply", "forward"}
          /\ ~bulk => Len(ids) = 1
          /\ all => tool = "reply"
          /\ tool # "forward" => to = <<>>
          /\ LET first == CASE tool \in {"reply", "forward"} -> "original"
                             [] tool \in Curations -> "gate"
                             [] OTHER -> "service"
             IN Set(c, IF batchIDs(c, bulk, ids) THEN [Draft(tool, bulk, ids, all, to) EXCEPT !.pc = first]
                       ELSE Over(Draft(tool, bulk, ids, all, to), "refused"))
  BY Zenon DEF Receive
<1> DEFINE r == Draft(tool, bulk, ids, all, to)
           goes(step) == [r EXCEPT !.pc = step]
<1>2. /\ req[c] \in Requests /\ current \in Backends /\ req[c].pc = "idle"
      /\ box' = box /\ queued' = queued
  BY DEF IInv, Placed, Receive
<1>3. NoRequest \in Requests /\ Fresh(NoRequest) /\ Cap[current] \in Nat /\ ids \in Seq(Ids)
  BY <1>2, BlankFits, RequestsAssumption DEF RequestsAssumption
<1>4. r \in Requests
  BY <1>3 DEF Requests
<1>5. r.done = <<>> /\ r.failed = <<>> /\ r.tool = tool /\ r.pc = "idle" /\ r.total = 0
  BY DEF NoRequest
<1>6. Bytes(r.done) <= Budget
  BY <1>4, <1>5, NothingFetched DEF Fresh
<1> HIDE DEF r
<1>7. CASE ~batchIDs(c, bulk, ids)
  <2> DEFINE s == Over(r, "refused")
  <2>1. Set(c, s)
    BY <1>1, <1>7 DEF r
  <2>2. \A p : Measuring(p, r)
    BY <1>5, <1>6, Zenon DEF Measuring
  <2>3. Known(box[s.via], s)
    BY <1>4, <2>2, AnswerKnown
  <2> HIDE DEF s
  <2> QED BY <1>2, <2>1, <2>3, Onward DEF Set
<1>8. CASE batchIDs(c, bulk, ids)
  <2>1. PICK step \in {"original", "gate", "service"} :
            /\ Set(c, goes(step))
            /\ step = "original" => tool \in {"reply", "forward"}
            /\ step = "gate" => tool \in Curations
    <3> DEFINE first == CASE tool \in {"reply", "forward"} -> "original"
                          [] tool \in Curations -> "gate"
                          [] OTHER -> "service"
    <3>1. Set(c, goes(first))
      BY <1>1, <1>8, Zenon DEF r
    <3>2. /\ first \in {"original", "gate", "service"}
          /\ first = "original" => tool \in {"reply", "forward"}
          /\ first = "gate" => tool \in Curations
      BY DEF Curations
    <3> HIDE DEF first
    <3> QED BY <3>1, <3>2
  <2> DEFINE s == goes(step)
  <2>2. s.pc = step /\ s.done = r.done /\ s.tool = tool /\ s.total = 0
    BY <1>4, <1>5 DEF Requests
  <2>3. Set(c, s)
    BY <2>1
  <2> HIDE DEF s, goes
  <2>4. Addressed(s)
    BY <2>1, <2>2 DEF Addressed, Writes
  <2>5. \A p : Measuring(p, s)
    BY <1>6, <2>1, <2>2 DEF Measuring
  <2> QED BY <1>2, <2>3, <2>4, <2>5, Onward DEF Set, Known
<1> QED BY <1>7, <1>8

LEMMA OriginalMails ==
    ASSUME IInv, Mailing, NEW c \in Callers, Original(c)
    PROVE  Mailing'
<1> DEFINE r == req[c]
           s == [r EXCEPT !.via = current, !.pc = "derive"]
<1>1. r \in Requests /\ Addressed(r) /\ r.pc = "original" /\ box' = box /\ queued' = queued
  BY DEF IInv, Placed, Mailing, Known, Original
<1>2. CASE Answer(c, "refused")
  BY <1>1, <1>2, AnswerMails
<1>3. CASE Set(c, s)
  <2>1. s.pc = "derive" /\ s.tool = r.tool
    BY <1>1 DEF Requests
  <2> HIDE DEF s
  <2>2. Addressed(s) /\ Writes(s)
    BY <1>1, <2>1 DEF Addressed, Writes
  <2>3. \A p : Measuring(p, s)
    BY <2>2 DEF Measuring, Writes
  <2> QED BY <1>1, <1>3, <2>2, <2>3, Onward DEF Set, Known
<1> QED BY <1>2, <1>3 DEF Original

LEMMA DeriveMails ==
    ASSUME IInv, Mailing, NEW c \in Callers, Derive(c)
    PROVE  Mailing'
<1> DEFINE r == req[c]
           o == Header[r.via][r.ids[1]]
           m == IF r.tool = "reply" THEN DeriveReply(o, Self[sender], r.all) ELSE DeriveForward(o, r.to)
           s == [r EXCEPT !.message = m, !.self = sender, !.pc = "gate"]
<1>1. r \in Requests /\ Addressed(r) /\ r.pc = "derive" /\ box' = box /\ queued' = queued
  BY DEF IInv, Placed, Mailing, Known, Derive
<1>2. CASE Answer(c, "refused")
  BY <1>1, <1>2, AnswerMails
<1>3. CASE m.ok /\ Set(c, s)
  <2>1. /\ s.pc = "gate" /\ s.message = m /\ s.tool = r.tool /\ s.ids = r.ids /\ s.all = r.all /\ s.to = r.to
        /\ s.via = r.via /\ s.self = sender
    <3> HIDE DEF m
    <3> QED BY <1>1 DEF Requests
  <2>2. s.message = m /\ s.pc = "gate" /\ s.tool = r.tool
    BY <2>1
  <2> HIDE DEF s
  <2>3. Derived(s) = m /\ Writes(s)
    <3>1. Derived(s) = m
      BY <2>1, Zenon DEF Derived
    <3> QED BY <1>1, <2>1, <3>1 DEF Addressed, Writes
  <2> HIDE DEF m
  <2>4. Addressed(s)
    BY <1>3, <2>2, <2>3 DEF Addressed
  <2>5. \A p : Measuring(p, s)
    BY <2>3 DEF Measuring, Writes
  <2> QED BY <1>1, <1>3, <2>4, <2>5, Onward DEF Set, Known
<1> QED BY <1>2, <1>3 DEF Derive

LEMMA GateMails ==
    ASSUME IInv, Mailing, NEW c \in Callers, Gate(c)
    PROVE  Mailing'
<1> DEFINE r == req[c]
           s == [r EXCEPT !.asked = TRUE, !.pc = IF r.tool \in Curations THEN "service" ELSE "enqueue"]
<1>1. r \in Requests /\ Addressed(r) /\ r.pc = "gate" /\ box' = box /\ queued' = queued
  BY DEF IInv, Placed, Mailing, Known, Gate
<1>2. CASE Answer(c, "declined")
  BY <1>1, <1>2, AnswerMails
<1>3. CASE Set(c, s)
  <2>1. /\ s.pc = IF r.tool \in Curations THEN "service" ELSE "enqueue"
        /\ s.asked = TRUE /\ s.message = r.message /\ s.tool = r.tool
        /\ s.ids = r.ids /\ s.all = r.all /\ s.to = r.to
        /\ s.via = r.via /\ s.self = r.self
    BY <1>1 DEF Requests
  <2> HIDE DEF s
  <2>2. Derived(s) = Derived(r) /\ (Writes(s) <=> Writes(r))
    BY <2>1, Zenon DEF Derived, Writes
  <2>3. Addressed(s)
    BY <1>1, <2>1, <2>2 DEF Addressed
  <2>4. s.tool # "fetch"
    BY <1>1, <2>1 DEF Addressed, Writes, Curations
  <2>5. \A p : Measuring(p, s)
    BY <2>4 DEF Measuring
  <2> QED BY <1>1, <1>3, <2>3, <2>5, Onward DEF Set, Known
<1> QED BY <1>2, <1>3 DEF Gate

LEMMA EnqueueMails ==
    ASSUME IInv, Mailing, NEW c \in Callers, Enqueue(c)
    PROVE  Mailing'
<1> DEFINE r == req[c]
           s == Over(r, "ok")
           letter == [by |-> c, message |-> r.message]
<1>1. r \in Requests /\ Known(box[r.via], r) /\ r.pc = "enqueue" /\ box' = box /\ Len(r.ids) >= 1
  BY DEF IInv, Placed, Sound, Passed, Mailing, Enqueue
<1>2. CASE Answer(c, "refused") /\ queued' = queued
  BY <1>1, <1>2, AnswerMails
<1>3. CASE queued' = queued \cup {letter} /\ Answer(c, "ok")
  <2>1. req' = [req EXCEPT ![c] = s]
    BY <1>3 DEF Answer, Set
  <2>2. /\ s.pc = "over" /\ s.answer = "ok" /\ s.asked = r.asked /\ s.tool = r.tool /\ s.ids = r.ids
        /\ s.all = r.all /\ s.to = r.to /\ s.via = r.via /\ s.self = r.self
    BY <1>1 DEF Over, Requests
  <2>3. Known(box[s.via], s)
    BY <1>1, <2>2, AnswerKnown DEF Known
  <2>4. letter.by = c /\ letter.message = r.message
    OBVIOUS
  <2> HIDE DEF s, letter
  <2>5. Derived(s) = Derived(r) /\ (Writes(s) <=> Writes(r))
    BY <2>2, Zenon DEF Derived, Writes
  <2>6. Sent(s, letter)
    BY <1>1, <2>2, <2>4, <2>5 DEF Sent, Known, Addressed
  <2>7. \A d \in Callers : req'[d] = IF d = c THEN s ELSE req[d]
    BY <2>1 DEF IInv, Placed
  <2>8. \A q \in queued : q.by \in Callers /\ q.by # c /\ Sent(req'[q.by], q)
    BY <1>1, <2>7 DEF Mailing, Letters, Sent
  <2>9. Letters'
    BY <1>3, <2>4, <2>6, <2>7, <2>8 DEF Mailing, Letters
  <2>10. \A d \in Callers : Known(box'[req'[d].via], req'[d])
    BY <1>1, <2>3, <2>7 DEF Mailing
  <2> QED BY <2>9, <2>10 DEF Mailing
<1> QED BY <1>2, <1>3 DEF Enqueue, Planned

LEMMA ServiceMails ==
    ASSUME IInv, Mailing, NEW c \in Callers, Service(c) \/ Switch(c) \/ Limit(c)
    PROVE  Mailing'
<1> DEFINE r == req[c]
           goes(step, via) == [r EXCEPT !.via = via, !.pc = step]
<1>1. /\ r \in Requests /\ Sound(r) /\ Known(box[r.via], r) /\ r.pc \in {"service", "switch", "limit"}
      /\ box' = box /\ queued' = queued /\ r.via \in Backends /\ current \in Backends
  BY DEF IInv, Placed, Mailing, Service, Switch, Limit, Requests
<1>2. Fresh(r) /\ r.at = 1 /\ r.ids \in Seq(Ids)
  BY <1>1 DEF Sound, Requests
<1>3. CASE Answer(c, "refused")
  BY <1>1, <1>3, AnswerMails
<1>4. CASE \E step \in {"switch", "limit", "locate", "work"}, via \in Backends :
              Set(c, goes(step, via)) /\ (step = "work" => r.tool # "fetch" \/ ~r.bulk)
  <2>1. PICK step \in {"switch", "limit", "locate", "work"}, via \in Backends :
            Set(c, goes(step, via)) /\ (step = "work" => r.tool # "fetch" \/ ~r.bulk)
    BY <1>4
  <2> DEFINE s == goes(step, via)
             p == box[s.via]
  <2>2. /\ s.pc = step /\ s.tool = r.tool /\ s.bulk = r.bulk /\ s.stirred = r.stirred
        /\ s.total = r.total /\ s.done = r.done /\ s.ids = r.ids /\ s.at = 1
    BY <1>1, <1>2 DEF Requests
  <2>3. Set(c, s)
    BY <2>1
  <2> HIDE DEF s, goes, p
  <2>4. Addressed(s)
    BY <2>1, <2>2 DEF Addressed
  <2>5. Weigh(p, s.ids, s.at - 1) = 0 /\ Bytes(s.done) <= Budget
    <3>1. s.at - 1 = 0
      BY <2>2
    <3>2. Weigh(p, s.ids, 0) = 0
      BY <1>2, <2>2, Weighing
    <3> QED BY <1>1, <1>2, <2>2, <3>1, <3>2, NothingFetched
  <2>6. Measuring(p, s)
    BY <1>1, <2>1, <2>2, <2>5 DEF Measuring, Known
  <2> QED BY <1>1, <2>3, <2>4, <2>6, Onward DEF Set, Known, p
<1>5. \/ Answer(c, "refused")
      \/ \E step \in {"switch", "limit", "locate", "work"}, via \in Backends :
              Set(c, goes(step, via)) /\ (step = "work" => r.tool # "fetch" \/ ~r.bulk)
  <2>1. \A step : Goto(c, step) => Set(c, goes(step, r.via))
    <3>1. \A step : [r EXCEPT !.pc = step] = goes(step, r.via)
      BY <1>1 DEF Requests
    <3> QED BY <3>1 DEF Goto
  <2>2. CASE Service(c)
    BY <1>1, <2>1, <2>2 DEF Service
  <2>3. CASE Switch(c)
    BY <1>1, <2>3 DEF Switch
  <2>4. CASE Limit(c)
    BY <1>1, <2>1, <2>4 DEF Limit
  <2> QED BY <2>2, <2>3, <2>4
<1> QED BY <1>3, <1>4, <1>5

LEMMA LocateMails ==
    ASSUME IInv, Mailing, NEW c \in Callers, Locate(c)
    PROVE  Mailing'
<1> DEFINE r == req[c]
           p == box[r.via]
           place == p[r.ids[r.at]]
           s == [r EXCEPT !.path = place, !.pc = "stat"]
<1>1. r \in Requests /\ Known(p, r) /\ r.pc = "locate" /\ box' = box /\ queued' = queued /\ Set(c, s)
  BY DEF IInv, Placed, Mailing, Locate
<1>2. /\ s.pc = "stat" /\ s.path = place /\ s.tool = r.tool /\ s.bulk = r.bulk /\ s.stirred = r.stirred
      /\ s.total = r.total /\ s.done = r.done /\ s.ids = r.ids /\ s.at = r.at /\ s.via = r.via
  BY <1>1 DEF Requests
<1>3. place = p[s.ids[s.at]]
  BY <1>2
<1> HIDE DEF s, place, p
<1>4. Addressed(s)
  BY <1>2 DEF Addressed
<1>5. Measuring(p, s)
  BY <1>1, <1>2, <1>3 DEF Measuring, Known
<1>6. p = box[s.via]
  BY <1>2 DEF p
<1> QED BY <1>1, <1>4, <1>5, <1>6, Onward DEF Set, Known

LEMMA StatMails ==
    ASSUME IInv, Mailing, NEW c \in Callers, Stat(c)
    PROVE  Mailing'
<1> DEFINE r0 == req[c]
           p == box[r0.via]
           r == [r0 EXCEPT !.total = Measured(r0)]
           goes(at, step) == [r EXCEPT !.at = at, !.pc = step]
<1>1. r0 \in Requests /\ Sound(r0) /\ Known(p, r0) /\ r0.pc = "stat" /\ box' = box /\ queued' = queued
  BY DEF IInv, Placed, Mailing, Stat
<1>2. /\ Fresh(r0) /\ r0.at <= Len(r0.ids) /\ r0.ids \in Seq(Ids) /\ r0.at \in Nat \ {0}
      /\ Len(r0.ids) \in Nat /\ r0.total \in Nat
  BY <1>1 DEF Sound, Requests
<1> DEFINE id == r0.ids[r0.at]
           measured == Measured(r0)
           quiet == r0.tool = "fetch" /\ r0.bulk /\ ~r0.stirred
<1>3. measured = IF r0.path \in Listed /\ p[id] = r0.path THEN r0.total + Size[id] ELSE r0.total
  BY DEF Measured
<1>4. quiet => measured = Weigh(p, r0.ids, r0.at)
  <2> SUFFICES ASSUME quiet PROVE measured = Weigh(p, r0.ids, r0.at)
    OBVIOUS
  <2>1. r0.total = Weigh(p, r0.ids, r0.at - 1) /\ r0.path = p[id]
    BY <1>1 DEF Known, Measuring
  <2>2. r0.at - 1 \in Nat /\ (r0.at - 1) + 1 = r0.at
    BY <1>2
  <2> DEFINE n == r0.at - 1
  <2>3. Weigh(p, r0.ids, n + 1) = IF p[r0.ids[n + 1]] \in Listed
                                  THEN Weigh(p, r0.ids, n) + Size[r0.ids[n + 1]] ELSE Weigh(p, r0.ids, n)
    <3> HIDE DEF n, p
    <3> QED BY <1>2, <2>2, Weighing DEF n
  <2> HIDE DEF measured, p
  <2> QED BY <1>3, <2>1, <2>2, <2>3
<1>5. /\ measured \in Nat
      /\ r.pc = "stat" /\ r.ids = r0.ids /\ r.bulk = r0.bulk /\ r.tool = r0.tool /\ r.done = r0.done
      /\ r.at = r0.at /\ r.via = r0.via /\ r.stirred = r0.stirred /\ r.total = measured /\ r \in Requests
  <2>1. measured \in Nat
    <3>1. id \in Ids
      BY <1>2
    <3> HIDE DEF measured, id, p
    <3> QED BY <1>2, <1>3, <3>1, Sizes
  <2> HIDE DEF measured
  <2> QED BY <1>1, <2>1 DEF Requests, measured
<1>6. \/ Answer(c, "refused")
      \/ Set(c, Over(r, "refused"))
      \/ r.at < Len(r.ids) /\ Set(c, goes(r.at + 1, "locate"))
      \/ ~(r.at < Len(r.ids)) /\ r.total <= Budget /\ Set(c, goes(1, "work"))
  <2>1. \/ Answer(c, "refused")
        \/ Set(c, Over(r, "refused"))
        \/ r.at < Len(r.ids) /\ Set(c, [r EXCEPT !.at = @ + 1, !.pc = "locate"])
        \/ ~(r.at < Len(r.ids)) /\ ~(r.total > Budget) /\ Set(c, goes(1, "work"))
    BY Zenon DEF Stat
  <2>2. [r EXCEPT !.at = @ + 1, !.pc = "locate"] = goes(r.at + 1, "locate")
    OBVIOUS
  <2>3. r.total \in Nat /\ Budget \in Nat
    BY <1>5, RequestsAssumption DEF RequestsAssumption
  <2>4. ~(r.total > Budget) => r.total <= Budget
    BY <2>3
  <2> HIDE DEF r
  <2> QED BY <2>1, <2>2, <2>4
<1>7. Bytes(r0.done) <= Budget /\ Bytes(r0.done) = 0
  BY <1>1, <1>2, NothingFetched, BytesNone DEF Fresh
<1> HIDE DEF r, measured, p, id
<1>8. CASE Set(c, Over(r, "refused"))
  <2>1. Over(r, "refused").via = r0.via
    BY <1>5 DEF Over, Requests
  <2>2. Known(p, Over(r, "refused"))
    <3> DEFINE s == Over(r, "refused")
    <3>1. s.pc = "over" /\ s.total = 0 /\ s.done = r.done
      BY <1>5 DEF Over, Requests
    <3> HIDE DEF s
    <3>2. Addressed(s)
      BY <3>1 DEF Addressed
    <3>3. Measuring(p, s)
      BY <1>5, <1>7, <3>1 DEF Measuring
    <3> QED BY <3>2, <3>3 DEF Known, s
  <2> QED BY <1>1, <1>8, <2>1, <2>2, Onward DEF Set, p
<1>9. CASE r.at < Len(r.ids) /\ Set(c, goes(r.at + 1, "locate"))
  <2> DEFINE s == goes(r.at + 1, "locate")
  <2>1. /\ s.pc = "locate" /\ s.tool = r0.tool /\ s.bulk = r0.bulk /\ s.stirred = r0.stirred
        /\ s.total = measured /\ s.done = r0.done /\ s.ids = r0.ids /\ s.at = r0.at + 1 /\ s.via = r0.via
    BY <1>5 DEF Requests
  <2>2. s.at - 1 = r0.at
    BY <1>2, <2>1
  <2>3. Set(c, s)
    BY <1>9
  <2> HIDE DEF s, goes
  <2>4. Addressed(s)
    BY <2>1 DEF Addressed
  <2>5. Measuring(p, s)
    BY <1>4, <1>7, <2>1, <2>2 DEF Measuring
  <2> QED BY <1>1, <2>1, <2>3, <2>4, <2>5, Onward DEF Set, Known, p
<1>10. CASE ~(r.at < Len(r.ids)) /\ r.total <= Budget /\ Set(c, goes(1, "work"))
  <2> DEFINE s == goes(1, "work")
  <2>1. /\ s.pc = "work" /\ s.tool = r0.tool /\ s.bulk = r0.bulk /\ s.stirred = r0.stirred
        /\ s.done = r0.done /\ s.ids = r0.ids /\ s.at = 1 /\ s.via = r0.via
    BY <1>5 DEF Requests
  <2>2. s.at - 1 = 0 /\ r0.at = Len(r0.ids)
    BY <1>2, <1>5, <1>10, <2>1
  <2>3. Set(c, s)
    BY <1>10
  <2> HIDE DEF s, goes
  <2>4. Addressed(s)
    BY <2>1 DEF Addressed
  <2>5. Weigh(p, s.ids, s.at - 1) = 0
    <3>1. Weigh(p, s.ids, 0) = 0
      BY <1>2, <2>1, Weighing
    <3> QED BY <2>2, <3>1
  <2>6. quiet => Weigh(p, s.ids, Len(s.ids)) <= Budget
    BY <1>4, <1>5, <1>10, <2>1, <2>2
  <2>7. Measuring(p, s)
    BY <1>7, <2>1, <2>5, <2>6 DEF Measuring
  <2> QED BY <1>1, <2>1, <2>3, <2>4, <2>7, Onward DEF Set, Known, p
<1>11. CASE Answer(c, "refused")
  <2>1. r0.pc # "over"
    BY <1>1
  <2> HIDE DEF r0
  <2> QED BY <1>1, <1>11, <2>1, AnswerMails DEF r0
<1> QED BY <1>6, <1>8, <1>9, <1>10, <1>11

(* One more id of a batch is worked on: it was counted if it is fetched. *)
LEMMA WorkedKnown ==
    ASSUME NEW p, NEW r \in Requests, Sound(r), Known(p, r), r.pc = "work", NEW works \in BOOLEAN,
           works => p[r.ids[r.at]] \in Listed
    PROVE  LET t == Record(r, works)
           IN Known(p, IF r.at < Len(r.ids) THEN [t EXCEPT !.at = @ + 1]
                       ELSE Over(t, IF works \/ r.bulk THEN "ok" ELSE "refused"))
<1> DEFINE t == Record(r, works)
           id == r.ids[r.at]
           how == IF works \/ r.bulk THEN "ok" ELSE "refused"
           quiet == r.tool = "fetch" /\ r.bulk /\ ~r.stirred
<1>1. /\ r.at <= Len(r.ids) /\ r.ids \in Seq(Ids) /\ r.at \in Nat \ {0} /\ Len(r.ids) \in Nat
      /\ r.done \in Seq(Ids) /\ r.failed \in Seq(Ids)
  BY DEF Sound, Requests
<1>2. id \in Ids
  BY <1>1
<1>3. Append(r.done, id) \in Seq(Ids) /\ Append(r.failed, id) \in Seq(Ids)
  BY <1>1, <1>2
<1>4. /\ t \in Requests /\ t.pc = "work" /\ t.at = r.at /\ t.ids = r.ids /\ t.tool = r.tool /\ t.bulk = r.bulk
      /\ t.stirred = r.stirred /\ t.done = IF works THEN Append(r.done, id) ELSE r.done
  <2>1. CASE works
    BY <1>3, <2>1 DEF Record, Requests
  <2>2. CASE ~works
    BY <1>3, <2>2 DEF Record, Requests
  <2> QED BY <2>1, <2>2
<1> HIDE DEF t
<1>5. quiet => Bytes(t.done) <= Weigh(p, r.ids, r.at) /\ Weigh(p, r.ids, r.at) <= Weigh(p, r.ids, Len(r.ids))
               /\ Weigh(p, r.ids, Len(r.ids)) <= Budget
  <2> SUFFICES ASSUME quiet
               PROVE  /\ Bytes(t.done) <= Weigh(p, r.ids, r.at)
                      /\ Weigh(p, r.ids, r.at) <= Weigh(p, r.ids, Len(r.ids))
                      /\ Weigh(p, r.ids, Len(r.ids)) <= Budget
    OBVIOUS
  <2> DEFINE n == r.at - 1
             before == Weigh(p, r.ids, n)
             after == Weigh(p, r.ids, n + 1)
  <2>1. Weigh(p, r.ids, Len(r.ids)) <= Budget /\ Bytes(r.done) <= before
    BY DEF Known, Measuring
  <2>2. n \in Nat /\ n + 1 = r.at /\ n + 1 <= Len(r.ids)
    BY <1>1
  <2> HIDE DEF n
  <2>3. after = IF p[r.ids[n + 1]] \in Listed THEN before + Size[r.ids[n + 1]] ELSE before
    BY <1>1, <2>2, Weighing
  <2>4. before \in Nat /\ after \in Nat /\ before <= after
    BY <1>1, <2>2, Weighing, WeighingGrows
  <2>5. Bytes(r.done) \in Nat /\ Bytes(Append(r.done, id)) = Bytes(r.done) + Size[id] /\ Size[id] \in Nat
    <3> HIDE DEF id
    <3> QED BY <1>1, <1>2, BytesAdd, Sizes
  <2>6. works => after = before + Size[id]
    BY <2>2, <2>3
  <2>7. after <= Weigh(p, r.ids, Len(r.ids))
    <3>1. r.at \in Nat
      BY <1>1
    <3>2. Weigh(p, r.ids, r.at) <= Weigh(p, r.ids, Len(r.ids))
      BY <1>1, <3>1, WeighsLess
    <3> QED BY <2>2, <3>2
  <2>8. Bytes(t.done) <= after
    <3> HIDE DEF before, after, id
    <3>1. CASE works
      BY <1>4, <2>1, <2>4, <2>5, <2>6, <3>1
    <3>2. CASE ~works
      BY <1>4, <2>1, <2>4, <2>5, <3>2
    <3> QED BY <3>1, <3>2
  <2> QED BY <2>1, <2>2, <2>7, <2>8
<1>6. quiet => Bytes(t.done) <= Budget
  <2>1. t.done \in Seq(Ids) /\ r.at \in Nat
    BY <1>1, <1>4 DEF Requests
  <2> DEFINE x == Bytes(t.done)
             y == Weigh(p, r.ids, r.at)
             z == Weigh(p, r.ids, Len(r.ids))
  <2>2. y \in Nat /\ z \in Nat
    BY <1>1, <2>1, Weighing
  <2>3. x \in Nat
    <3>1. PICK any \in Ids : TRUE
      BY <1>2
    <3> QED BY <2>1, <3>1, BytesAdd
  <2>4. Budget \in Nat
    BY RequestsAssumption DEF RequestsAssumption
  <2> HIDE DEF x, y, z
  <2> QED BY <1>5, <2>2, <2>3, <2>4 DEF x, y, z
<1>7. CASE r.at < Len(r.ids)
  <2> DEFINE s == [t EXCEPT !.at = @ + 1]
  <2>1. /\ s.pc = "work" /\ s.tool = r.tool /\ s.bulk = r.bulk /\ s.stirred = r.stirred
        /\ s.done = t.done /\ s.ids = r.ids /\ s.at = r.at + 1
    BY <1>4 DEF Requests
  <2>2. s.at - 1 = r.at
    BY <1>1, <2>1
  <2> HIDE DEF s
  <2>3. Addressed(s)
    BY <2>1 DEF Addressed
  <2>4. Measuring(p, s)
    BY <1>5, <1>6, <2>1, <2>2 DEF Measuring
  <2> QED BY <1>7, <2>3, <2>4 DEF Known, s, t
<1>8. CASE ~(r.at < Len(r.ids))
  <2> DEFINE s == Over(t, how)
  <2>1. /\ s.pc = "over" /\ s.total = 0 /\ s.done = t.done /\ s.tool = r.tool /\ s.bulk = r.bulk
        /\ s.stirred = r.stirred
    BY <1>4 DEF Over, Requests
  <2> HIDE DEF s
  <2>2. Addressed(s)
    BY <2>1 DEF Addressed
  <2>3. Measuring(p, s)
    BY <1>6, <2>1 DEF Measuring
  <2> QED BY <1>8, <2>2, <2>3 DEF Known, s, t
<1> QED BY <1>7, <1>8

(* A message moves: a request that is reading it is stirred, every other one finds
   the messages of its batch where they were. *)
LEMMA StirKnown ==
    ASSUME NEW p, NEW pp, NEW r \in Requests, Known(p, r), Sound(r), NEW b, NEW moved,
           r.via # b => pp = p, \A i \in Ids : i # moved => pp[i] = p[i]
    PROVE  Known(pp, Stir(b, moved, r))
<1> DEFINE s == Stir(b, moved, r)
           flag == r.stirred \/ (r.via = b /\ r.pc \in {"locate", "stat", "work"} /\ moved \in Range(r.ids))
<1>1. flag \in BOOLEAN
  OBVIOUS
<1> HIDE DEF flag
<1>2. s = [r EXCEPT !.stirred = flag]
  BY DEF Stir, flag
<1>3. /\ s.pc = r.pc /\ s.tool = r.tool /\ s.bulk = r.bulk /\ s.stirred = flag /\ s.message = r.message
      /\ s.total = r.total /\ s.done = r.done /\ s.ids = r.ids /\ s.at = r.at /\ s.via = r.via
      /\ s.path = r.path /\ s.all = r.all /\ s.to = r.to /\ s.asked = r.asked /\ s.self = r.self
  BY <1>2 DEF Requests
<1> HIDE DEF s
<1>4. Addressed(s)
  <2>1. Derived(s) = Derived(r) /\ (Writes(s) <=> Writes(r))
    BY <1>3, Zenon DEF Derived, Writes
  <2> QED BY <1>3, <2>1 DEF Known, Addressed
<1>5. Measuring(pp, s)
  <2>1. CASE flag
    BY <1>3, <2>1 DEF Measuring
  <2>2. CASE ~flag /\ r.pc \notin {"locate", "stat", "work"}
    BY <1>3, <2>2 DEF Known, Measuring, flag
  <2>3. CASE ~flag /\ r.pc \in {"locate", "stat", "work"}
    <3>1. r.at <= Len(r.ids) /\ r.ids \in Seq(Ids) /\ r.at \in Nat \ {0} /\ Len(r.ids) \in Nat
      BY <2>3 DEF Sound, Requests
    <3>2. \A i \in DOMAIN r.ids : pp[r.ids[i]] = p[r.ids[i]]
      <4> TAKE i \in DOMAIN r.ids
      <4>1. r.ids[i] \in Ids
        BY <3>1
      <4>2. CASE r.via # b
        BY <4>2
      <4>3. CASE moved \notin Range(r.ids)
        <5>1. r.ids[i] # moved
          BY <4>3 DEF Range
        <5> QED BY <4>1, <5>1
      <4> QED BY <2>3, <4>2, <4>3 DEF flag
    <3>3. \A n \in Nat : n <= Len(r.ids) => Weigh(pp, r.ids, n) = Weigh(p, r.ids, n)
      BY <3>1, <3>2, WeighSame
    <3>4. Weigh(pp, r.ids, r.at - 1) = Weigh(p, r.ids, r.at - 1) /\ Weigh(pp, r.ids, Len(r.ids)) = Weigh(p, r.ids, Len(r.ids))
      <4>1. r.at - 1 \in Nat /\ r.at - 1 <= Len(r.ids) /\ Len(r.ids) <= Len(r.ids)
        BY <3>1
      <4> QED BY <3>1, <3>3, <4>1
    <3>5. pp[r.ids[r.at]] = p[r.ids[r.at]]
      BY <3>1, <3>2
    <3> QED BY <1>3, <2>3, <3>4, <3>5 DEF Known, Measuring, flag
  <2> QED BY <2>1, <2>2, <2>3
<1> QED BY <1>4, <1>5 DEF Known, s

(* What was sent stays true of a request that is stirred. *)
LEMMA StirSent ==
    ASSUME NEW r \in Requests, NEW b, NEW moved, NEW q, Sent(r, q)
    PROVE  Sent(Stir(b, moved, r), q)
<1> DEFINE s == Stir(b, moved, r)
<1>1. /\ s.pc = r.pc /\ s.tool = r.tool /\ s.answer = r.answer
      /\ s.ids = r.ids /\ s.all = r.all /\ s.to = r.to /\ s.asked = r.asked
      /\ s.via = r.via /\ s.self = r.self
  BY DEF Stir, Requests
<1> HIDE DEF s
<1>2. Derived(s) = Derived(r) /\ (Writes(s) <=> Writes(r))
  BY <1>1, Zenon DEF Derived, Writes
<1> QED BY <1>1, <1>2 DEF Sent, s

LEMMA WorkMails ==
    ASSUME IInv, Mailing, NEW c \in Callers, Work(c)
    PROVE  Mailing'
<1> DEFINE r == req[c]
           id == r.ids[r.at]
           p == box[r.via]
           place == p[id]
           next(works) ==
               LET t == Record(r, works)
               IN IF r.at < Len(r.ids) THEN [t EXCEPT !.at = @ + 1]
                  ELSE Over(t, IF works \/ r.bulk THEN "ok" ELSE "refused")
           there(works) == IF works THEN Moved(r.tool, place) ELSE place
<1>1. PICK works \in BOOLEAN :
          /\ works => place \in Listed
          /\ box' = [box EXCEPT ![r.via][id] = there(works)]
          /\ req' = [d \in Callers |->
                        IF d = c THEN next(works)
                        ELSE IF there(works) # place THEN Stir(r.via, id, req[d]) ELSE req[d]]
  BY Zenon DEF Work
<1>2. /\ r \in Requests /\ Sound(r) /\ r.pc = "work" /\ queued' = queued
      /\ \A d \in Callers : req[d] \in Requests /\ Sound(req[d]) /\ Known(box[req[d].via], req[d])
      /\ box \in [Backends -> [Ids -> Places]]
  BY DEF IInv, Placed, Mailing, Work
<1>3. r.via \in Backends /\ id \in Ids
  BY <1>2 DEF Requests, Sound
<1> DEFINE s == next(works)
           to == there(works)
<1>4. Known(p, s) /\ s.via = r.via /\ s.tool = r.tool
  BY <1>1, <1>2, WorkedKnown, WorkedOn
<1>5. /\ box' = [box EXCEPT ![r.via][id] = to]
      /\ req' = [d \in Callers |->
                    IF d = c THEN s ELSE IF to # place THEN Stir(r.via, id, req[d]) ELSE req[d]]
  BY <1>1
<1>6. r.tool = "fetch" => to = place
  BY DEF Moved, Curations
<1>7. place = box[r.via][id] /\ p = box[r.via]
  OBVIOUS
<1> HIDE DEF s, to, place, p, next, there, id
<1>8. \A b \in Backends, i \in Ids : box'[b][i] = IF b = r.via /\ i = id THEN to ELSE box[b][i]
  BY <1>2, <1>3, <1>5
<1>9. to = place => box' = box
  BY <1>2, <1>3, <1>5, <1>7
<1>10. Known(box'[s.via], s)
  <2>1. CASE to = place
    BY <1>4, <1>7, <1>9, <2>1
  <2>2. CASE to # place
    <3>1. s.tool # "fetch"
      BY <1>4, <1>6, <2>2
    <3>2. \A pp : Measuring(pp, s)
      BY <3>1 DEF Measuring
    <3> QED BY <1>4, <3>2 DEF Known
  <2> QED BY <2>1, <2>2
<1>11. ASSUME NEW d \in Callers, d # c PROVE Known(box'[req'[d].via], req'[d])
  <2>1. CASE to = place
    BY <1>2, <1>5, <1>9, <1>11, <2>1
  <2>2. CASE to # place
    <3> DEFINE pd == box[req[d].via]
               pp == box'[req[d].via]
    <3>1. req'[d] = Stir(r.via, id, req[d])
      BY <1>5, <1>11, <2>2
    <3>2. req'[d].via = req[d].via /\ req[d].via \in Backends
      <4>1. req[d].via \in Backends
        BY <1>2 DEF Requests
      <4> QED BY <1>2, <3>1, <4>1, StirSound
    <3>3. /\ req[d].via # r.via => pp = pd
          /\ \A i \in Ids : i # id => pp[i] = pd[i]
      BY <1>2, <1>3, <1>5, <1>8, <3>2
    <3>4. Known(pd, req[d]) /\ req[d] \in Requests /\ Sound(req[d])
      BY <1>2
    <3> HIDE DEF pp, pd
    <3>5. Known(pp, Stir(r.via, id, req[d]))
      BY <3>3, <3>4, StirKnown
    <3> QED BY <3>1, <3>2, <3>5 DEF pp
  <2> QED BY <2>1, <2>2
<1>12. \A d \in Callers : Known(box'[req'[d].via], req'[d])
  BY <1>5, <1>10, <1>11
<1>13. \A q \in queued : q.by \in Callers /\ q.by # c /\ Sent(req'[q.by], q)
  <2> TAKE q \in queued
  <2>1. q.by \in Callers /\ Sent(req[q.by], q)
    BY DEF Mailing, Letters
  <2>2. q.by # c
    BY <1>2, <2>1 DEF Sent
  <2>3. Sent(Stir(r.via, id, req[q.by]), q)
    BY <1>2, <2>1, StirSent
  <2> QED BY <1>5, <2>1, <2>2, <2>3
<1>14. Letters'
  BY <1>2, <1>13 DEF Mailing, Letters
<1> QED BY <1>12, <1>14 DEF Mailing

LEMMA DeliverMails ==
    ASSUME IInv, Mailing, NEW b \in Backends, NEW id \in Ids, Deliver(b, id)
    PROVE  Mailing'
<1>1. /\ \A d \in Callers : req[d] \in Requests /\ Sound(req[d]) /\ Known(box[req[d].via], req[d])
      /\ box \in [Backends -> [Ids -> Places]]
      /\ box' = [box EXCEPT ![b][id] = "new"] /\ queued' = queued
      /\ req' = [c \in Callers |-> Stir(b, id, req[c])]
  BY DEF IInv, Placed, Mailing, Deliver
<1>2. ASSUME NEW d \in Callers PROVE Known(box'[req'[d].via], req'[d])
  <2> DEFINE pd == box[req[d].via]
             pp == box'[req[d].via]
  <2>1. req'[d] = Stir(b, id, req[d])
    BY <1>1
  <2>2. req'[d].via = req[d].via /\ req[d].via \in Backends
    BY <1>1, <2>1, StirSound DEF Requests
  <2>3. /\ req[d].via # b => pp = pd
        /\ \A i \in Ids : i # id => pp[i] = pd[i]
    BY <1>1, <2>2
  <2>4. Known(pd, req[d]) /\ req[d] \in Requests /\ Sound(req[d])
    BY <1>1
  <2> HIDE DEF pp, pd
  <2>5. Known(pp, Stir(b, id, req[d]))
    BY <2>3, <2>4, StirKnown
  <2> QED BY <2>1, <2>2, <2>5 DEF pp
<1>3. Letters'
  <2>1. \A q \in queued : q.by \in Callers /\ Sent(req'[q.by], q)
    <3> TAKE q \in queued
    <3>1. q.by \in Callers /\ Sent(req[q.by], q)
      BY DEF Mailing, Letters
    <3>2. Sent(Stir(b, id, req[q.by]), q)
      BY <1>1, <3>1, StirSent
    <3> QED BY <1>1, <3>1, <3>2
  <2> QED BY <1>1, <2>1 DEF Mailing, Letters
<1> QED BY <1>2, <1>3 DEF Mailing

LEMMA CancelMails ==
    ASSUME IInv, Mailing, NEW c \in Callers, Cancel(c)
    PROVE  Mailing'
BY AnswerMails DEF Cancel

LEMMA SwapMails ==
    ASSUME IInv, Mailing, SwapSender \/ \E b \in Backends : Swap(b)
    PROVE  Mailing'
BY DEF Mailing, Letters, Swap, SwapSender

(* It holds at first. *)
LEMMA InitMailing == Init => Mailing
<1> SUFFICES ASSUME Init PROVE Mailing
  OBVIOUS
<1>1. req = [c \in Callers |-> NoRequest] /\ queued = {} /\ Backends # {}
  BY DEF Init
<1>2. \A p : Known(p, NoRequest)
  BY <1>1, BlankKnown
<1>3. \A c \in Callers : Known(box[req[c].via], req[c])
  BY <1>1, <1>2
<1>4. Letters
  BY <1>1 DEF Letters
<1> QED BY <1>3, <1>4 DEF Mailing

(* Every step keeps it. *)
LEMMA NextMailing == IInv /\ Mailing /\ [Next]_vars => Mailing'
<1> SUFFICES ASSUME IInv, Mailing, [Next]_vars PROVE Mailing'
  OBVIOUS
<1>1. ASSUME NEW c \in Callers,
             \/ Receive(c) \/ Original(c) \/ Derive(c) \/ Gate(c) \/ Enqueue(c)
             \/ Service(c) \/ Switch(c) \/ Limit(c)
             \/ Locate(c) \/ Stat(c) \/ Work(c) \/ Cancel(c)
      PROVE  Mailing'
  BY <1>1, ReceiveMails, OriginalMails, DeriveMails, GateMails, EnqueueMails, ServiceMails, LocateMails, StatMails,
     WorkMails, CancelMails
<1>2. ASSUME NEW b \in Backends, NEW id \in Ids, Deliver(b, id) PROVE Mailing'
  BY <1>2, DeliverMails
<1>3. CASE SwapSender \/ \E b \in Backends : Swap(b)
  BY <1>3, SwapMails
<1>4. CASE UNCHANGED vars
  BY <1>4 DEF Mailing, Letters, vars
<1> QED BY <1>1, <1>2, <1>3, <1>4 DEF Next

(* What it implies for batches. *)
LEMMA BudgetFromMailing == Mailing => OnlyStirredMailEscapesTheBudget
<1> SUFFICES ASSUME Mailing, NEW c \in Callers, req[c].tool = "fetch", req[c].bulk, ~req[c].stirred
             PROVE  Bytes(req[c].done) <= Budget
  BY Zenon DEF OnlyStirredMailEscapesTheBudget, Bytes
<1> QED BY DEF Mailing, Known, Measuring

(* What it implies for the outbox. *)
LEMMA AudienceFromMailing == IInv /\ Mailing => AudienceAsApproved
<1> SUFFICES ASSUME IInv, Mailing, NEW q \in queued
             PROVE  LET r == req[q.by]
                        m == q.message
                        want == Audience(r, Header[r.via][r.ids[1]])
                    IN /\ r.asked /\ r.answer = "ok"
                       /\ Specs(m.to) = want.to /\ Specs(m.cc) = want.cc
                       /\ Len(m.to) + Len(m.cc) = Cardinality(want.to) + Cardinality(want.cc)
                       /\ \A other \in queued : other.by = q.by => other = q
  BY Zenon DEF AudienceAsApproved
<1> DEFINE r == req[q.by]
           m == q.message
           want == Audience(r, Header[r.via][r.ids[1]])
<1>1. /\ q.by \in Callers /\ Sent(r, q) /\ r \in Requests
      /\ \A other \in queued : other.by = q.by => other = q
  BY DEF Mailing, Letters, IInv, Placed
<1>2. r.asked /\ r.answer = "ok" /\ Writes(r) /\ m = Derived(r) /\ m.ok
  BY <1>1 DEF Sent
<1>3. /\ r.ids[1] \in Ids /\ r.via \in Backends /\ r.all \in BOOLEAN /\ r.to \in Others \cup {<<>>}
  BY <1>1 DEF Sent, Requests
<1> HIDE DEF want, m, r
<1>4. PICK b \in Backends, id \in Ids, all \in BOOLEAN, list \in Others \cup {<<>>},
         self \in {Self[r.self]} :
          b = r.via /\ id = r.ids[1] /\ all = r.all /\ list = r.to
  BY <1>3
<1>5. /\ Specs(m.to) = want.to /\ Specs(m.cc) = want.cc
      /\ Len(m.to) = Cardinality(want.to) /\ Len(m.cc) = Cardinality(want.cc)
  <2>1. CASE r.tool = "reply"
    <3> DEFINE to == Specs(Targets(Header[b][id])) \ {self}
               cc == IF all THEN Specs(Header[b][id].to \o Header[b][id].cc) \ (to \cup {self}) ELSE {}
    <3>1. want = [to |-> to, cc |-> cc]
      BY <1>4, <2>1 DEF Audience, want
    <3>2. m = DeriveReply(Header[b][id], self, all)
      BY <1>2, <1>4, <2>1 DEF Derived
    <3>3. DeriveReply(Header[b][id], self, all).ok
      BY <1>2, <3>2
    <3>4. Reaches(DeriveReply(Header[b][id], self, all), Header[b][id], self, all)
      BY <1>4, <3>3, ReplyReaches
    <3>5. Reaches(m, Header[b][id], self, all)
      BY <3>2, <3>4
    <3>6. /\ Specs(m.to) = to /\ Specs(m.cc) = cc
          /\ Len(m.to) = Cardinality(to) /\ Len(m.cc) = Cardinality(cc)
      BY <3>5 DEF Reaches
    <3> HIDE DEF to, cc
    <3> QED BY <3>1, <3>6
  <2>2. CASE r.tool = "forward"
    <3> DEFINE to == Specs(list)
               o == Header[b][id]
    <3>1. want = [to |-> to, cc |-> {}]
      BY <1>4, <2>2 DEF Audience, want
    <3>2. m = DeriveForward(o, list)
      BY <1>2, <1>4, <2>2 DEF Derived
    <3>3. List(list)
      <4>1. List(<<>>)
        BY DEF List
      <4> QED BY <1>4, <4>1, RequestsAssumption DEF RequestsAssumption
    <3> HIDE DEF o
    <3>4. DeriveForward(o, list).ok
      BY <1>2, <3>2
    <3>5. /\ Specs(m.to) = to /\ Specs(m.cc) = {}
          /\ Len(m.to) = Cardinality(to) /\ Len(m.cc) = 0
      BY <3>2, <3>3, <3>4, ForwardReaches
    <3>6. Cardinality({}) = 0
      BY FS_EmptySet
    <3> HIDE DEF to
    <3> QED BY <3>1, <3>5, <3>6
  <2> QED BY <1>2, <2>1, <2>2 DEF Writes
<1>6. Len(m.to) + Len(m.cc) = Cardinality(want.to) + Cardinality(want.cc)
  BY <1>5
<1> QED BY <1>1, <1>2, <1>5, <1>6 DEF want, m, r

-----------------------------------------------------------------------------
(* The theorems. *)

(* In every reachable state each request is sound where it stands, and moved
   messages and the requests that report them belong together (the handlers of
   mcpserver/server.go over Service and the backend). *)
THEOREM Invariance == Spec => []IInv
<1> QED BY InitIInv, NextIInv, PTL DEF Spec

(* One approval moves no more than a human was asked about, whatever is swapped
   in, delivered and asked for meanwhile (batchIDsLimit, confirmCuration). *)
THEOREM OneGesture == Spec => []OneGestureBounds
<1> QED BY Invariance, GestureFromIInv, PTL

(* The per-id report of a batch is exact, and a moved message is reported moved by
   exactly one request (bulkEach, Succeed, Fail). *)
THEOREM ReportsExact == Spec => []ReportIsExact
<1> QED BY Invariance, ReportFromIInv, PTL

(* In every reachable state what waits for its gate is what was derived, what is
   in the outbox was approved, and what a batch has fetched was weighed as long as
   nothing of it moved (queue, preflightFetch, Sizes). *)
THEOREM MailFollows == Spec => []Mailing
<1>1. Init => IInv /\ Mailing
  BY InitIInv, InitMailing
<1>2. (IInv /\ Mailing) /\ [Next]_vars => (IInv /\ Mailing)'
  BY NextIInv, NextMailing
<1> QED BY <1>1, <1>2, PTL DEF Spec

(* A batch of more bytes than MaxFetchBytes is only ever returned when a message
   of it moved after the measuring began (preflightFetch). *)
THEOREM BudgetHolds == Spec => []OnlyStirredMailEscapesTheBudget
<1> QED BY MailFollows, BudgetFromMailing, PTL

(* What reaches the outbox was approved, once for each request, and goes to exactly
   the people the original and the tool determine (DeriveReply, DeriveForward,
   ConfirmAction). *)
THEOREM AudienceApproved == Spec => []AudienceAsApproved
<1> QED BY Invariance, MailFollows, AudienceFromMailing, PTL

(* Requests, backends and messages are what they are declared to be, and nothing
   underivable is ever queued (queue, Switchable). *)
THEOREM TypeCorrect == Spec => []TypeOK
<1> DEFINE Swapped == swaps \in 0 .. MaxSwaps
<1>1. Init => Swapped
  BY RequestsAssumption DEF Init, RequestsAssumption
<1>2. Swapped /\ [Next]_vars => Swapped'
  <2> SUFFICES ASSUME Swapped, [Next]_vars PROVE Swapped'
    OBVIOUS
  <2>1. swaps' = swaps \/ (swaps < MaxSwaps /\ swaps' = swaps + 1)
    BY DEF Next, vars, Receive, Original, Derive, Gate, Enqueue, Service, Switch, Limit, Locate, Stat, Work, Cancel,
           Deliver, Swap, SwapSender
  <2> QED BY <2>1, RequestsAssumption DEF RequestsAssumption
<1>3. IInv /\ Mailing /\ Swapped => TypeOK
  <2> SUFFICES ASSUME IInv, Mailing, Swapped PROVE TypeOK
    OBVIOUS
  <2>1. /\ box \in [Backends -> [Ids -> Places]] /\ current \in Backends /\ sender \in Backends
        /\ DOMAIN req = Callers
        /\ \A c \in Callers : req[c] \in Requests
    BY DEF IInv, Placed
  <2>2. \A c \in Callers :
            /\ req[c].pc \in Phases /\ req[c].answer \in Answers
            /\ req[c].tool \in Tools /\ req[c].via \in Backends /\ req[c].self \in Backends /\ req[c].path \in Places
            /\ req[c].total \in Nat /\ req[c].cap \in Nat /\ req[c].at \in Nat \ {0}
    BY <2>1 DEF Requests
  <2>3. \A q \in queued : q.by \in Callers /\ q.message.ok
    BY DEF Mailing, Letters, Sent
  <2> QED BY <2>1, <2>2, <2>3 DEF TypeOK, Phases, Answers
<1> QED BY <1>1, <1>2, <1>3, Invariance, MailFollows, PTL DEF Spec
=============================================================================
