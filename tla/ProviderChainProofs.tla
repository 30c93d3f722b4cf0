------------------------- MODULE ProviderChainProofs -------------------------
(***************************************************************************)
(* The verdict of a chain of providers, the life of the directories and    *)
(* what is sent, for any table of providers, any edits of it, any number   *)
(* of requests, threads and hanging downloads, and any answers of the      *)
(* sites.                                                                  *)
(*                                                                         *)
(* The argument goes task by task: the rows a task has listed and not      *)
(* asked are apart from those that have answered (OrderInv), a task that   *)
(* fetches has found media that can be had (MediaInv), and a job is        *)
(* started once and handled by one worker (JobInv).                        *)
(***************************************************************************)
EXTENDS ProviderChain, WellFoundedInduction, TLAPS

Asking == {"want_extract", "want_fetch", "actor", "stream"} \cup InThread
Tried == Recoverable \cup {"unasked"}

OrderInv(r) ==
  /\ \A x, y \in task[r].rest : x.id = y.id => x = y
  /\ \A x \in task[r].rest : said[r][x.id] = "unasked"
  /\ task[r].pc \in {"none", "select"} =>
       task[r].rest = {} /\ \A p \in Providers : said[r][p] = "unasked"
  /\ task[r].pc = "turn" => task[r].rest # {} /\ \A p \in Providers : said[r][p] \in Tried
  /\ task[r].pc \in Asking \cup {"done"} => task[r].at \in Providers
  /\ task[r].pc \in Asking =>
       /\ said[r][task[r].at] = "unasked"
       /\ \A x \in task[r].rest : x.id # task[r].at
       /\ \A p \in Providers : said[r][p] \in Tried
  /\ task[r].pc = "raised" =>
       /\ \A p \in Providers \ {task[r].at} : said[r][p] \in Tried
       /\ (\E p \in Providers : said[r][p] # "unasked") => said[r][task[r].at] = task[r].last
       /\ task[r].last \in Recoverable => task[r].rest = {}

MediaInv(r) ==
  /\ task[r].pc \in {"want_fetch", "fetch", "stream"} => media[r] \notin {"private", "gone"}
  /\ task[r].pc = "done" => media[r] \notin {"private", "gone", "large"}

JobInv(r) ==
  /\ status[r] = "queued" => task[r].pc = "none" /\ ~delivered[r]
  /\ worker.req = r /\ worker.pc # "idle" => status[r] = "processing"
  /\ worker.req = r /\ worker.pc \in {"wait", "upload"} => ~delivered[r]
  /\ worker.req = r /\ worker.pc \in {"upload", "book"} => task[r].pc = "done"
  /\ delivered[r] => task[r].pc = "done"
  /\ delivered[r] /\ status[r] = "processing" => worker = [pc |-> "book", req |-> r]
  /\ task[r].pc \notin Over \cup {"none"} => dir[r] = "present"

ChainInv ==
  TypeOK /\ \A r \in Requests : OrderInv(r) /\ MediaInv(r) /\ JobInv(r)

----------------------------------------------------------------------------
(* The order of the rows.                                                  *)

\* A set of numbers has a least one.
LEMMA LeastNumber ==
  ASSUME NEW M, M \subseteq Nat, M # {}
  PROVE  \E m \in M : \A k \in M : m <= k
<1>1. PICK m \in M : \A k \in M : <<k, m>> \notin OpToRel(<, Nat)
  BY WFMin, NatLessThanWellFounded, Zenon
<1>2. \A k \in M : ~(k < m)
  BY <1>1, Zenon DEF OpToRel
<1>. QED
  BY <1>2

\* Every set of rows has a foremost one (providers_for_platform's ORDER BY).
LEMMA ForemostIn ==
  ASSUME NEW L, L \subseteq Listed, L # {}
  PROVE  Foremost(L) \in L
<1>0. \A p \in L : p.priority \in Nat /\ p.id \in Nat
  BY ChainAssumption DEF Listed
<1>. DEFINE M == {p.priority : p \in L}
            I(m) == {p.id : p \in {q \in L : q.priority = m}}
<1>1. PICK m \in M : \A k \in M : m <= k
  <2>1. M \subseteq Nat /\ M # {}
    BY <1>0
  <2>. QED
    BY <2>1, LeastNumber
<1>2. PICK i \in I(m) : \A k \in I(m) : i <= k
  <2>1. I(m) \subseteq Nat /\ I(m) # {}
    BY <1>0
  <2>. QED
    BY <2>1, LeastNumber
<1>3. PICK p \in L : p.priority = m /\ p.id = i
  OBVIOUS
<1>4. \A q \in L : p.priority < q.priority \/ (p.priority = q.priority /\ p.id <= q.id)
  <2>. SUFFICES ASSUME NEW q \in L, ~(p.priority < q.priority)
                PROVE  p.priority = q.priority /\ p.id <= q.id
    OBVIOUS
  <2>1. p.priority <= q.priority
    BY <1>1, <1>3
  <2>2. p.priority = q.priority
    BY <1>0, <2>1
  <2>. QED
    BY <1>2, <1>3, <2>2
<1>. QED
  BY <1>4 DEF Foremost

\* Whatever patterns a message contains, it becomes a code (_map_error).
LEMMA MapErrorType == \A M : MapError(M) \in Codes
<1>. SUFFICES ASSUME NEW M PROVE MapError(M) \in Codes
  OBVIOUS
<1>. DEFINE hits == {i \in DOMAIN ErrorPatterns : ErrorPatterns[i] \in M}
<1>1. DOMAIN ErrorPatterns = 1..6 /\ \A i \in 1..6 : ErrorPatterns[i] \in Codes
  BY DEF ErrorPatterns, Codes
<1>2. CASE hits = {}
  BY <1>2 DEF MapError, Codes
<1>3. CASE hits # {}
  <2>1. \E i \in hits : \A j \in hits : i <= j
    BY <1>1, <1>3, LeastNumber
  <2>2. (CHOOSE i \in hits : \A j \in hits : i <= j) \in hits
    BY <2>1
  <2>. QED
    BY <1>1, <1>3, <2>2 DEF MapError
<1>. QED
  BY <1>2, <1>3

----------------------------------------------------------------------------
(* The steps of a task.                                                    *)

Answers == [Providers -> Codes \cup {"unasked"}]

\* What every step of a download does: it moves one task that is under way.
Moved(r) ==
  /\ UNCHANGED <<panel, media, row, file, hung, worker>>
  /\ task[r].pc \notin Over \cup {"none"}
  /\ \E x \in Task : task' = [task EXCEPT ![r] = x]
  /\ \E y \in Answers : said' = [said EXCEPT ![r] = y]
  /\ OrderInv(r)' /\ MediaInv(r)'

LEMMA MovedKeeps ==
  ASSUME ChainInv, NEW r \in Requests, Moved(r)
  PROVE  ChainInv'
<1>1. TypeOK'
  BY DEF ChainInv, TypeOK, Moved, Answers, panel, row, file
<1>2. ASSUME NEW q \in Requests, q # r
      PROVE  OrderInv(q)' /\ MediaInv(q)' /\ JobInv(q)'
  <2>1. task'[q] = task[q] /\ said'[q] = said[q] /\ OrderInv(q) /\ MediaInv(q)
        /\ JobInv(q)
    BY <1>2 DEF ChainInv, TypeOK, Moved
  <2>2. UNCHANGED <<catalog, media, status, via, delivered, dir, worker>>
    BY DEF Moved, panel, row, file
  <2>3. OrderInv(q)'
    BY <2>1 DEF OrderInv
  <2>4. MediaInv(q)'
    BY <2>1, <2>2 DEF MediaInv
  <2>5. JobInv(q)'
    BY <2>1, <2>2 DEF JobInv
  <2>. QED
    BY <2>3, <2>4, <2>5
<1>3. JobInv(r)'
  <2>1. JobInv(r) /\ task[r].pc \notin Over \cup {"none"}
    BY DEF ChainInv, Moved
  <2>2. UNCHANGED <<catalog, media, status, via, delivered, dir, worker>>
    BY DEF Moved, panel, row, file
  <2>. QED
    BY <2>1, <2>2 DEF JobInv, Over
<1>. QED
  BY <1>1, <1>2, <1>3 DEF ChainInv, Moved

\* A provider answers with an error (the except clauses of the loop).
LEMMA RaiseMoved ==
  ASSUME ChainInv, NEW r \in Requests, NEW p \in Providers, NEW L, NEW c \in Codes,
         L \subseteq task[r].rest, \A x \in L : x.id # p, said[r][p] = "unasked",
         \A q \in Providers : said[r][q] \in Tried,
         task[r].pc \notin Over \cup {"none"}, Raise(r, p, L, c)
  PROVE  Moved(r)
<1>. DEFINE x == [rest |-> L, at |-> p, last |-> c,
                  pc |-> IF Continues(c) /\ L # {} THEN "turn" ELSE "raised"]
            y == [said[r] EXCEPT ![p] = c]
<1>1. /\ task' = [task EXCEPT ![r] = x] /\ said' = [said EXCEPT ![r] = y]
      /\ UNCHANGED <<panel, media, row, file, hung, worker>>
  BY DEF Raise, Step
<1>2. x \in Task
  BY DEF Task, Over, ChainInv, TypeOK
<1>3. y \in Answers
  BY DEF ChainInv, TypeOK, Answers
<1>4. task'[r] = x /\ said'[r] = y
  BY <1>1 DEF ChainInv, TypeOK
<1>5. /\ x.rest = L /\ x.at = p /\ x.last = c
      /\ \/ x.pc = "turn" /\ c \in Recoverable /\ L # {}
         \/ x.pc = "raised" /\ (c \notin Recoverable \/ L = {})
  BY DEF Continues
<1>6. \A q \in Providers : IF q = p THEN y[q] = c ELSE y[q] = said[r][q]
  BY DEF ChainInv, TypeOK
<1>7. \A z \in L : z.id \in Providers /\ z.id # p
  BY DEF ChainInv, TypeOK, Task, Listed
<1>. HIDE DEF x, y
<1>8. OrderInv(r)
  BY DEF ChainInv
<1>9. OrderInv(r)'
  <2>1. /\ \A z, w \in x.rest : z.id = w.id => z = w
        /\ \A z \in x.rest : y[z.id] = "unasked"
    BY <1>5, <1>6, <1>7, <1>8 DEF OrderInv
  <2>2. CASE x.pc = "turn"
    BY <1>4, <1>5, <1>6, <2>1, <2>2 DEF OrderInv, Asking, InThread, Tried
  <2>3. CASE x.pc = "raised"
    BY <1>4, <1>5, <1>6, <2>1, <2>3 DEF OrderInv, Asking, InThread
  <2>. QED
    BY <1>5, <2>2, <2>3
<1>11. MediaInv(r)'
  BY <1>4, <1>5 DEF MediaInv
<1>. QED
  BY <1>1, <1>2, <1>3, <1>9, <1>11 DEF Moved

LEMMA AnswerMoved ==
  ASSUME ChainInv, NEW r \in Requests, NEW c \in Codes, task[r].pc \in Asking, Answer(r, c)
  PROVE  Moved(r)
<1>1. /\ task[r].at \in Providers /\ said[r][task[r].at] = "unasked"
      /\ \A x \in task[r].rest : x.id # task[r].at
      /\ \A q \in Providers : said[r][q] \in Tried
  BY DEF ChainInv, OrderInv
<1>2. task[r].pc \notin Over \cup {"none"}
  BY DEF Asking, InThread, Over
<1>. QED
  BY <1>1, <1>2, RaiseMoved DEF Answer

LEMMA ProceedMoved ==
  ASSUME ChainInv, NEW r \in Requests, NEW pc \in Asking \cup {"done"}, task[r].pc \in Asking,
         Proceed(r, pc),
         pc \in {"want_fetch", "fetch", "stream"} => media[r] \notin {"private", "gone"},
         pc = "done" => media[r] \notin {"private", "gone", "large"}
  PROVE  Moved(r)
<1>. DEFINE x == [task[r] EXCEPT !.pc = pc]
<1>0. task[r] \in Task /\ said[r] \in Answers
  BY DEF ChainInv, TypeOK, Answers
<1>1. /\ task' = [task EXCEPT ![r] = x] /\ said' = [said EXCEPT ![r] = said[r]]
      /\ UNCHANGED <<panel, media, row, file, hung, worker>> /\ said' = said
  BY DEF Proceed, Step, ChainInv, TypeOK
<1>2. x \in Task /\ x.pc = pc /\ x.rest = task[r].rest /\ x.at = task[r].at
  BY <1>0 DEF Task, Asking, Over, InThread
<1>3. task'[r] = x
  BY <1>1 DEF ChainInv, TypeOK
<1>. HIDE DEF x
<1>4. OrderInv(r)'
  BY <1>1, <1>2, <1>3 DEF ChainInv, OrderInv, Asking, InThread
<1>6. MediaInv(r)'
  BY <1>1, <1>2, <1>3 DEF MediaInv
<1>. QED
  BY <1>0, <1>1, <1>2, <1>4, <1>6 DEF Moved, Asking, InThread, Over

LEMMA SelectMoved ==
  ASSUME ChainInv, NEW r \in Requests, Select(r)
  PROVE  Moved(r)
<1>. DEFINE rows == {Snapshot(p) : p \in Active}
            x == [task[r] EXCEPT !.rest = rows, !.pc = IF rows = {} THEN "raised" ELSE "turn",
                                 !.last = IF rows = {} THEN "provider_down" ELSE "none"]
<1>0. task[r] \in Task /\ said[r] \in Answers /\ task[r].pc = "select"
  BY DEF ChainInv, TypeOK, Answers, Select, At
<1>1. /\ task' = [task EXCEPT ![r] = x] /\ said' = [said EXCEPT ![r] = said[r]]
      /\ UNCHANGED <<panel, media, row, file, hung, worker>> /\ said' = said
  BY DEF Select, Step, ChainInv, TypeOK
<1>2. rows \subseteq Listed /\ \A z \in rows : z.id \in Active
  BY DEF Snapshot, Listed, Active, ChainInv, TypeOK, Row
<1>3. \A z, w \in rows : z.id = w.id => z = w
  BY DEF Snapshot
<1>. HIDE DEF rows
<1>4. /\ x \in Task /\ x.rest = rows
      /\ \/ x.pc = "raised" /\ rows = {}
         \/ x.pc = "turn" /\ rows # {}
  BY <1>0, <1>2 DEF Task, Over, Codes
<1>5. task'[r] = x
  BY <1>1 DEF ChainInv, TypeOK
<1>. HIDE DEF x
<1>6. \A p \in Providers : said[r][p] = "unasked"
  BY <1>0 DEF ChainInv, OrderInv
<1>7. OrderInv(r)'
  BY <1>1, <1>2, <1>3, <1>4, <1>5, <1>6 DEF OrderInv, Asking, InThread, Active, Tried
<1>9. MediaInv(r)'
  BY <1>4, <1>5 DEF MediaInv
<1>. QED
  BY <1>0, <1>1, <1>4, <1>7, <1>9 DEF Moved, Over

LEMMA TurnMoved ==
  ASSUME ChainInv, NEW r \in Requests, Turn(r)
  PROVE  Moved(r)
<1>. DEFINE p == Foremost(task[r].rest)
            L == task[r].rest \ {p}
<1>0. /\ task[r] \in Task /\ said[r] \in Answers /\ task[r].pc = "turn" /\ task[r].rest \subseteq Listed
      /\ OrderInv(r)
  BY DEF ChainInv, TypeOK, Answers, Turn, At, Task
<1>1. p \in task[r].rest
  BY <1>0, ForemostIn DEF OrderInv
<1>2. /\ p.id \in Providers /\ said[r][p.id] = "unasked"
      /\ \A z \in L : z.id # p.id
      /\ \A q \in Providers : said[r][q] \in Tried
  BY <1>0, <1>1 DEF Listed, OrderInv
<1>3. ASSUME NEW c \in Codes, Raise(r, p.id, L, c) PROVE Moved(r)
  BY <1>0, <1>2, <1>3, RaiseMoved DEF Over
<1>4. ASSUME NEW pc \in {"want_extract", "actor"},
             task' = [task EXCEPT ![r].rest = L, ![r].at = p.id, ![r].pc = pc],
             UNCHANGED said, Step(r)
      PROVE  Moved(r)
  <2>. HIDE DEF p, L
  <2>. DEFINE x == [task[r] EXCEPT !.rest = L, !.at = p.id, !.pc = pc]
  <2>0. L \subseteq task[r].rest
    BY DEF L
  <2>1. /\ task' = [task EXCEPT ![r] = x] /\ said' = [said EXCEPT ![r] = said[r]]
        /\ UNCHANGED <<panel, media, row, file, hung, worker>> /\ said' = said
    BY <1>4 DEF Step, ChainInv, TypeOK
  <2>2. x \in Task /\ x.pc = pc /\ x.rest = L /\ x.at = p.id
    BY <1>0, <1>2, <2>0 DEF Task
  <2>3. task'[r] = x
    BY <2>1 DEF ChainInv, TypeOK
  <2>. HIDE DEF x
  <2>4. OrderInv(r)'
    BY <1>0, <1>2, <2>0, <2>1, <2>2, <2>3 DEF OrderInv
  <2>6. MediaInv(r)'
    BY <2>2, <2>3 DEF MediaInv
  <2>. QED
    BY <1>0, <2>1, <2>2, <2>4, <2>6 DEF Moved, Over
<1>. HIDE DEF p, L
<1>. QED
  BY <1>3, <1>4 DEF Turn, p, L, Codes

LEMMA DownloadMoved ==
  ASSUME ChainInv, NEW r \in Requests, Download(r)
  PROVE  Moved(r)
<1>0. media[r] \in Kinds /\ MediaInv(r)
  BY ChainAssumption DEF ChainInv, TypeOK
<1>. USE DEF Asking, InThread
<1>1. CASE StartThread(r)
  BY <1>0, <1>1, ProceedMoved DEF StartThread, At, MediaInv
<1>2. CASE Extract(r)
  <2>1. task[r].pc = "extract"
    BY <1>2 DEF Extract, At
  <2>2. ASSUME NEW c \in Codes, Answer(r, c) PROVE Moved(r)
    BY <2>1, <2>2, AnswerMoved
  <2>3. CASE media[r] \notin {"private", "gone"} /\ Proceed(r, "want_fetch")
    BY <2>1, <2>3, ProceedMoved
  <2>. QED
    BY <1>2, <2>2, <2>3, MapErrorType DEF Extract, Codes
<1>3. CASE Fetch(r)
  <2>1. task[r].pc = "fetch"
    BY <1>3 DEF Fetch, At
  <2>2. ASSUME NEW c \in Codes, Answer(r, c) PROVE Moved(r)
    BY <2>1, <2>2, AnswerMoved
  <2>3. CASE Whole(r)
    BY <1>0, <2>1, <2>2, <2>3, ProceedMoved DEF Whole, MediaInv, Kinds, Codes
  <2>. QED
    BY <1>3, <2>2, <2>3, MapErrorType DEF Fetch, Codes
<1>4. CASE Actor(r)
  <2>1. task[r].pc = "actor"
    BY <1>4 DEF Actor, At
  <2>2. ASSUME NEW c \in Codes, Answer(r, c) PROVE Moved(r)
    BY <2>1, <2>2, AnswerMoved
  <2>3. CASE media[r] \notin {"private", "gone"} /\ Proceed(r, "stream")
    BY <2>1, <2>3, ProceedMoved
  <2>. QED
    BY <1>4, <2>2, <2>3 DEF Actor, Codes, Recoverable
<1>5. CASE Stream(r)
  <2>1. task[r].pc = "stream"
    BY <1>5 DEF Stream, At
  <2>2. ASSUME NEW c \in Codes, Answer(r, c) PROVE Moved(r)
    BY <2>1, <2>2, AnswerMoved
  <2>3. CASE Whole(r)
    BY <1>0, <2>1, <2>2, <2>3, ProceedMoved DEF Whole, MediaInv, Kinds, Codes
  <2>. QED
    BY <1>5, <2>2, <2>3 DEF Stream, Codes
<1>. QED
  BY <1>1, <1>2, <1>3, <1>4, <1>5, SelectMoved, TurnMoved DEF Download

----------------------------------------------------------------------------
(* The panel.                                                              *)

\* What an edit of the table leaves standing: a row stays known, a deleted one
\* deleted, and one that a request refers to is not deleted.
LEMMA PanelKeeps ==
  ASSUME ChainInv, NEW p \in Providers,
         CreateProvider(p) \/ PatchProvider(p) \/ DeleteProvider(p)
  PROVE  ChainInv'
<1>0. catalog \in [Providers -> Row] /\ edits' \in 0..MaxEdits
      /\ UNCHANGED <<media, row, file, task, said, hung, worker>>
  BY ChainAssumption DEF ChainInv, TypeOK, CreateProvider, PatchProvider, DeleteProvider, Edit
<1>1. catalog' \in [Providers -> Row]
  <2>1. CASE CreateProvider(p)
    BY <1>0, <2>1 DEF CreateProvider, Row
  <2>2. CASE catalog' = [catalog EXCEPT ![p].active = ~@]
    <3>1. [catalog[p] EXCEPT !.active = ~@] \in Row
      BY <1>0 DEF Row
    <3>2. catalog' = [catalog EXCEPT ![p] = [catalog[p] EXCEPT !.active = ~@]]
      BY <2>2, Zenon
    <3>. QED
      BY <1>0, <3>1, <3>2 DEF Row
  <2>3. ASSUME NEW k \in {"none", "good"}, catalog' = [catalog EXCEPT ![p].key = k]
        PROVE  catalog' \in [Providers -> Row]
    BY <1>0, <2>3 DEF Row
  <2>4. ASSUME NEW q \in Providers, catalog' = [catalog EXCEPT ![p].priority = catalog[q].priority]
        PROVE  catalog' \in [Providers -> Row]
    BY <1>0, <2>4 DEF Row
  <2>5. CASE DeleteProvider(p)
    BY <1>0, <2>5 DEF DeleteProvider, Row
  <2>. QED
    BY <2>1, <2>2, <2>3, <2>4, <2>5 DEF PatchProvider
<1>2. TypeOK'
  BY <1>0, <1>1 DEF ChainInv, TypeOK, row, file
<1>3. \A r \in Requests : OrderInv(r)' /\ MediaInv(r)' /\ JobInv(r)'
  BY <1>0 DEF ChainInv, OrderInv, MediaInv, JobInv, row, file
<1>. QED
  BY <1>2, <1>3 DEF ChainInv

----------------------------------------------------------------------------
(* The worker.                                                             *)

\* A step of the worker or of the callback at one request.
LEMMA JobStep ==
  ASSUME ChainInv, NEW r \in Requests, TypeOK',
         UNCHANGED <<panel, media, said, hung>>,
         \A q \in Requests \ {r} :
           /\ task'[q] = task[q] /\ status'[q] = status[q] /\ via'[q] = via[q]
           /\ delivered'[q] = delivered[q] /\ dir'[q] = dir[q],
         worker = worker' \/ worker'.req = r \/ worker'.pc = "idle",
         worker = worker' \/ worker.req = r \/ worker.pc = "idle",
         OrderInv(r)' /\ MediaInv(r)' /\ JobInv(r)'
  PROVE  ChainInv'
<1>1. ASSUME NEW q \in Requests, q # r
      PROVE  OrderInv(q)' /\ MediaInv(q)' /\ JobInv(q)'
  <2>1. OrderInv(q) /\ MediaInv(q) /\ JobInv(q)
    BY DEF ChainInv
  <2>2. OrderInv(q)' /\ MediaInv(q)'
    BY <1>1, <2>1 DEF OrderInv, MediaInv, panel
  <2>3. JobInv(q)'
    BY <1>1, <2>1 DEF JobInv, panel
  <2>. QED
    BY <2>2, <2>3
<1>. QED
  BY <1>1 DEF ChainInv

\* The same, when the task stays where it is.
LEMMA JobStepOnly ==
  ASSUME ChainInv, NEW r \in Requests, UNCHANGED <<panel, media, said, hung, task>>,
         \E st \in {"processing", "completed", "failed"} : status' = [status EXCEPT ![r] = st],
         \E c \in Codes \cup {"none", "upload_failed"} : code' = [code EXCEPT ![r] = c],
         \E p \in Providers \cup {NoProvider} : via' = [via EXCEPT ![r] = p],
         \E d \in BOOLEAN : delivered' = [delivered EXCEPT ![r] = d],
         \E d \in {"none", "present", "removed"} : dir' = [dir EXCEPT ![r] = d],
         worker' \in [pc : {"idle", "wait", "upload", "book"}, req : Requests \cup {NoRequest}],
         worker = worker' \/ worker'.req = r \/ worker'.pc = "idle",
         worker = worker' \/ worker.req = r \/ worker.pc = "idle",
         JobInv(r)'
  PROVE  ChainInv'
<1>1. TypeOK'
  BY DEF ChainInv, TypeOK, panel
<1>2. \A q \in Requests \ {r} :
        /\ task'[q] = task[q] /\ status'[q] = status[q] /\ via'[q] = via[q]
        /\ delivered'[q] = delivered[q] /\ dir'[q] = dir[q]
  BY DEF ChainInv, TypeOK
<1>3. OrderInv(r)' /\ MediaInv(r)'
  BY DEF ChainInv, OrderInv, MediaInv, panel
<1>. QED
  BY <1>1, <1>2, <1>3, JobStep

LEMMA StartKeeps ==
  ASSUME ChainInv, NEW r \in Requests, Start(r)
  PROVE  ChainInv'
<1>. DEFINE x == [task[r] EXCEPT !.pc = "select"]
<1>0. /\ task[r] \in Task /\ task[r].pc = "none" /\ ~delivered[r] /\ status[r] = "queued"
      /\ OrderInv(r) /\ MediaInv(r) /\ JobInv(r)
  BY DEF ChainInv, TypeOK, Start, JobInv
<1>1. /\ status' = [status EXCEPT ![r] = "processing"] /\ dir' = [dir EXCEPT ![r] = "present"]
      /\ task' = [task EXCEPT ![r] = x] /\ worker' = [pc |-> "wait", req |-> r] /\ worker = Idle
      /\ UNCHANGED <<panel, media, code, via, delivered, said, hung>>
  BY DEF Start, ChainInv, TypeOK
<1>2. x \in Task /\ x.pc = "select" /\ x.rest = task[r].rest
  BY <1>0 DEF Task
<1>3. task'[r] = x /\ status'[r] = "processing" /\ dir'[r] = "present"
  BY <1>1 DEF ChainInv, TypeOK
<1>. HIDE DEF x
<1>4. TypeOK'
  BY <1>1, <1>2 DEF ChainInv, TypeOK, panel
<1>5. OrderInv(r)'
  BY <1>0, <1>1, <1>2, <1>3 DEF OrderInv, Asking, InThread
<1>6. MediaInv(r)'
  BY <1>0, <1>1, <1>2, <1>3 DEF MediaInv, Asking, InThread, panel
<1>7. JobInv(r)'
  BY <1>0, <1>1, <1>2, <1>3 DEF JobInv
<1>8. \A q \in Requests \ {r} :
        /\ task'[q] = task[q] /\ status'[q] = status[q] /\ via'[q] = via[q]
        /\ delivered'[q] = delivered[q] /\ dir'[q] = dir[q]
  BY <1>1 DEF ChainInv, TypeOK
<1>. QED
  BY <1>1, <1>4, <1>5, <1>6, <1>7, <1>8, JobStep DEF Idle

\* What the invariant says of the job the worker is at.
LEMMA ServedJob ==
  ASSUME ChainInv, NEW r \in Requests, NEW pc \in {"wait", "upload", "book"}, Serving(r, pc)
  PROVE  /\ worker = [pc |-> pc, req |-> r] /\ worker.req = r /\ worker.pc = pc
         /\ JobInv(r) /\ status[r] = "processing"
         /\ pc \in {"wait", "upload"} => ~delivered[r]
         /\ pc \in {"upload", "book"} => task[r].pc = "done"
  BY DEF ChainInv, JobInv, Serving

\* A job that fails, with its file sent or not and its directory kept or removed.
LEMMA FailKeeps ==
  ASSUME ChainInv, NEW r \in Requests, NEW pc \in {"wait", "upload", "book"}, Serving(r, pc),
         NEW c \in Codes \cup {"none", "upload_failed"}, Fail(r, c),
         NEW b \in BOOLEAN, delivered' = [delivered EXCEPT ![r] = b],
         UNCHANGED <<panel, media, task, said, hung>>,
         dir' = dir \/ (Remove(r) /\ task[r].pc \in Over),
         b => task[r].pc = "done"
  PROVE  ChainInv'
<1>0. /\ worker.req = r /\ JobInv(r)
  BY ServedJob
<1>1. /\ status' = [status EXCEPT ![r] = "failed"] /\ code' = [code EXCEPT ![r] = c]
      /\ via' = [via EXCEPT ![r] = via[r]] /\ worker' = Idle
  BY DEF Fail, ChainInv, TypeOK
<1>2. \E d \in {"none", "present", "removed"} : dir' = [dir EXCEPT ![r] = d]
  BY DEF ChainInv, TypeOK, Remove
<1>3. /\ status'[r] = "failed" /\ (task[r].pc \in Over \/ dir'[r] = dir[r])
      /\ delivered'[r] = b
  BY <1>1 DEF ChainInv, TypeOK
<1>4. JobInv(r)'
  BY <1>0, <1>1, <1>3 DEF JobInv, Idle, panel
<1>5. /\ via[r] \in Providers \cup {NoProvider}
      /\ Idle \in [pc : {"idle", "wait", "upload", "book"}, req : Requests \cup {NoRequest}]
      /\ Idle.pc = "idle"
  BY DEF ChainInv, TypeOK, Idle
<1>. QED
  BY <1>0, <1>1, <1>2, <1>4, <1>5, JobStepOnly

LEMMA EndKeeps ==
  ASSUME ChainInv, NEW r \in Requests,
         Timeout(r) \/ Refused(r) \/ UploadFails(r) \/ BookFails(r)
  PROVE  ChainInv'
<1>0. /\ task[r] \in Task /\ JobInv(r)
      /\ delivered[r] \in BOOLEAN /\ delivered = [delivered EXCEPT ![r] = delivered[r]]
      /\ delivered[r] => task[r].pc = "done"
  BY DEF ChainInv, TypeOK, JobInv
<1>1. CASE Timeout(r)
  <2>1. Serving(r, "wait") /\ Fail(r, "provider_down") /\ dir' = dir /\ delivered' = delivered
        /\ UNCHANGED <<panel, media, task, said, hung>>
    BY <1>1 DEF Timeout, file
  <2>. QED
    BY <1>0, <2>1, FailKeeps DEF Codes
<1>2. CASE Refused(r)
  <2>1. task[r].last \in Codes \cup {"none"}
    BY <1>0 DEF Task
  <2>. QED
    BY <1>0, <1>2, <2>1, FailKeeps DEF Refused, Over
<1>3. CASE UploadFails(r)
  <2>1. task[r].pc = "done"
    BY <1>3, ServedJob DEF UploadFails
  <2>2. PICK b \in BOOLEAN : delivered' = [delivered EXCEPT ![r] = b]
    BY <1>3 DEF UploadFails
  <2>. QED
    BY <1>3, <2>1, <2>2, FailKeeps DEF UploadFails, Codes, Over
<1>4. CASE BookFails(r)
  <2>1. task[r].pc = "done"
    BY <1>4, ServedJob DEF BookFails
  <2>. QED
    BY <1>0, <1>4, <2>1, FailKeeps DEF BookFails, Over, Codes
<1>. QED
  BY <1>1, <1>2, <1>3, <1>4

LEMMA GoOnKeeps ==
  ASSUME ChainInv, NEW r \in Requests, Succeeded(r) \/ Upload(r) \/ Book(r)
  PROVE  ChainInv'
<1>0. /\ status[r] \in {"queued", "processing", "completed", "failed"}
      /\ code[r] \in Codes \cup {"none", "upload_failed"}
      /\ via[r] \in Providers \cup {NoProvider}
      /\ delivered[r] \in BOOLEAN /\ dir[r] \in {"none", "present", "removed"}
      /\ status = [status EXCEPT ![r] = status[r]] /\ code = [code EXCEPT ![r] = code[r]]
      /\ via = [via EXCEPT ![r] = via[r]] /\ delivered = [delivered EXCEPT ![r] = delivered[r]]
      /\ dir = [dir EXCEPT ![r] = dir[r]]
  BY DEF ChainInv, TypeOK
<1>1. CASE Succeeded(r)
  <2>1. /\ worker.req = r /\ status[r] = "processing" /\ ~delivered[r] /\ JobInv(r) /\ task[r].pc = "done"
        /\ worker' = [pc |-> "upload", req |-> r]
    BY <1>1, ServedJob DEF Succeeded, Serving
  <2>2. UNCHANGED <<panel, media, status, code, via, delivered, dir, task, said, hung>>
    BY <1>1 DEF Succeeded, row, file
  <2>3. JobInv(r)'
    BY <2>1, <2>2 DEF JobInv
  <2>. QED
    BY <1>0, <2>1, <2>2, <2>3, JobStepOnly
<1>2. CASE Upload(r)
  <2>1. /\ worker.req = r /\ status[r] = "processing" /\ JobInv(r) /\ task[r].pc = "done"
        /\ worker' = [pc |-> "book", req |-> r]
    BY <1>2, ServedJob DEF Upload, Serving
  <2>2. UNCHANGED <<panel, media, status, code, via, dir, task, said, hung>>
        /\ delivered' = [delivered EXCEPT ![r] = TRUE]
    BY <1>2 DEF Upload, row
  <2>3. JobInv(r)'
    BY <2>1, <2>2 DEF JobInv, Over
  <2>. QED
    BY <1>0, <2>1, <2>2, <2>3, JobStepOnly
<1>3. CASE Book(r)
  <2>1. worker.req = r /\ JobInv(r) /\ task[r].pc = "done" /\ task[r].at \in Providers
    BY <1>3, ServedJob DEF Book, ChainInv, OrderInv
  <2>2. /\ UNCHANGED <<panel, media, code, delivered, task, said, hung>>
        /\ status' = [status EXCEPT ![r] = "completed"] /\ via' = [via EXCEPT ![r] = task[r].at]
        /\ dir' = [dir EXCEPT ![r] = "removed"] /\ worker' = Idle
    BY <1>3 DEF Book, Remove
  <2>3. status'[r] = "completed"
    BY <2>2 DEF ChainInv, TypeOK
  <2>4. JobInv(r)'
    BY <2>1, <2>2, <2>3 DEF JobInv, Over, Idle, panel
  <2>5. Idle \in [pc : {"idle", "wait", "upload", "book"}, req : Requests \cup {NoRequest}]
        /\ Idle.pc = "idle"
    BY DEF Idle
  <2>. QED
    BY <1>0, <2>1, <2>2, <2>3, <2>4, <2>5, JobStepOnly
<1>. QED
  BY <1>1, <1>2, <1>3

LEMMA LateEndKeeps ==
  ASSUME ChainInv, NEW r \in Requests, LateEnd(r)
  PROVE  ChainInv'
<1>1. /\ UNCHANGED <<panel, media, status, code, via, delivered, task, said, hung, worker>>
      /\ dir' = [dir EXCEPT ![r] = "removed"] /\ task[r].pc \in Over
  BY DEF LateEnd, Remove, row
<1>2. TypeOK'
  BY <1>1 DEF ChainInv, TypeOK, panel
<1>3. JobInv(r)' /\ OrderInv(r)' /\ MediaInv(r)'
  BY <1>1 DEF ChainInv, JobInv, OrderInv, MediaInv, panel
<1>4. \A q \in Requests \ {r} : dir'[q] = dir[q]
  BY <1>1 DEF ChainInv, TypeOK
<1>. QED
  BY <1>1, <1>2, <1>3, <1>4, JobStep

----------------------------------------------------------------------------
LEMMA ChainInit == Init => ChainInv
<1>. SUFFICES ASSUME Init PROVE ChainInv
  OBVIOUS
<1>1. TypeOK
  BY ChainAssumption DEF Init, TypeOK, Task, NoTask, Idle
<1>2. \A r \in Requests : OrderInv(r) /\ MediaInv(r) /\ JobInv(r)
  BY DEF Init, OrderInv, MediaInv, JobInv, NoTask, Idle, Asking, InThread, Over
<1>. QED
  BY <1>1, <1>2 DEF ChainInv

LEMMA ChainNext == ChainInv /\ [Next]_vars => ChainInv'
<1>. SUFFICES ASSUME ChainInv, [Next]_vars PROVE ChainInv'
  OBVIOUS
<1>1. ASSUME NEW r \in Requests, Download(r) PROVE ChainInv'
  BY <1>1, DownloadMoved, MovedKeeps
<1>2. ASSUME NEW r \in Requests, Job(r) PROVE ChainInv'
  BY <1>2, StartKeeps, EndKeeps, GoOnKeeps DEF Job
<1>3. ASSUME NEW r \in Requests, Hang(r) \/ UNCHANGED vars PROVE ChainInv'
  <2>1. UNCHANGED <<panel, media, row, file, task, said, worker>> /\ hung' \subseteq Requests
    BY <1>3 DEF Hang, vars, panel, row, file, ChainInv, TypeOK
  <2>. QED
    BY <2>1 DEF ChainInv, TypeOK, OrderInv, MediaInv, JobInv, panel, row, file
<1>4. CASE UNCHANGED vars
  BY <1>4 DEF vars, ChainInv, TypeOK, OrderInv, MediaInv, JobInv
<1>. QED
  BY <1>1, <1>2, <1>3, <1>4, PanelKeeps, LateEndKeeps DEF Next

LEMMA ChainAlways == Spec => []ChainInv
  BY ChainInit, ChainNext, PTL DEF Spec

\* Every variable keeps its type (ProviderManager.download, process_job).
THEOREM TypeCorrect == Spec => []TypeOK
<1>1. ChainInv => TypeOK
  BY DEF ChainInv
<1>. QED
  BY <1>1, ChainAlways, PTL

\* The error a chain reports is a refusal by the last provider asked, or the last
\* failure after every listed provider was asked, for tables of any size and
\* edited at any moment (ProviderManager.download).
THEOREM VerdictsJustified == Spec => []VerdictJustified
<1>1. ChainInv => VerdictJustified
  BY DEF ChainInv, OrderInv, VerdictJustified, Tried
<1>. QED
  BY <1>1, ChainAlways, PTL

\* No file over the limit, and none of media that is private or gone, is sent,
\* whatever the providers report of it (YtdlpProvider, ApifyInstagramProvider).
THEOREM RefusedNeverDelivered == Spec => []NeverDeliversRefused
<1>1. ChainInv => NeverDeliversRefused
  BY DEF ChainInv, JobInv, MediaInv, NeverDeliversRefused
<1>. QED
  BY <1>1, ChainAlways, PTL

\* No directory is removed under a task, for any number of tasks that were given
\* up (process_job, _cleanup_when_done).
THEOREM DirectoriesOutlive == Spec => []DirOutlivesTask
<1>1. ChainInv => DirOutlivesTask
  BY DEF ChainInv, JobInv, DirOutlivesTask
<1>. QED
  BY <1>1, ChainAlways, PTL
=============================================================================
