--------------------------- MODULE ProviderChain ---------------------------
(***************************************************************************)
(* One download worker, process_job in apps/api/app/workers/runner.py, and *)
(* what its download task does: ProviderManager.download asks the active   *)
(* providers of a platform in turn, the yt-dlp provider works in the       *)
(* threads of the event loop's pool, the Apify provider on the loop.       *)
(* Meanwhile the panel edits the providers (routes/admin_catalog.py).      *)
(*                                                                         *)
(* A task that is too slow is given up, but cannot be stopped: it goes on  *)
(* through the rest of its chain, holding threads, while the worker turns  *)
(* to the next job.  What is on the other side (the media, the answers of  *)
(* yt-dlp, Apify, the sites and Telegram) is chosen freely.                *)
(***************************************************************************)
EXTENDS Integers, FiniteSets

CONSTANTS Requests,    \* queued download requests of one platform
          NoRequest,
          Providers,   \* ids of provider rows, those still to be created included
          NoProvider,
          Catalogs,    \* what the table may hold at the start
          Worlds,      \* what the URLs may lead to, as functions of the requests
          SiteErrors,  \* messages of a troubled site, as sets of matching patterns
          Threads,     \* threads of the default executor
          MaxHung,     \* bound: downloads that hang in their thread for good
          MaxEdits     \* bound: edits of the catalog

Codes == {"unsupported_url", "private_content", "not_found", "provider_down", "rate_limited",
          "file_too_large", "duration_too_long", "unknown_error"}
Recoverable == {"provider_down", "rate_limited", "unknown_error"}

\* Public media within the limits, what a provider refuses, and "hollow": public
\* media in which yt-dlp may find nothing.
Kinds == {"fine", "private", "gone", "long", "large", "hollow"}

\* A provider row.  A "broken" key is one that cannot be decrypted; a row whose
\* type is not in REGISTRY fails in the same place and in the same way.
Row == [there : {"new", "row", "deleted"}, active : BOOLEAN, priority : Nat,
        type : {"ytdlp", "apify"}, key : {"none", "good", "broken"}]

ASSUME ChainAssumption ==
  /\ NoRequest \notin Requests /\ NoProvider \notin Providers
  /\ Providers \subseteq Nat
  /\ Catalogs \subseteq [Providers -> Row]
  /\ Worlds \subseteq [Requests -> Kinds]
  /\ SiteErrors \subseteq SUBSET Codes
  /\ Threads \in Nat \ {0} /\ MaxHung \in Nat /\ MaxEdits \in Nat

VARIABLES
  catalog,   \* the providers table
  edits,
  media,     \* what the URL of a request really leads to
  status,    \* download_requests.status
  code,      \* download_requests.error_code
  via,       \* download_requests.provider_id
  delivered, \* the user has the file
  dir,       \* the temporary directory of the request
  task,      \* _run_download
  said,      \* history: how each provider of the chain answered
  hung,      \* downloads that hang in their thread for good
  worker     \* process_job

vars == <<catalog, edits, media, status, code, via, delivered, dir, task, said, hung, worker>>
panel == <<catalog, edits>>
row == <<status, code, via>>
file == <<delivered, dir>>

\* A row as the session of the task read it.
Snapshot(p) == [id |-> p, priority |-> catalog[p].priority,
                type |-> catalog[p].type, key |-> catalog[p].key]
Listed == [id : Providers, priority : Nat, type : {"ytdlp", "apify"},
           key : {"none", "good", "broken"}]

InThread == {"extract", "fetch"}
Over == {"done", "raised"}
Task == [pc : {"none", "select", "turn", "want_extract", "want_fetch", "actor", "stream"}
                \cup InThread \cup Over,
         rest : SUBSET Listed, at : Providers \cup {NoProvider}, last : Codes \cup {"none"}]
NoTask == [pc |-> "none", rest |-> {}, at |-> NoProvider, last |-> "none"]
Idle == [pc |-> "idle", req |-> NoRequest]

TypeOK ==
  /\ catalog \in [Providers -> Row]
  /\ edits \in 0..MaxEdits
  /\ media \in Worlds
  /\ status \in [Requests -> {"queued", "processing", "completed", "failed"}]
  /\ code \in [Requests -> Codes \cup {"none", "upload_failed"}]
  /\ via \in [Requests -> Providers \cup {NoProvider}]
  /\ delivered \in [Requests -> BOOLEAN]
  /\ dir \in [Requests -> {"none", "present", "removed"}]
  /\ task \in [Requests -> Task]
  /\ said \in [Requests -> [Providers -> Codes \cup {"unasked"}]]
  /\ hung \subseteq Requests
  /\ worker \in [pc : {"idle", "wait", "upload", "book"}, req : Requests \cup {NoRequest}]

Init ==
  /\ catalog \in Catalogs
  /\ edits = 0
  /\ media \in Worlds
  /\ status = [r \in Requests |-> "queued"]
  /\ code = [r \in Requests |-> "none"]
  /\ via = [r \in Requests |-> NoProvider]
  /\ delivered = [r \in Requests |-> FALSE]
  /\ dir = [r \in Requests |-> "none"]
  /\ task = [r \in Requests |-> NoTask]
  /\ said = [r \in Requests |-> [p \in Providers |-> "unasked"]]
  /\ hung = {}
  /\ worker = Idle

----------------------------------------------------------------------------
(* The providers page of the panel.                                        *)

Edit ==
  /\ edits < MaxEdits
  /\ edits' = edits + 1
  /\ UNCHANGED <<media, row, file, task, said, hung, worker>>

CreateProvider(p) ==
  /\ catalog[p].there = "new"
  /\ Edit
  /\ catalog' = [catalog EXCEPT ![p].there = "row"]

\* One field at a time; "" clears the key, anything else replaces it.
PatchProvider(p) ==
  /\ catalog[p].there = "row"
  /\ Edit
  /\ \/ catalog' = [catalog EXCEPT ![p].active = ~@]
     \/ \E k \in {"none", "good"} : catalog' = [catalog EXCEPT ![p].key = k]
     \/ \E q \in Providers :
          catalog' = [catalog EXCEPT ![p].priority = catalog[q].priority]

\* Refused (400) while a request refers to the row.
DeleteProvider(p) ==
  /\ catalog[p].there = "row"
  /\ \A r \in Requests : via[r] # p
  /\ Edit
  /\ catalog' = [catalog EXCEPT ![p].there = "deleted"]

----------------------------------------------------------------------------
(* The download task: ProviderManager.download.                            *)

At(r, pc) == task[r].pc = pc /\ r \notin hung

Step(r) == UNCHANGED <<panel, media, row, file, hung, worker>>

Active == {p \in Providers : catalog[p].there = "row" /\ catalog[p].active}

\* Lowest priority number first, then lowest id.
Foremost(L) == CHOOSE p \in L : \A q \in L :
  p.priority < q.priority \/ (p.priority = q.priority /\ p.id <= q.id)

\* Mutant of Continues: content errors are tried elsewhere as well.
ContinuesAlways(c) == c \in Codes

Continues(c) == c \in Recoverable

\* Provider p raises c while the rows L have not been asked: the loop goes on
\* with them, or the error, the last one met, is raised.
Raise(r, p, L, c) ==
  /\ said' = [said EXCEPT ![r][p] = c]
  /\ task' = [task EXCEPT ![r] = [rest |-> L, at |-> p, last |-> c,
                pc |-> IF Continues(c) /\ L # {} THEN "turn" ELSE "raised"]]
  /\ Step(r)

Answer(r, c) == Raise(r, task[r].at, task[r].rest, c)

Proceed(r, pc) ==
  /\ task' = [task EXCEPT ![r].pc = pc]
  /\ UNCHANGED said
  /\ Step(r)

\* providers_for_platform; without an active row: provider_down.
Select(r) ==
  /\ At(r, "select")
  /\ LET rows == {Snapshot(p) : p \in Active}
     IN task' = [task EXCEPT ![r].rest = rows,
          ![r].pc = IF rows = {} THEN "raised" ELSE "turn",
          ![r].last = IF rows = {} THEN "provider_down" ELSE "none"]
  /\ UNCHANGED said
  /\ Step(r)

\* build_provider, inside the try; Apify without a key refuses at once.
Turn(r) ==
  /\ At(r, "turn")
  /\ LET p == Foremost(task[r].rest)
         L == task[r].rest \ {p}
     IN \/ /\ p.key = "broken"
           /\ Raise(r, p.id, L, "unknown_error")
        \/ /\ p.key = "none" /\ p.type = "apify"
           /\ Raise(r, p.id, L, "provider_down")
        \/ /\ p.key = "good" \/ (p.key = "none" /\ p.type = "ytdlp")
           /\ task' = [task EXCEPT ![r].rest = L, ![r].at = p.id,
                ![r].pc = IF p.type = "ytdlp" THEN "want_extract" ELSE "actor"]
           /\ UNCHANGED said
           /\ Step(r)

----------------------------------------------------------------------------
(* The yt-dlp provider: two calls of asyncio.to_thread.                    *)

\* _ERROR_PATTERNS by what they map to, in their order: the first wins.
ErrorPatterns == <<"private_content", "unsupported_url", "not_found", "rate_limited",
                   "file_too_large", "provider_down">>

\* _map_error of a message in which the patterns M occur.
MapError(M) ==
  LET hits == {i \in DOMAIN ErrorPatterns : ErrorPatterns[i] \in M}
  IN IF hits = {} THEN "unknown_error"
     ELSE ErrorPatterns[CHOOSE i \in hits : \A j \in hits : i <= j]

\* The pool gives a waiting call a thread.
StartThread(r) ==
  /\ \/ At(r, "want_extract") /\ Proceed(r, "extract")
     \/ At(r, "want_fetch") /\ Proceed(r, "fetch")
  /\ Cardinality({q \in Requests : task[q].pc \in InThread}) < Threads

\* _extract_info and the checks of what it reports: media that cannot be had
\* never passes, a duration or a size may be missing from the metadata.
Extract(r) ==
  /\ At(r, "extract")
  /\ \/ \E M \in SiteErrors : Answer(r, MapError(M))
     \/ media[r] = "private" /\ Answer(r, MapError({"private_content"}))
     \/ media[r] \in {"gone", "hollow"} /\ Answer(r, "not_found")
     \/ media[r] = "long" /\ Answer(r, "duration_too_long")
     \/ media[r] = "large" /\ Answer(r, "file_too_large")
     \/ media[r] \notin {"private", "gone"} /\ Proceed(r, "want_fetch")

\* Mutant of Whole: the size of the file is not looked at again.
WholeUnchecked(r) == Proceed(r, "done")

\* A file is there: too large a one is removed.
Whole(r) ==
  IF media[r] = "large" THEN Answer(r, "file_too_large") ELSE Proceed(r, "done")

\* _do_download: yt-dlp raises, or returns nothing, or leaves no file (too large
\* for max_filesize, or the result of a playlist, without a path), or leaves one.
Fetch(r) ==
  /\ At(r, "fetch")
  /\ \/ \E M \in SiteErrors : Answer(r, MapError(M))
     \/ media[r] = "large" /\ Answer(r, MapError({"file_too_large"}))
     \/ media[r] = "hollow" /\ Answer(r, "not_found")
     \/ Answer(r, "unknown_error")
     \/ Whole(r)

\* yt-dlp never comes back: it cannot be force-stopped.
Hang(r) ==
  /\ \E s \in InThread : At(r, s)
  /\ Cardinality(hung) < MaxHung
  /\ hung' = hung \cup {r}
  /\ UNCHANGED <<panel, media, row, file, task, said, worker>>

----------------------------------------------------------------------------
(* The Apify provider.                                                     *)

\* _run_actor, the duration check and _pick_media.
Actor(r) ==
  /\ At(r, "actor")
  /\ \/ \E c \in Recoverable : Answer(r, c)
     \/ media[r] = "private" /\ Answer(r, "private_content")
     \/ media[r] = "gone" /\ Answer(r, "not_found")
     \/ media[r] = "long" /\ Answer(r, "duration_too_long")
     \/ media[r] \notin {"private", "gone"} /\ Proceed(r, "stream")

\* The transfer: cut off at the cap, declared or met on the way.
Stream(r) ==
  /\ At(r, "stream")
  /\ \/ \E c \in {"provider_down", "unknown_error"} : Answer(r, c)
     \/ Whole(r)

Download(r) ==
  Select(r) \/ Turn(r) \/ StartThread(r) \/ Extract(r) \/ Fetch(r) \/ Actor(r) \/ Stream(r)

----------------------------------------------------------------------------
(* The worker: process_job.                                                *)

Serving(r, pc) == worker = [pc |-> pc, req |-> r]
Remove(r) == dir' = [dir EXCEPT ![r] = "removed"]

\* _fail, and the end of the job.
Fail(r, c) ==
  /\ status' = [status EXCEPT ![r] = "failed"]
  /\ code' = [code EXCEPT ![r] = c]
  /\ worker' = Idle
  /\ UNCHANGED via

Start(r) ==
  /\ worker = Idle
  /\ status[r] = "queued"
  /\ status' = [status EXCEPT ![r] = "processing"]
  /\ dir' = [dir EXCEPT ![r] = "present"]
  /\ task' = [task EXCEPT ![r].pc = "select"]
  /\ worker' = [pc |-> "wait", req |-> r]
  /\ UNCHANGED <<panel, media, code, via, delivered, said, hung>>

\* Mutant of Timeout: the directory is removed with the job.
TimeoutRemoves(r) ==
  /\ Serving(r, "wait") /\ task[r].pc \notin Over
  /\ Fail(r, "provider_down")
  /\ Remove(r)
  /\ UNCHANGED <<panel, media, delivered, task, said, hung>>

\* wait_for gives up; the task is shielded and keeps its directory.
Timeout(r) ==
  /\ Serving(r, "wait") /\ task[r].pc \notin Over
  /\ Fail(r, "provider_down")
  /\ UNCHANGED <<panel, media, file, task, said, hung>>

Refused(r) ==
  /\ Serving(r, "wait") /\ task[r].pc = "raised"
  /\ Fail(r, task[r].last)
  /\ Remove(r)
  /\ UNCHANGED <<panel, media, delivered, task, said, hung>>

Succeeded(r) ==
  /\ Serving(r, "wait") /\ task[r].pc = "done"
  /\ worker' = [worker EXCEPT !.pc = "upload"]
  /\ UNCHANGED <<panel, media, row, file, task, said, hung>>

Upload(r) ==
  /\ Serving(r, "upload")
  /\ delivered' = [delivered EXCEPT ![r] = TRUE]
  /\ worker' = [worker EXCEPT !.pc = "book"]
  /\ UNCHANGED <<panel, media, row, dir, task, said, hung>>

\* Telegram refuses the file, or takes it and the reply is lost: the worker
\* cannot tell, and the request fails.
UploadFails(r) ==
  /\ Serving(r, "upload")
  /\ \E taken \in BOOLEAN : delivered' = [delivered EXCEPT ![r] = taken]
  /\ \E c \in {"file_too_large", "upload_failed"} : Fail(r, c)
  /\ Remove(r)
  /\ UNCHANGED <<panel, media, task, said, hung>>

\* The commit of the debit and of provider_id, a foreign key.
Book(r) ==
  /\ Serving(r, "book")
  /\ catalog[task[r].at].there = "row"
  /\ status' = [status EXCEPT ![r] = "completed"]
  /\ via' = [via EXCEPT ![r] = task[r].at]
  /\ worker' = Idle
  /\ Remove(r)
  /\ UNCHANGED <<panel, media, code, delivered, task, said, hung>>

\* The transaction fails, for whatever reason or since the provider has been
\* deleted: it is rolled back and the request, whose file was sent, marked failed.
BookFails(r) ==
  /\ Serving(r, "book")
  /\ Fail(r, "unknown_error")
  /\ Remove(r)
  /\ UNCHANGED <<panel, media, delivered, task, said, hung>>

\* Mutant of LateEnd: only a late result is cleaned up, not a late error.
LateResult(r) ==
  /\ task[r].pc = "done" /\ worker.req # r /\ dir[r] = "present"
  /\ Remove(r)
  /\ UNCHANGED <<panel, media, row, delivered, task, said, hung, worker>>

\* _cleanup_when_done: the callback of a task that was given up.
LateEnd(r) ==
  /\ task[r].pc \in Over /\ worker.req # r /\ dir[r] = "present"
  /\ Remove(r)
  /\ UNCHANGED <<panel, media, row, delivered, task, said, hung, worker>>

Job(r) ==
  \/ Start(r) \/ Timeout(r) \/ Refused(r) \/ Succeeded(r)
  \/ Upload(r) \/ UploadFails(r) \/ Book(r) \/ BookFails(r)

----------------------------------------------------------------------------
Next ==
  \/ \E p \in Providers : CreateProvider(p) \/ PatchProvider(p) \/ DeleteProvider(p)
  \/ \E r \in Requests : Download(r) \/ Hang(r) \/ Job(r) \/ LateEnd(r)

Spec == Init /\ [][Next]_vars

\* The event loop runs what is ready, the pool works off its queue, and a call
\* that does not hang ends: yt-dlp by its socket timeout and its retries, httpx
\* by its own.  The panel owes us nothing.
Fairness ==
  /\ WF_vars(\E r \in Requests : Job(r))
  /\ \A r \in Requests : WF_vars(Download(r)) /\ WF_vars(LateEnd(r))

FairSpec == Spec /\ Fairness

----------------------------------------------------------------------------
Refusals == Codes \ Recoverable

\* The task raises a refusal of the content when the last provider asked gave
\* it, and nobody after it was asked; it raises any other error only when every
\* provider it had listed was asked, and all failed recoverably
\* (ProviderManager.download).
VerdictJustified ==
  \A r \in Requests : task[r].pc = "raised" =>
    LET asked == {p \in Providers : said[r][p] # "unasked"}
        others == asked \ {task[r].at}
    IN /\ \A p \in others : said[r][p] \in Recoverable
       /\ asked # {} => said[r][task[r].at] = task[r].last
       /\ task[r].last \in Recoverable => task[r].rest = {}

\* What providers refuse is never sent: neither media that is not public or not
\* there, nor a file over the limit, whatever the metadata said before.
NeverDeliversRefused ==
  \A r \in Requests : delivered[r] => media[r] \notin {"private", "gone", "large"}

\* A directory is never removed under a task that may still write to it, the
\* tasks of jobs that were given up included (_cleanup_when_done).
DirOutlivesTask ==
  \A r \in Requests :
    task[r].pc \notin Over \cup {"none"} => dir[r] = "present"

\* An upstream in trouble is no verdict on the content: a provider refuses
\* content only for what it is (docs/PROVIDERS.md, the meaning of the codes).
RefusalIsTrue ==
  \A r \in Requests, p \in Providers :
    /\ said[r][p] = "not_found" => media[r] \in {"gone", "hollow"}
    /\ said[r][p] = "private_content" => media[r] = "private"

\* Every job settles, even when all threads hang, since the timeout needs none;
\* and its directory is removed in the end, unless its task hangs, or waits for
\* a thread of a pool in which all hang (process_job, _cleanup_when_done).
JobSettlesAndCleansUp ==
  \A r \in Requests :
    status[r] = "queued" ~>
      /\ status[r] \in {"completed", "failed"}
      /\ dir[r] = "removed" \/ r \in hung \/ Cardinality(hung) >= Threads
=============================================================================
