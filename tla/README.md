# AICounselor: a verification project

AICounselor is a question-answering assistant over a school's documents. A Vue
page in the browser holds the conversations; a FastAPI server answers each
question with an agent that searches a vector store and calls a language model;
administrators log in to change settings, rebuild the index and manage each
other's accounts. This directory holds TLA+ models of its stateful parts,
written from the code, the TLC configurations that check them, and theorems
proved with TLAPS. `PROJECT.json` lists the components, the runs, the lines each
definition was written from (`map`), the hazards and which property covers them,
the findings and the theorems.

## 1. Inventory

| component | code | state | operations | what is hard |
|---|---|---|---|---|
| administrator accounts, login, lockout | `app/admin/{auth,accounts,routes}.py`, `storage/admin_db.py` | tables `accounts`, `sessions` in SQLite | login, logout, create, unlock, password change, delete, the session check every other endpoint runs first | handlers run on threads of a pool and interleave between database calls; the process may die between two of them |
| administrator settings | `app/admin/settings.py`, `llm/config.py`, `app/main.py` | table `settings`, runtime singletons | PUT (validate, merge, write, hot reload), loading at start | several reads and writes a request; two copies of the state; restart |
| chat page | `frontend/src/stores/chat.ts`, `api/ws.ts` | chats, the streaming state, localStorage, one WebSocket a turn, a 90 s and a 4 s timer | send, stop, create, switch, remove, clear all, reload, six socket events, two timers | events of old connections, timers that race answers, lost connections |
| chat endpoint | `app/routes_chat.py` | one coroutine a connection, nothing between turns | receive, validate the history, run the agent, send token, citation, done or error | disconnects, agent errors after the answer was sent, caps |
| index and re-index | `ingest/*`, `app/admin/reindex.py`, `scripts/run.sh` | vector store, `index_meta.json`, kv `last_reindex`, a process-local lock | build_index over all files, by the server or the command line | crash before the single save, files that change, two writers |
| health | `app/routes_health.py`, `stores/health.ts` | a cached probe and its lock; the light of each page | probe, poll, abort | every request of the pool waits behind one probe; the address it probes is a setting that changes |
| retrieval, agent, citations | `agent/*`, `rag/*`, the filters of `app/routes_chat.py` | the messages of one turn | call of the tool, search, answer, reasoning filter, citations of the current turn | algorithms on sequences with corner cases; third-party calls |
| administration pages | `stores/admin.ts`, `router/index.ts`, `views/admin/{Login,AdminLayout}.vue` | cached `/me`, the page on display, the calls on their way | login, logout, route guard | calls without a timeout, late answers, one cookie for all tabs |
| static files, theme, markdown | `app/static_no_store.py`, `utils/*` | none that matters | | |

How they interact. The browser and the chat endpoint share nothing but the
WebSocket of a turn: the page sends the whole history, the server keeps none.
The chat endpoint reads the runtime singletons that the settings handler writes.
The health probe reads them too, and is modelled together with the handler. The
administration pages know the accounts only through a cookie and `/me`. The
settings handler, the accounts and the re-index summary share one SQLite file, in which one `_WRITE_LOCK` makes each single call of `storage.admin_db`
atomic and no two calls together. What makes each part correct is in its section
below and, hazard by hazard, in `PROJECT.json`.

## 2. Modules

| module | what it is |
|---|---|
| `AccountPolicy` | what the accounts promise, each operation in one step |
| `AdminAccounts` | the handlers, one database call a step, on any number of threads |
| `AdminAccounts_proofs`, `AccountPolicy_proofs` | the theorems |
| `ChatWire` | the state of the connections, shared by page and server |
| `ChatServer` (extends `ChatWire`) | the coroutine of every turn |
| `ChatClient` (extends `ChatWire`) | the store, its connections and timers |
| `ChatSystem` (extends both) | page and server together, their faults, the properties |
| `ChatSystem_proofs` | the theorems about it |
| `SettingsPolicy` | an atomic PUT, written one section at a time, and a restart on what is written |
| `AdminSettings` | the PUT handler step by step, the singletons, the start |
| `AdminSettings_proofs` | the theorems about it, its refinement of `SettingsPolicy` included |
| `HealthProbe` (extends `AdminSettings`) | settings and health in one server process, and the pages that poll it |
| `HealthProbe_proofs` (extends `AdminSettings_proofs`) | the theorems about both |
| `AgentTurn` | one turn of the agent and what the chat endpoint makes of it; refines the handler of `ChatServer` |
| `AgentTurn_proofs` | the theorems about it, and what its recursive operators compute |
| `AdminPages` | a tab of the administration against the sessions of the server |
| `AdminPages_proofs` | the theorems about it |
| `Indexer` | build_index in the server and from the command line, the files, the vector store, the record |
| `Indexer_proofs` | the theorems about it |
| `MC...` | small instances for TLC |

Operators whose comment begins with "Mutation of" are mistakes a programmer
could make in the definition below them. They are no part of any specification;
`PROJECT.json` names, for each property of each passing run, the one that breaks
it, so no property holds whatever the code does.

### Accounts

`live`, `name`, `password`, `failed`, `locked` are the columns of `accounts`,
`sessions` and `expired` the table `sessions`. A request is a worker: `pc` names
its next database call, and `sid`, `me`, `tgt`, `old` are the local variables that
live across calls: the row a login read, the account that `require_session`
found. Each action is one call under `_WRITE_LOCK` with the Python up to the next
one; `increment_failed_attempts` holds the lock over two statements and is one
action. `require_session` is `async def` without an await: it holds the event loop,
so two of them do not overlap (`EventLoopFree`), but pool threads run between its
calls. Deleting an account cascades to its sessions (`foreign_keys=ON`), and an
INSERT of a session whose account is gone is refused. `Restart` drops every
request and seeds `admin` into an empty table. Ids are drawn once (uuid4).

Two history variables say which requests met. A request is in `crossed` once another
one works on the row it works on, or on the row of the account it acts for, while both
are under way; `rivals` is set when two deletes are past the count of rows at once. They
guard nothing: every interleaving happens, and the properties say what holds unless
these particular requests met.

Left out: `last_login_at`, `created_*`, cookies, CSRF check, password and user
name syntax (they refuse before anything is written, `RespondOnly`); SQLite's own
errors; `cleanup_expired`, which only tests call.

### Chat

A turn is a question and names its connection. `sock[t]` is the browser's socket:
`close()` on an open socket dispatches no message any more, only `close`
("closing"), while `close()` on a connecting one makes the browser dispatch `error`
and then `close` ("failing"). `down[t]` is what has been sent and not dispatched,
the end of the connection included; `up[t]` the first frame.

In `ChatClient` each action is one task of the event loop, with everything it
calls: `Send` with the `_failStreaming` of the turn it supersedes, the push, the
save and the new connection; `OnDone` with the push and the save; `Remove` with
its `stop()`. `streaming`, `activeConn`, `settled`, `timer` are the variables of
the code, `target[t]` the chat the handlers of turn t closed over (their guard
compares chats, `Owned`), `failTimers` counts pending 4 s timers, `saved` is
localStorage. `MaySend` is the page's rule and not the store's: the composer is off
while anything streams, and only the suggestions of an empty chat call `send`
then. In `ChatServer` the coroutine is `handler[t]`; histories are sequences of role
and size, so validation is the code's own (last item from the user, items and total
within the caps). The agent is a choice: the size of the answer (0 when nothing is
left after the reasoning is stripped), citations or none, an exception; `AgentTurn`
fills it in. A connection that is being made or is open may be lost at any time: the
browser reports an error and then a close (`OnConnectError`). uvicorn is
external: `Shutdown` closes accepted connections and refuses the others.

Left out: titles, rename, timestamps; damaged data in localStorage and a full
quota; several tabs (the design document accepts that the last one wins);
malformed frames and session ids, which the page never sends.

### Settings

A request is a worker again: per section `Validate` (which reads the stored row for
the pair chunk_size / chunk_overlap) and `MergeSection` (which reads it again),
then one `WriteSection` per section, then one `ApplySection` per section in the
handler's fixed order. `stored` holds the overrides, `runtime` the singletons, and
`Effective` is `get_effective_settings`. Five fields stand for all: two of `llm` that
the page saves by different buttons, the pair of `retrieval`, the model of
`embedding`. `Restart` is `create_app`; what it lays over the environment's values
is `Effective`, and the environment is taken to agree with `DEFAULTS`. The model says
what the singletons hold, not who reads them: `rag/embeddings.py:19` takes the
model from the environment, whatever `_emb_cfg` and the table say. Any thread may get
any body. `shared` is a history variable: the sections that two requests under way
had in common since the start. A section in it is one on which the races of
`settings.py:153`/`:198` and `routes.py:247` may have happened.

Left out: `debug` (read from the table by each chat turn: `show` of `AgentTurn`
is free), `paths` (never read back), the list of fields that need a restart in
the response, which is only displayed.

### Health

`HealthProbe` extends `AdminSettings`: one server process, one set of variables
more. A request of a page is `serving[p]`: waiting for `_probe_lock`, or probing
with the lock held. The outcome and its age are `cache`; `probe` keeps the address
that `_probe_llm` read when it began, which an administrator may change before
`urlopen` is back. A page's `refresh` is `asked`, `waited`, `light`, and its
AbortController is `Abort`: the thread that serves the request does not learn of
it. A probe that its page has left goes on (`lock` is `Gone`), writes the cache all the
same (`ProbedForNobody`), and its response goes nowhere. A request may be lost before
it reaches the server. Time is in ticks, and a tick passes only when nobody can go on
without waiting (`Tick`). `LongestProbe` is a bound of the model on the length of a probe
and none of the code: the 2 s of `urlopen` limit each connect and each read, not the
resolution of the name nor the whole, so a probe may outlast the 3 s of a page, and in the
run it does. Nothing is assumed of how the two compare. After the probe the handler
counts the chunks; the first count in a process makes `get_chroma()` load the
embedding model, for as long as that takes (`opened`, `Loaded`, and `Open` for the other
callers), with the outcome of the probe in hand (`outcome`). `HealthRestart` goes with
`Restart`. `steady` and `answering` are what is true out there: which addresses
answer, and for how long nothing changed. Left out: the API key (it goes with the
address), the count itself.

### Agent

`AgentTurn` is one call of `graph.ainvoke` and the frames that follow. The model is
a choice among texts over the opening and closing tag of two kinds, halves of such
tags, white space and pieces each of its own, so that a piece that is lost, kept
twice or moved would be noticed; the retriever is a choice among lists of documents,
each with a path (a sequence of names, empty if there is none) and a page or `NoPage`. The
graph is external (`create_react_agent`): rounds of `CallTool` and one `Search` for each
call, up to `MaxSteps` rounds, after which langgraph answers in place of the model. The
history has questions and answers only, as `routes_chat.py:99-106` makes it.
`StripReasoning`, `Citations` and what they use are the functions of
`routes_chat.py` and `to_citations`. `BlockEnd` is the non-greedy match of one
alternative of the regular expression, `Unblocked` the substitution from left to
right; two halves of a tag that stand beside each other are a tag to it (`Opened`,
`Closed`), and two that a removal brings together are not, because it goes over the text
once. `FileName` is `os.path.basename`, `PageOf` is `page or 0`. `TurnRaises` is the one
`except` around all of it: of the model or the graph, but also of what is done with the
answer and with the citations after the token frame was sent. `found` remembers which names
and pages this turn's searches gave, whatever `Citations` makes of the messages.

`ImplementsEndpoint` maps the turn to a handler of `ChatServer` on an open
connection: the steps of model, tool and reasoning are the one choice of
`ChatServer!Answer`. So what the chat runs show of any answer holds for these.

### Administration pages

One tab is modelled in full, the other tabs of the browser as an environment that
may replace the cookie (`SignInElsewhere`) or drop it (`CookieGone`, also for
`max_age`). A call is handled by the server at some time (`Handle`), and its answer or
a failure arrives at some time (`Arrive`): fetch has no timeout, so a call may also
be handled after the tab has seen it fail. `Load` is the start of the page, with the guard of
its first navigation, and aborts what was on its way; `Go` is a navigation, which
calls off one that still awaits its guard. `MeAnswered` is the rest of `fetchMe` and of
the guard, `LoginAnswered` and `Confirmed` the two awaits of `login()`, `LoggedOut` what
follows the await of `logout()`. `stale` is a history variable, in which the
excuses of `SignedInAs` are kept.

### Index

A version of a file is its content and stands for what is computed from it: the
hash and the chunks. `disk` holds the version of each file or `Absent`, `store` how
many copies of the chunks of each version are in the vector store, `saved` the
entries of `index_meta.json`, or `Torn` when the file cannot be parsed. A runner is a
thread of the server, which takes `_REINDEX_LOCK` first, or a command line
process, which knows no lock. `meta`, `todo`, `path`, `docs` and `failed` are the local
variables of its run. Per file there is a step for the comparison of the hash
(`Compare`), load and split (`Read`), `add_documents` (`Add`, `AddFails`), the second
hash and the record (`Record`); at the end one for the truncation by `open(path, "w")`
and one for the text. Two runs that write at once may leave the tail of the longer
text behind the shorter one, so `Write` may leave `Torn`. `LoadTorn` is the run
that raises on such a file. `Die` ends the server with all of its runs, or one
process, at any step, and keeps the files and the store. `Edit` changes a file:
with `Edits` while runs are under way, without it between runs only.

`exempt` is a history variable: the files whose chunks the code may store again. A file is
in it once a forced run or two runs at once went over the files, once its content went back
to one that is in the store and not in the record, or once a run died between adding
it and saving.

Left out: the summary in the kv table, which is only displayed; the failures that
the record keeps from one run to the next; files whose type is skipped.

## 3. Runs

Passing runs:

| run | instance | shows |
|---|---|---|
| `accounts_concurrent` | 2 accounts, 1 session, 2 fair threads, maximum 2, counts to 3 | no missed lock, no lock lifted by its own account, and a full count ends in a lock or a cleared count |
| `accounts_policy` | 2 accounts, 2 sessions, 2 threads, maximum 1 | each step of a request that met no other on a row it relies on is a step of `AccountPolicy`, and what it read is still so, whatever the other does |
| `accounts_restart` | 3 accounts, 2 sessions, 2 threads, crashes, no wrong passwords | no orphan session and nothing comes back, crashes included; the last administrator goes only if two deletes are past the count at once |
| `chat_page` | 2 turns, 2 chats, answers empty, short or above the cap of an item, server stops, reloads | answers land behind their own question; one connection works for the page; a stream has its source; localStorage is what is displayed; a turn that failed is not revived; all of it with connections lost at any time |
| `chat_ends` | 2 turns, 2 chats, fair timers | every turn leaves the streaming state, even if the server answers nothing; as long as no server is stopped, the timer that ends it is pending all the while |
| `settings_puts` | 2 threads, either with any of the bodies: one section, one field or the pair, or two sections in either order; restarts | until two requests share a section a PUT takes effect whole or not at all and a process that stops starts again on what it had written; a section that was never shared keeps its pair legal and its singleton as the table says, whatever happens in the others |
| `health_light` | 2 pages, 1 administrator, 2 addresses, restarts; cache 2 ticks, probes of up to 3, page 1 | a page waits for one probe at most; what it is told is true unless something changed within a cache life and a probe of when the server found it out |
| `agent_answers` | answers of up to 4 tokens (of 3 when white space is among them), and of halves of tags beside a block; up to 2 rounds of 2 searches; documents of one name in two directories, one without path and page | no block of the answer is shown, nothing beside the blocks lost, the sources are those of this turn's searches, the frames those of `ChatServer` |
| `admin_pages` | 2 accounts, 2 sessions, 2 loads, 2 calls on their way, other tabs | pages are on display under the name of the cookie's account; logouts and navigations come to their end whatever fails |
| `index_runs` | 2 files, 4 contents (one unreadable, one blank), 2 threads, 1 command line, deaths at any step | what is recorded is in the store, a run leaves no file out silently, a content is stored twice only of an exempt file, the lock is held by the run under way and nobody else |

Runs whose counterexample is a disagreement between the code and its own
documents or comments (`findings` quotes them):

| run | the code |
|---|---|
| `accounts_last_admin` | two administrators delete each other: both pass the count first |
| `chat_server_gone` | the close of a connection clears the timer and tells nobody: the page streams for ever |

Other places where code and documents part, seen while modelling and without a
run of their own:

* `frontend/src/stores/chat.ts:243` does not look at the status: stop, pressed while an
  error is on display (4 s), writes the partial answer of the failed turn into the
  chat, which `chat.ts:228` says is not done;
* `ingest/indexer.py:53` adds chunks without ids, so a run that died before the save, a
  forced run, and a file that went back to an earlier content leave them in the
  store twice; the design document of 2026-07-24 (line 155) derives ids from hash
  and number, which would replace them. `StoredOnce` says that these, and two runs at
  once, are all the causes there are;
* `app/admin/auth.py:61` locks when the count equals the maximum: a stop between the
  count and the lock leaves an account that no later count locks;
* `app/admin/settings.py:153` validates chunk_size and chunk_overlap against one
  read of the row and `settings.py:198` merges with another: two requests that are each
  legal may store a pair that is not;
* `ingest/indexer.py:62` hashes the file again after it was loaded: one that changed in
  between is recorded with the content that was not indexed;
* `ingest/fingerprint.py:49` truncates the file it writes: a stop in between, and every
  later run raises at the load;
* `app/main.py:74` lays `DEFAULTS` over the singletons when the table is empty, so
  the environment variables of `README.md:242` have no effect on the server;
* `rag/embeddings.py:19` reads the environment, so a stored `embedding.model` is
  not used after a restart, which `app/main.py:68` says it is;
* `app/routes_chat.py:160` asks for `get_retriever(k=6)`, so a stored `retrieval.k` is not
  used by the chat, which `app/admin/settings.py:51` says it is;
* `app/admin/accounts.py:113-119` is not the single transaction of the design document:
  two changes of one password verified against the same old one both write;
* `app/admin/auth.py:69` opens a session on an account that another login locked
  after this one read its row;
* `app/admin/routes.py:247` updates the singletons apart from the row: two requests on
  one section may leave the values of the one stored and of the other in use;
* `app/routes_chat.py:88` refuses a history with an answer above the cap of one
  item, and the page sends that answer with every later question of the chat;
* `app/routes_chat.py:57` says that reasoning blocks are removed. The substitution is one pass
  that ends a block at the first closing tag: of two blocks of one kind inside each
  other the end of the outer one is shown, and pieces of tags on the two sides of a removed
  block may make a block of their own, which is shown too. `ReasoningHidden` is
  therefore about the tags of the answer itself, `AnswerKept` about what is outside of the
  shortest blocks;
* `rag/citations.py:32` keeps the name of a file only, and `ingest/indexer.py:32` takes files
  of all directories: of two files of one name, `app/routes_chat.py:125` shows one when they
  are cited with the same page. `CitesTheSearches` counts names and pages for that reason;
* `rag/citations.py:19` numbers citations within one search, so the numbers of a turn
  with several searches repeat; the page counts anew (`MessageItem.vue:60`);
* `frontend/src/stores/health.ts:27` has a label for a degraded server whose model
  answers, which `routes_health.py:63` never reports;
* `app/routes_health.py:65` counts the chunks before it answers, and the first count in
  a process loads the embedding model; and `routes_health.py:41` gives its 2 s to every
  single operation of the probe. In both cases the pages, which wait 3 s, call a server
  offline that is about to answer. `WaitsForOneProbe` bounds the wait in probes, not in
  seconds;
* no view of the administration goes to the login page on a 401, as
  `2026-07-25-admin-backend-design.md:361` says: the guard trusts `me` until the page is
  loaded again (an excuse of `SignedInAs` is not needed for that: the name on display
  is still the one of the cookie's session, which has ended);
* `frontend/src/stores/admin.ts:49` drops a failure of logout, after which the session and
  the cookie are still good;
* `frontend/src/stores/admin.ts:20` stores the answer to a `/me` whose navigation was
  called off, if it comes after that of a later one;
* `app/admin/routes.py:93` sets the cookie's age at login only, while the session slides
  in the database: what slides by 24 h for the server ends 24 h after the login for
  the browser.

Bounds. Two threads are what a race between two requests needs; three accounts
let one act on a second while a third remains. `MaxFailed` is 2 in place of 6:
the count is only compared with the maximum, 2 leaves a value below it and
`CountBound` 3 lets concurrent logins go one past it. `accounts_policy` has maximum 1
instead, so that one wrong password locks and the counts do not multiply what is
already a run of all handlers; `accounts_restart`, which is not about counts, starts no
wrong login (`CountBound` 0). Two sessions are needed for
one of a deleted account beside one of the request that deletes it
(`accounts_restart`); for the rest one will do. Two turns give an old connection
and a new one, two chats a stream elsewhere. Sizes are units: an item of the
cap, a total of four items, and an answer of two units that is above the cap of
an item once it is sent back as history. Two files are needed for a run that
fails on one and goes on to the other or dies between them; two contents with
text for a file that changes and changes back; `MaxCopies` 2 lets chunks be
added that are there already. In `health_light` a probe may take 3 ticks and a page waits 1, so that pages give up on a
probe that goes on and ask again while it does; a cache of 2 is hit after time has passed
and outlived by a probe; two pages make one wait for the probe of the other, and a third
would only be one more of those. Bodies of one field each reach the race of the
retrieval pair, bodies of two sections in opposite orders the one between rows and
singletons. Four tokens are two nested or adjacent blocks, or, with three, one
with text inside and outside; halves are put around and beside one block; two pages of
one file, the same page of a file of the same name elsewhere, a document that has
neither path nor page, and an earlier question and answer are what the citations could
confuse. Two calls on their way let one of a
navigation called off come after another's, or a logout run beside a login; two
sessions let another tab replace this one's. `CHECK_DEADLOCK FALSE` is set for the
chat, where ids of turns are bounded and a user may do nothing, and for the agent,
whose turn ends. Symmetry (ids of accounts,
sessions, threads, chats) is used in runs without liveness only.

Fairness. `accounts_concurrent` assumes that a thread runs on what it has begun
(`WF` of each worker's `Serve`): clients need never send, the clock need not move.
`chat_ends` assumes that the browser fires due timers, and nothing else: neither
that the server answers nor that the network delivers nor that the user acts. So
the property rests on the 90 s timer alone, and `chat_server_gone` shows the case
in which the code takes that timer away.
`admin_pages` assumes that the browser answers or fails every fetch some day (`WF` of
each `Arrive`), as it does for a connection that is lost; the server need not answer.

## 4. Proofs

Those of the accounts are for any sets of accounts, sessions and threads and any
maximum above 0, from the assumptions named in `AdminAccounts` (the null values are
no ids, the seed is a user name and a password).

* `TypeCorrect`, with restarts. `TypeOK` is inductive.
* `SessionsAlwaysOwned`, with restarts. `SafetyInv` strengthens `SessionsOwned` by
  `RowsDrawn` (locked rows exist and ids in the tables were drawn, so a new account
  inherits neither lock nor sessions) and `ActsOnAnother` (a request that unlocks
  or deletes was refused for its own account).
* `LockLifted` and `NeverResurrected`, action properties, follow from the same
  invariants, one step per action (`LiftStep`, `NoReturnStep`).
* `LockoutAlwaysComplete`, without crashes: the property is inductive with the
  types because it says where the request is that will lock. With a crash it is
  false (section 3, `auth.py:61`).
* `UncrossedImplementPolicy`, for any number of threads: every step of `Spec` is a step of
  `AccountPolicy`, or stutters, or is made by a request in `crossed`. The refinement counts
  the second write of a lock or unlock as done with the first. The invariant it
  needs is `RowsAsRead`, which `UncrossedRowsAsRead` states by itself: what a request read
  of its row is still so at its next call, whatever others do elsewhere. Crossed
  requests do depart from the policy, as `accounts_last_admin` shows.
* `LastAdminAlwaysKept`, with crashes. `LastInv`: as long as no two deletes were past the
  count at once, the one that is past it leaves somebody when its row goes, although other
  requests create and delete in between.
* `PolicyKept`: the policy itself, for a maximum above 0, locks exactly at the
  maximum, owns its sessions and keeps an administrator.

Those of the index are for any files, contents, threads and command line
processes, from the assumptions named in `Indexer`, and all of them allow deaths
at any step.

* `TypeCorrect` and `LockAlwaysTheRuns`: each is inductive; the second says of every
  thread that it holds the lock exactly while it runs.
* `RecordedAlwaysStored`, for files that change between runs only (`~Edits`).
  `StoredInv` strengthens `RecordedIsStored` by `RunsBacked`: the entries each run has
  in memory are backed by the store, and what a run is about to record it has
  added and is what the file holds. Since copies are never removed, this survives
  other runs, whichever save comes last. With edits during a run it is false
  (`indexer.py:62`).
* `RunAlwaysIndexesAll`, under the same assumption. `AllAccounted` says of every file,
  at any point of a run, that it is still to do, being processed, without text,
  recorded as it is, or among the failures.
* `StoredAtMostOnce`, under the same assumption. `OnceInv` says of a file that is not exempt
  that at most one run, and none with force, is under way, and that its present
  content, if it is in the store, is known to that run (in its record, or about to be
  put there) or, when there is none, to `index_meta.json`. So what is added was not
  there.

Those of the settings and the health light are for any threads, bodies, pages,
legal values and times, restarts included, from the assumptions of `AdminSettings`
and `HealthProbe`: bodies name the sections of the fields they set, and defaults are
values that make a legal pair. Nothing is assumed of which bodies a thread gets, or of how long a
probe takes beside what a page waits.

* `SettingsTypeCorrect`: no singleton ever holds a field that is not set, although the
  hot reload and the start lay partial rows over it. `TypeOK` is inductive.
* `SharedOnlyBreaksOverlap`, `RuntimeAlwaysMatches` and `PutImplementsPolicy`. The code does not
  keep two requests off one section, and then all three may fail (`settings.py:198`,
  `routes.py:247`), so each says what holds of a section that is not in `shared`: the
  first two section by section, the refinement until the first one is. The invariant is
  `MatchInv`. It says of each request and each such section, by where the request
  is: what it read is what the table still holds (`PendingMerged`, `PairChecked`), what
  it has written is stored as it was merged (`WrittenStored`), and what it has applied is
  in use (`AppliedInUse`). `InUseOrComing` says that the singletons hold what table and
  defaults say, or that the one request that may write the section has merged it
  and is yet to apply it. `RuntimeMatches` is what is left of that when no request
  on the section is under way. For `PutImplementsPolicy` every database write maps to the policy's
  write of the same section and every other step to none.
* `WholePairsStayBelow`: if every body that names one of chunk_size and chunk_overlap names
  both, as the retrieval form of the page does, the stored pair stays legal with any
  number of requests on the section at once (`PairInv`).
* `ServerTypeCorrect`: the types of both together.
* `NeverWaitsForTwo`. `WaitInv` strengthens `WaitsForOneProbe`: the lock is held by exactly
  the request that probes, or by a probe that its page has left; who queues behind it has waited
  no longer than the probe is old; and when the lock is free, whoever has waited finds an
  entry that was just made.
* `LightAlwaysFollows`. `TruthInv` says of the cached outcome that it is true of the
  address in use or nothing has been steady for longer than its age and a probe;
  and of the probe under way that it asks the address in use or that changed since it
  began. `OutcomesTrue` carries this on while an outcome waits for the store.

Those of the chat are for any number of turns and chats, any sizes and caps, with
shutdowns and reloads, from the assumptions of `ChatWire`, `ChatServer` and
`ChatClient`: sizes are numbers, no question is empty, the null chat is no chat.

* `ChatTypeCorrect`, `NeverTwoConnections`, `StreamAlwaysHasSource`, `AlwaysSaved`,
  `AnswersAlwaysMatch` and the action property `FailedAlwaysStays` follow from one
  inductive invariant, `Inv`. None is inductive alone, for the handlers of chat.ts
  compare chats and not turns, and a socket that has settled can still be open. What
  makes them safe is spread over both sides. `Orderly`: the server's frames are in
  order, a final one is followed by the end only, and it is sent as the handler ends;
  so a connection that has settled while open brings only the end (lemma `Speaking`: a
  frame that says anything comes from the connection that is held). `Source`: a
  connection is held exactly while something streams, and it is of that chat.
  `Pending`: the last message of that chat is the question of the turn that streams,
  so what is received belongs under it whenever it is kept, by `done` or by a stop.
* `WaitsAlwaysEnd`, the safety that `TurnEnds` rests on: while something streams its 90 s
  are pending, and while a failure is on display its 4 s are. `Told` strengthens it: a
  connection that has not settled hears `done` or `error` before its end, because every
  way out of the handler sends one of them first, so `onclose` cannot take the timer of
  a turn that streams. A stop of the server is the one exception, which the theorem
  names and `chat_server_gone` reaches.

Those of the administration pages are for any accounts and any numbers of sessions,
loads and calls.

* `PageTypeCorrect`. `TypeOK` is inductive; it holds that a navigation waits only for
  a page that is guarded.
* `AlwaysSignedInAs`. `PageInv` says which answers a call may carry (an answer of `/me`
  names the owner of the session it was sent with), that the cookie names a session
  that was made, and that a page on display which is not stale has `me` from it.
* `NavigationAlwaysWaits`, the safety that `NavigationEnds` rests on: the call that a
  navigation awaits is under way and is still the one of its guard, since only a load
  drops a call that has not been answered, and it begins the navigation anew.

Those of the agent's turn are for answers of any length, tags of any kinds, any
histories that end in a question, any results of a search and any limits. They rest on
what the recursive operators of `AgentTurn` compute, which needs induction over
data. The library's theorems for that take an operator as a parameter, which no
installed prover instantiates, so `AgentTurn_proofs` proves them in a form without: a set of
numbers has a least element (from the library's `WFMin`), so a set that has 0 and
with each number up to n the next has all of them (`UpTo`), and a recursion over
`0 .. n` whose steps are a function has a solution (`Recursion`). From these:

* `OnlyTakes`: what `Only` takes stands in the text, in its order, and is all of it if
  every place is taken. `UnblockedIs`: a place that the substitution leaves opens no
  closed block, and one that it takes lies between an opening tag and the first that
  closes it. `StripIs` combines them for `_strip_reasoning`.
* `AddAllIs` and `CitationsIs`: the citations of a turn have the names and pages of the
  documents its messages carry and each of them once.
* `TurnTypeCorrect`, `AlwaysReasoningHidden`, `AlwaysAnswerKept` and `AlwaysCitesTheSearches`
  follow from `TurnInv`: `FoundInTurn` (what the searches gave is what the messages after
  the question hold, since the loop appends no question), `AnswerLast` (the message
  that ends the loop is the model's) and `SentSoFar` (the frames sent by each point are
  those computed of the messages, which no longer change).
* `TurnImplementsEndpoint`: each of the turn's steps is a step of `Handle` of `ChatServer`
  with an answer of some size, or none. The size is not that of the model's answer
  but of what is left of it, so `Sizes` has every length up to it.

Only model-checked: liveness (`LockoutSettles`, `TurnEnds`, `LogoutLeaves`,
`NavigationEnds`), which is beyond this prover; `LockoutAlwaysComplete`, `WaitsAlwaysEnd` and
`NavigationAlwaysWaits` prove what it rests on. Every invariant and every action
property that a passing run checks is a theorem.

## 5. Plan

In order; what is done is marked.

1. Accounts, the abstract policy, refinement and proofs: done.
2. Chat: wire, server, page and their composition, and the agent's turn as a
   refinement of the handler, with theorems about both: done.
3. Settings: steps and atomic policy, with the refinement proved for any threads until two
   requests share a section: done.
4. Index: steps, deaths, the command line beside the server, five theorems: done.
   Next: what still holds when files change during a run, and the summary in the kv
   table, written after the lock is released.
5. Health light composed with the settings, three theorems: done.
6. Administration pages, three theorems: done.
7. Invariants the liveness properties rest on (something is always under way that ends
   what is waited for), as theorems: done for lockouts, turns and navigations.

## 6. Not modelled

Document loaders, splitter, embeddings, the vector store's search and the language
model are third-party computations, of which only the outcome matters here; they
appear as choices. Static files, theme, markdown, layout and formatting keep no
state that another part depends on. The pages with the accounts and the settings
are forms over the calls that `AdminAccounts` and `AdminSettings` model.
