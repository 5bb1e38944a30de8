# python-seoulgokr-api in TLA+

Specifications of the parts of this client library whose correctness depends on
interleavings, clocks, failures and configuration: the per-service rate limiter,
the logical call with its two layers of retries, the settings and the sharing of
limiters between clients, and what is made of the provider's answers, from the pieces
of a body to typed items. The reference is the Python code
under `src/seoulgokr`; its documents are quoted only where code and document
disagree.

## 1. Inventory

The library is asyncio code without threads or persistence. Whatever is concurrent
is a set of tasks of one event loop, interleaved at `await`.

| Component | State | Operations | Modules |
|---|---|---|---|
| Rate limiter, `rate_limit.py` | per group: lock, semaphore, policy, last start, count and date, cooldown deadline | `slot()`, `cooldown()`, `mark_cooldown()` | `RateLimiter`, `QuotaContract` |
| Limiter registry, `rate_limit.py`, `transport.py` | limiters of the running loop by digest of credential and endpoint | `shared()`, `_limiter_for()` | `SharedLimiters` |
| Transport, `transport.py` | retry budget of the call, HTTP client | `request()`, `_request_with_retry()`, `_backoff()`, `mark_cooldown()`, `aclose()` | `LogicalCall`, `SharedLimiters`, `PageRequest`, `Exchange` |
| Client, `client.py` | none of its own | one method per service, all through `_query()` | `LogicalCall`, `PageRequest`, `Envelope`, `Exchange` |
| Settings, `config.py` | mutable, validated on assignment | `from_env()`, `validate_base_url()`, `policy_for()`, `quota_group()`, `subway_key` | `Settings`, `SharedLimiters` |
| Parsers, `parsers/`, `errors.py` | none | JSON and XML values, envelope, result code, rows, typed fields, outcome | `DocumentShape`, `Envelope`, `JsonValues`, `Payload`, `Parsers`, `Exchange`, `Formats` |
| Redaction, `redaction.py` | none | `redact_value()`, `redact_url()` | `JsonValues`, `Exchange` |
| Models, scripts, examples | none | records, a file scan | not modelled |

How they interact: a method of the client calls `_query`, which makes a
`RetryBudget` and calls `transport.request`. The transport derives the policy from
the settings, looks the shared limiter up and enters `limiter.slot(group, policy)`
for every HTTP attempt. After the slot is left it may record a cooldown from
`Retry-After`, and back off. The answer goes back to `_query`, which parses it, may
record a cooldown for a quota error through `transport.mark_cooldown` and may retry
on the same budget.

What is hard in it:

* `slot()` sleeps while it holds the lock; `mark_cooldown()` moves the deadline in
  the meantime without taking the lock; the count, the date and the interval have to
  be looked at again after each sleep.
* A task may be cancelled at every `await` and has to give back what it holds.
* The permit is free before the answer has been looked at; the cooldown has to be
  in force before another task can use the permit.
* Two layers retry on one budget, and a backoff holds no permit.
* Settings may be assigned to while calls are under way; several clients with
  different settings share one limiter.
* The provider reports quota exhaustion inside HTTP 200, in several shapes.
* The same answer comes as JSON or as XML, which has no types, nulls or lists of one;
  its body comes in pieces and may break off or be longer than declared.
* Base URLs that differ in spelling are one endpoint; keys come from arguments and
  environment, and may be echoed by the provider.

What makes each part correct:

* limiter: never more calls on a date than budgeted, none within a cooldown, no
  refusal without cause, no permit lost, everybody gets through;
* logical call: at most `max_retries + 1` requests, pauses asked for by the
  provider are kept by everybody, every call ends;
* settings and registry: one limiter per credential and endpoint, however its URL is
  spelled, with one concurrency and one policy per group;
* requests: nothing is sent that the provider would turn down for its range;
* parsers: an error never becomes data, a documented answer is never rejected,
  quota errors are recognised and not retried, both formats give the same items;
* transport and redaction: what is parsed is one whole body within the limit, and no
  echo of the key leaves the library.

The hazards behind these, with their lines, are listed in `PROJECT.json`.

## 2. Modules

`RateLimiter` is the core. `LogicalCall` extends it: every action of a call is an
action of the limiter or leaves it alone. `QuotaContract` is the abstract
specification of the limiter. `SharedLimiters` extends `Settings` and composes
clients, settings and a reduced limiter. `Envelope` extends `PageRequest` and follows
one attempt on the shape of an answer (`DocumentShape`); its outcomes are the answers of
`LogicalCall`. `Parsers` computes on values (`JsonValues`) what `Envelope` decides on
shapes, and `Exchange` reads a body and hands it to them; it implements `Envelope`. What
a body is parsed to is a parameter of `Exchange`; `Payload` has the two formats, and
`Formats` puts them together and says what a documented answer is. Each state machine has
an `MC` module with its instances. `RateLimiterProofs`, `LogicalCallProofs`,
`SettingsProofs`, `SharedLimitersProofs`, `EnvelopeProofs`, `ExchangeProofs` and
`FormatsProofs` hold theorems about the module they are named after; `Recursion` holds
those about functions that are defined recursively, for others to instantiate.

Definitions whose comment begins with `Fault:` are wrong on purpose. Each is a
plausible bug of the definition that follows; putting it in its place makes TLC
violate one property (`mutants` in `PROJECT.json`), which shows that the property
notices.

### RateLimiter

One group of one limiter. An action is what a task does between two suspension
points.

| TLA+ | Code |
|---|---|
| `created` | the group has a `_ServiceState` |
| `policy`, `lastStarted`, `callsToday`, `callDate`, `cooldownUntil` | the fields of the same names |
| `permits`, `semq` | `state.semaphore` and its waiters |
| `holder`, `lockq` | `state.lock`: who sleeps with it, who waits for it |
| `pc`, `want` | where a task is, with which policy |
| `now`, `today` | `time.monotonic()`, the date in the quota time zone |
| `Enter`, `SettlePolicy`, `RefusePolicy`, `TakePermit` | `slot()` up to the admission loop |
| `Cool`, `Reject`, `Pace`, `Start` | one turn of the admission loop, to its sleep, error or exit |
| `Leave`, `MarkCooldown`, `Defer`, `ApplyCooldown` | end of the body, `mark_cooldown()`, `cooldown()` |
| `Cancel` | `CancelledError` |
| `served`, `deadline` | history, read by properties only |

`Leave(t, d)` includes the `mark_cooldown()` its caller makes before it awaits
again: that is one turn of the event loop, and the model would otherwise allow an
admission in between that the program does not.

Treating every `await` as a suspension point adds interleavings (an uncontended
lock does not suspend) and removes none. An early return from a sleep is included:
a sleeper may run again at any time and finds its condition unchanged.

### LogicalCall

`call[t]` is the budget of the call, the end of its backoff and the requests it has
sent. `Begin`, `Resume`, `Wait`, `Send`, `Refused` are the passage through the
limiter; `Arrive` the request reaching the provider; `Throttled`, `ThrottledFor`,
`ThrottledTooLong` HTTP 429 and 500/502/503/504 by their `Retry-After`;
`NetworkFailure` timeouts and transport errors; `UpstreamTransient` and
`UpstreamQuota` the application errors `_query` acts on; `Finish` every other end.
`arrived` and `quiet` are histories of what the provider counted and asked for, `late`
of the requests from a slot that it got in the latest pause.

What is assumed of the world outside. A request that the client gives up, at a timeout
(`transport.py:265`, `transport.py:315`) or by cancellation, may already be on its way:
`adrift` counts those, and each of them may arrive at any later time (`ArriveLate`) or
never; `strays` remembers how many there were when a date began. Every request arrives at
most once, and the provider's date is the one of `quota_timezone`. An answer is an answer
to a request that has arrived.

### Settings and SharedLimiters

`Settings` is `SeoulOpenDataConfig`: `FromEnv` how arguments and environment make it,
`Canonical` the form a base URL is brought into, `KeyFor`, `PolicyFor` and `Allowed`
what a request takes from it. A path is a sequence of segments, a segment a sequence of
symbols of which one stands for all ordinary characters. `Normalised` goes through it
segment by segment, as `posixpath.normpath` does. `SameEndpoint` says without computing a
form which spellings mean the same: a segment lasts if the path never leads above it
later (`Height`, `Lasting`), and two paths are one resource if the lasting segments, with
the number of those that follow (`Following`), are the same.

`SharedLimiters` has clients with settings, the registry of the running loop and
requests under way. `Open` makes a client from the environment, `Reconfigure` makes one
of given settings or assigns to it at any time, `Close` ends one and `NewLoop` the loop.
The settings of a request are read when it is made, its limiter is kept through HTTP
retries (`RetrySame`, `Throttled`) and looked up anew by a retry of `_query`
(`RetryAnew`, `Again`) and by the cooldown for a quota error (`QuotaExceeded`).
`AsyncSeoulTransport._limiters` is written and cleared by the code but never read,
and is left out. Time is reduced to whether a group is paused. `owed` and `strayed` are
histories of the pauses the provider asked for: `strayed` are those asked for when the
settings no longer led to the limiter of the call.

### PageRequest and Envelope

`PageRequest` says what a call asks for and whether it is sent. The code counts the
rows of a range twice: `PageSize` before the call in `_validate_pagination`,
`PaginatedResponseLimit` after it in `_query`. `Asked` counts them once more from the
range itself; the properties compare the two with it.

In `Envelope` a call is refused (`Refuse`) or answered (`Answer`) and the answer
understood. An answer is how it is wrapped, where it carries codes, the shape of its
rows. The guards of the actions are the checks of `extract_envelope`,
`extract_citydata_envelope` and the service parsers, in their order; the outcome
records what `_query` does next. Names that the code treats alike are one name. Two
consequences of the code, which the properties respect: rows are looked at before the
code (`common.py:104`), so that `INFO-200` with an empty `<row/>` is rejected, and a
bare code at the top of a document makes no envelope (`common.py:96`), so that an
`ERROR-337` there starts no cooldown.

### JsonValues, Payload, Parsers, Exchange and Formats

| TLA+ | Code |
|---|---|
| values of `JsonValues` | what `json.loads` gives: text, number, bool, null, object, list |
| `Values`, `Depth` | the values of the instance with all their parts, and how deep they are nested; what recursion over values needs |
| `Markup`, `Nesting` | the XML elements of the instance, and how deep they are nested |
| `Written` of `Payload` | how the provider writes a value in XML: several elements for a list, none for an empty one, a blank text for a null |
| `XmlValue` (`XmlLevel`, `Merged`, `Joined`), `ParsePayload` | `_xml_value`, in which repeated elements become a list; `parse_payload` |
| `ParsedAs` | what the body of a content in a format is parsed to; by `ParsedAsWritten` of `Formats`, which the runs assume, `ParsePayload` of what is written |
| `RedactLevel`, `RedactValue` | `redact_value`, by one level of a value and all of it |
| `FirstValue`, `NormalizeKey` | `first_value`: names that differ in case and punctuation are one |
| `TextOf`, `IntOf`, `FloatOf`, `BoolOf`, `DatetimeOf` | `text_value` and its like |
| `Unwrap` ... `ExtractRows` | the functions of the same names in `parsers/common.py` |
| `Fields`, `Typed`, `CityData` | the models built in `parsers/services.py` |
| `Understanding` | `_query` from the body to a result or error |
| `at`, `left`, `response`, `chunks` | one request in `_request_with_retry`: its retries, the answer, the pieces read of it |
| `Headers`, `Piece`, `TooLong`, `EndOfBody`, `Interrupted` | the stream, the limit on it, and what breaks it off |
| `Assign`, `replaced` | the key assigned anew during the request, which `_secret_values` then no longer has |

Texts and names are words of a small set; `Numeral`, `Moment`, `Truths`, `QuotaWords`
and `Synonyms` say what the code makes of them. `seen` is the document, in the sense of
`Envelope`, that the body amounts to (`Document`); with it `ImplementsEnvelope` states
that the parsers recognise on values what `Envelope` says of shapes, for every service.

`Documented` says of a content, as the parsers get it, what the documents of the provider
and the parsers' own lookups ask of it: names that differ, rows and results of scalars, one
list of rows, which is no list of lists; the fields under the service, or at the top with
an `errorMessage` for the subway API; for a good answer a mark of data.

Three differences between the formats are in the code and outside of `ItemsAgree` or
`Documented`:

* the total count, which in JSON is also looked for in a top-level `errorMessage` and in
  XML is not, because the root is unwrapped first (`common.py:387`). `ItemsAgree` leaves
  totals out; and an empty list, which is not in the XML, needs another mark of data than
  such a total (`Backed`);
* a boolean of blanks only, which is false in JSON and missing in XML (`common.py:189`,
  `common.py:418`), and a JSON boolean in a field of text, which is `True` in one and
  `true` in the other (`Readable`);
* the root `citydata`, which is a finding (`Exchange_formats`).

## 3. Runs

| Run | Instance | Shows |
|---|---|---|
| `RateLimiter_safety` | 3 tasks, 2 policies (interval 2, budget 2, concurrency 2; interval 1, concurrency 1), delays 1 and 2, 4 time units, 2 dates | permits, queues, budget, cooldown, invariant of the proofs; the limiter implements `QuotaContract` |
| `RateLimiter_liveness` | 3 tasks, 1 policy, no symmetry | everybody settles |
| `LogicalCall_safety` | 2 tasks, 2 policies (concurrency 2 and 1), 2 retries, Retry-After 0, 1 and 4 with a cap of 2 | one budget, pauses honoured, and fewer requests than the concurrency arriving in them |
| `LogicalCall_liveness` | 2 tasks, 1 retry, budget 2, concurrency 1, 2 dates, no symmetry | every call ends; the limiter is used as specified; what the provider counts |
| `SharedLimiters_shared` | 2 clients from environment or given settings, 2 requests, 2 subway services, 3 settings (another concurrency, another key, another budget and spelling of the URLs), assigned at any time; about 1000 spellings of URLs | one limiter, policy and concurrency per credential; pauses stop the whole group; spellings and endpoints agree |
| `Envelope_parse` | 29 calls, at the limits, one step beyond and with small pages; all wrappings, one or two codes, 5 row shapes | what is sent, classification |
| `Exchange_read` | a call of every service, its answers in JSON and XML: good ones with one to three rows, odd ones, empty ones, errors, keys echoed; bodies of 1 to 3 pieces with a limit of 2, 1 retry, 1 assignment | one whole body is parsed; both formats agree; no echo; `Envelope` is implemented |

Bounds. Two tasks are needed to interleave, a third to wait while one sleeps with
the lock and one is in its body. Two dates give one midnight, which may fall at any
time. `Horizon` bounds when something new is asked; past it time runs only for
pending sleeps and backoffs, so that all that was begun is followed to its end.
`EntryCap` stops new calls once a budget is exceeded by one attempt. Delays of 1 and
2 are enough to overlap in both orders with each other and with the intervals. Two
retries are the least with a retry after a retry, by either layer. Two requests fill a
concurrency of 1 and try to exceed it; `SharedLimitersProofs` covers any number. Three
pieces are one above the limit on a body, and one retry leaves an attempt broken off
before the last. A budget of 2 lets one request of a date be given up and another be in
its slot at midnight. Rows have each of the kinds of values a field is converted from. Answers with three or more codes
follow the same precedence as those with two. Pages of one row are filled
and exceeded by one row; the provider's limits have their real values. In
`ArrivalsBounded` the bound is reached: with one less the property fails.

Runs that show a disagreement between code and documents:

| Run | Code | Document |
|---|---|---|
| `LogicalCall_http429` | `transport.py:339`: 429 without `Retry-After` records no cooldown | `docs/data-sources.md:163`: 429 turns into a cooldown |
| `SharedLimiters_midcall` | `transport.py:225`: a cooldown goes to the limiter of the settings after the answer | `docs/adr/005-seoul-provider-http-and-quota.md:45-47`: a changed config does not bypass the quota |
| `SharedLimiters_budgets` | `config.py:195`: a budget named for one realtime endpoint locks the others out | `README.md:61-63`: they share one budget |
| `SharedLimiters_keys` | `config.py:125`: with an explicit `api_key`, the subway key still comes from the environment | `config.py:114-115`: an explicit `api_key` goes first |
| `Exchange_formats` | `common.py:230`: under an XML root `citydata` the root is taken for the block `CITYDATA`, and a good answer is rejected | `docs/implementation-plan.md:142`: JSON and XML give the same typed result |

Fairness. The event loop runs every ready task, so what a task in the limiter can do
is weakly fair, and so is the resumption after a backoff. Sleeps return, so the clock
is weakly fair while something waits for it. The body of a slot ends because it runs
under `asyncio.timeout` (`transport.py:265`). Nobody has to call or cancel. Weak
fairness is enough because both queues are first in, first out.

Deadlock is checked in all runs but those of `Envelope` and `Exchange`, where an
answer once parsed is the end.

## 4. Proofs

`RateLimiterProofs` proves, for any number of tasks, any policies and any delays, of
`Behaviour` (the limiter without the bounds of the runs; `SpecBehaves` shows that the
bounded specification is a special case):

* `TypeCorrect`, `PermitsAlwaysConserved`, `BudgetAlwaysHeld`;
* `QueuesDisciplined`: the lock has one owner and every waiter is in its queue once;
* `CooldownRespected` and `RefusalsJustified`, about steps;
* `LimiterImplementsContract`, the refinement of `QuotaContract`.

All but `QueuesDisciplined`, which is inductive with the types alone, rest on
`LimiterInvariant`. The budget alone is not inductive: that a new call
fits needs `calls_today` to be the number of calls admitted on `call_date` and none
to be counted on later dates (`CountsAgree`), and the task at the gate to run under
the policy of the group (`PolicyKept`). A step may only start outside a cooldown,
but that no deadline was lost needs the field to be the latest deadline recorded, or
cleared after it (`DeadlineKept`). The contract needs the permits conserved, because
the room for one more inside follows from the permit the task holds.

`LogicalCallProofs` shows that every step of a call is a step of the limiter
(`CallsUseLimiter`), so that all of the above holds of calls, and adds
`CallTypeCorrect`, `RetriesAlwaysAccounted`, `SendsAlwaysBounded`,
`QuietAlwaysHonoured`, `FewAlwaysInPause` and `ArrivalsAlwaysBounded`. Its invariant adds that a task is
in the limiter just when it is in a call that is not backing off, and that a pause
the provider asked for is over or covered by the deadline. The bound on arrivals has
an invariant of its own, `ArrivalsKept`: what has arrived today, what is under way in a
slot and what is adrift fit into what was admitted today, the concurrency and what was
adrift when the date began; at midnight what is under way and adrift becomes part of the
new date, and the permits bound the former. The bound on a pause has another,
`PauseKept`: what has arrived in it and what is under way are together less than the
concurrency. The answer that begins a pause has given a permit back, and nothing is
admitted before the pause is over.

The assumptions are those on the constants: finitely many tasks, positive delays,
budgets and concurrency of at least 1, values distinct from `None`, and the delays of
calls among those of the limiter, limits of at least 1.

`EnvelopeProofs` proves `ErrorsNeverData`, `LimitsAlwaysKept` and
`CodeAlwaysDecides` for any calls, documents and limits. The invariant adds that only a
call that was not refused is answered (`SentOnly`). The lemmas behind it are that for such
a call the limit on rows, the size checked and the rows of the range are one number
(`LimitIsPage`), that the code found is one the document carries
(`CodeIsGiven`) and the only one if there is one (`OnlyCode`).

`SharedLimitersProofs` proves the five properties of `SharedLimiters_shared` that are
about its states and steps, for any clients, requests, services, settings and
environment. Its `SharedInvariant` says of every call which limiter and state it has
(`CallOK`), of every limiter that its settled policies have its concurrency
(`RegistryOK`), that the calls in flight of a group are within it (`CrowdOK`), and that
a pause owed is in force in the limiter of its sender. The scope of a limiter is the
credential and the endpoint themselves, so calls that are alike share a limiter; that
they share a policy follows because a limiter settles one policy for a group and never
changes it. No step but the end of a pause or of the loop takes a limiter's state away
(`Keeps`), which carries all of it through assignments and retries.

The sixth, `CanonicalAlwaysIdentifies`, is about values and rests on
`OneFormOneEndpoint` of `SettingsProofs`: base URLs of any length get one form exactly if
they mean one endpoint. `Normalised` walks from the left and takes the last name away for
each ".."; `SameResource` asks which names last and counts from the right. The two meet in
an invariant of the walk (`Holds`): what is left after n segments has the names that last
so far, each as far from the end as the height has grown since, and nothing else. A name
adds itself, ".." drops exactly the name whose height is lost, and nothing is left to drop
when none lasts. The conclusion is `OneFormOneResource`.

`ExchangeProofs` is about `Exchange` for any values, any parsing of bodies, any contents,
calls and limits.

* `BodyAlwaysWhole`: what is parsed is one whole body within the limit. The property says
  nothing of a body half read; `BodyInvariant` adds that the pieces there are the first
  ones of the last attempt, as many as allowed at most, and none before the headers.
* `ExchangeImplementsEnvelope`: receiving the body is the step `Answer` of `Envelope`,
  understanding it is one of its six outcomes, the rest are stutters. Behind it are the
  lemmas that the first code on values is the first code of the document (`CodesAgree`,
  over the eight places in the order of `_extract_result`), that marks and rows agree (`MarksAgree`, `RowsAgree`), and
  that a body parsed is a document with nothing said of places that are not there
  (`DocumentTyped`). `RefinementInvariant` keeps that a body under way belongs to a
  call that was not refused, and that `seen` was made of the body that is parsed. The
  theorems of `EnvelopeProofs` are about all of `Envelope`'s behaviours, so they hold of
  what `Exchange` concludes.
* `NothingEverEchoed`: no key is left in a result or an error. `RedactedWords` says so of a
  redacted value however deep it is nested, `Clean...` of everything that is read from
  one, field by field. It has a hypothesis, `KeyIsText`: `redact_value` leaves numbers and
  booleans alone (`redaction.py:77`), so that a key of digits alone, echoed as a JSON
  number, would stay. A key is a text of letters and digits; the instance of the runs
  satisfies the hypothesis, and the runs check it.

`FormatsProofs` proves `ItemsAlwaysAgree`: for documented contents, with any values, rows,
names and number of them, a request that got JSON ends as one that got XML. The argument
follows the answer through the code.

* `RegularRead`: what `_xml_value` reads of what was written of an object is, field by
  field, the text of a scalar, the value of a plain object, the one element of a list of
  one, the list of several, and no field for an empty list. Two inductions are behind it:
  one over the children of an element, in which the fields merged so far stand for whole
  values and a part of the next (`Merged`), and one over the nesting of values.
* `RedactedAlike`: it stays so when both are redacted, because the key is no text that is
  written for a number or a boolean. The values before redaction are those of the
  hypotheses seen through it (`RawShape`).
* `TextAlike` and `MappingAlike`: a lookup of a text or of a result finds the same in both,
  whichever spelling and place it has; so `_extract_result` does (`ResultAgain`).
* `RowsAlike`: `_extract_rows` finds the same rows in the same order, though a list of one
  is an object and a list of none is missing; `TypedAlike`: a row becomes the same item,
  kind of field by kind of field.
* `WrappedAlike` and `TopAlike` put these together for an answer under its service and for
  the subway API, where JSON has at the top what XML has under the root; with
  `UnderstoodAlike` `_query` passes the same verdict. The invariant (`ParsedIsUnderstood`,
  with `RefinementInvariant`) says that an outcome is what the content was understood as.

Its hypotheses are on the contents and on words. `Documented` is described above;
`ParsedAsWritten` gives `ParsedAs` its meaning; `Legible` says that the words for true and
false are what they are, are no numbers or dates, and that neither the key nor `RESULT` or
`errorMessage` is a word that means something else to the parsers. TLC evaluates all of
them on the contents of `Exchange_read`, so that they hold of real answers of every service,
and the run shows the property on them. The contents with the root `citydata` are not
`Documented`, and there it fails.

Redaction, the words of a value, the walk over a path, writing, reading and merging of XML
are functions defined recursively. That such a function exists, and that what holds of a
value if it holds of its parts holds of all, are lemmas, proved once in `Recursion`
(`RecursiveFunction`, `NodeInduction`), for any set of values whose parts are nested less
deep, from the well-foundedness of the numbers. The assumptions of these modules on their
constants (`JsonValuesAssumption`, `PayloadAssumption`, `ExchangeAssumption`,
`SettingsAssumption`) say that values are JSON values and elements are XML elements, nested
finitely, that redacting, writing and parsing give values and elements, that `None` is none,
and of what shape calls and URLs are.

Model-checked only:

* `EveryCallerSettles` and `EveryCallEnds`. They are liveness properties and depend on
  fairness, which is out of the prover's reach.
* The properties that the code violates, in the runs that show it.

## 5. Not modelled

* Text: building the URL of a request, percent-encoded spellings of a key in
  `redact_text`, `redact_url`, parsing of headers, numbers and dates character by
  character. What makes a base URL or a setting invalid: a value that is refused
  changes nothing.
* Raw copies kept in typed items, and clearing the locals of tracebacks.
* Typed models, the secret scan, the example: no behaviour of their own.
* Injected limiters and more than one loop at a time.
* A wall clock that steps back; numbers that are infinite; see the hazards.

## 6. Plan

1. The `sample` key in calls whose settings change between two attempts: it needs
   `PageRequest` in `SharedLimiters`.
2. A run of `RateLimiter` with a calendar that steps back.
3. Composition of `SharedLimiters` with `RateLimiter` through `QuotaContract`, so
   that its reduced limiter is shown to be one.
4. The composition of `Exchange` with `LogicalCall`, so that the answers of a call are
   those a body can be understood as.
