# Verification of loxone_voice

This directory holds TLA+ models of `loxone_voice`, a service that connects a
Loxone Miniserver to a Telegram chat through Claude: TLC checks them on small
instances, and TLAPS proves every safety property they are checked for, for every
value of the constants. Paths below are relative to `src/src/loxone_voice/`.

## 1. The system

```
 Telegram  --update-->  telegram_bot  --text / click / reset-->  Gateway
 (a task per update)                                               |  whitelist, rate limit,
                                                                   |  pending actions, ConfirmationGate,
                                                                   |  audit log
                                                                   v
                     system prompt (once, at start) -->   IntentEngine  <--> Messages API
                            ^                                      |  tool-use loop, rolling buffer
                            |                                      v
 discovery (HTTP) --> structure file ----------------------->   tools  --> StateStore (get_state)
                                                                   |           ^
                                                     send_command  v           |  value and text events
                                                             LoxoneClient -----+
                                                     _exchange, receive loop, keepalive loop
                                                                   |
                                                            WebSocket transport  <-->  Miniserver

 __main__._run: HTTP client, discovery, connect, polling, teardown, end of the process
```

Everything runs on one asyncio event loop: code between two awaits is atomic,
and every await is a point where another task may run. That is the granularity
of all the models.

### Inventory

| Component | State | Operations | Hard behaviours | What makes it correct |
|---|---|---|---|---|
| Correlation of requests and responses (`adapter/client.py:272-311, 377-437`) | `_pending` (path -> future), `_orphans` (buffered responses), the futures | `_exchange`, `_dispatch_text`, `_find_pending`, `_pop_matching_orphan`, `_abort_pending` | concurrent calls with equal or prefix-related paths, late answers, timeout against result, disconnect and close while calls wait | an answer is used once, an entry belongs to a live call, a future is settled once, calls end, unrelated calls never collide |
| Session lifecycle and handshake (`adapter/client.py:165-260, 439-482`, `auth.py`, `discovery.py`) | `_transport`, `_receiver_task`, `_keepalive_task`, `_closing`, the session key, HMAC key and token | `connect`, `close`, `_teardown`, the two loops | failure at every step of the handshake, disconnect during `close`, tasks awaited after cancellation, reuse of an object, credentials left over from an earlier attempt | nothing is left running, connect and close return, keepalive ends, a connected client holds this connection's credentials, blame falls on wrong ones |
| Transport (`adapter/_transport.py`) | the connection, the flag `closed` | send, recv, close | noticing a disconnect | part of the two above |
| Framing, event parsers, cache (`adapter/client.py:330-375`, `messages.py`, `state.py`) | what the loop awaits, `StateStore._data` | header/payload loop, `parse_*_events`, `set_value`, `set_text`, `get` | staying in step, padding and truncation, two columns of one state, a connection lost between frames | each message changes the cache as a whole or not at all, in order |
| Structure file and prompt (`adapter/structure.py`, `models.py`, `intent/system_prompt.py`) | `StructureFile.controls`, the prompt | flattening with skipped entries, truncation to a maximum, `list_controls` | duplicate uuids, malformed entries, omitted controls | agrees with a loop-free definition; what is omitted can be found |
| Intent engine (`intent/engine.py`) | `_buffer`, `_pending_in_turn` | `run`, `reset`, `_trim_buffer`, `_execute` | trimming between a tool use and its results, cut-off responses, failing requests, overlapping turns | known reasons for a rejected request, turns that end, a bounded buffer |
| Gateway and confirmation (`gateway/core.py`, `confirmation.py`, `telegram_bot.py`, `audit.py`) | `_engines`, `_gates`, `_pending_actions`, `_approved`, `_denied`, the log | text, click, reset, `decide`, `approve`, `deny`, `append_turn` | turns of one user that interleave, clicks on old keyboards, expiry, reset during a turn, failing turns, a restart of the process | a Yes executes at most once and soon, a No is final |
| Rate limit (`gateway/core.py:251-267`) | `_request_times` per user | `_allow_under_rate_limit`, `reset_user` | window boundaries, equal timestamps | never more than the limit in a window, no unfounded refusal |
| Wiring (`__main__.py`) | where `_run` stands, the HTTP client, the turns' tasks | `_run`, `main` | failure at every step of the start-up, turns that make calls during the shutdown | nothing is left open, registered or in progress; the program does not hang |
| Configuration, whitelist, deployment | constants | - | - | not modelled, see section 8 |

`PROJECT.json` lists the components with their sources, and the hazards of the
code line by line with the properties that would notice them.

## 2. The modules

| Module | Models | Correspondence |
|---|---|---|
| `Exchange` | correlation over one connection | A call is a task in `_exchange`: `Begin` is everything up to `await transport.send`, `Transmit`/`SendFails` the send, `Await` the suspension in `wait_for`, `Expire` its timer, `Return` the resumption with the `finally` clause, `Cancel` a cancellation of the caller. `pending` is the dictionary in insertion order, because `_find_pending` depends on it. A path is the sequence of its segments, so "on a slash boundary" is a prefix of sequences. `got`, `outstanding` and `crossed` are ghosts, or the Miniserver. |
| `MCExchange` | instance of it | paths `set`, `set/5`, and another control's `On` |
| `RequestReply` | abstract: what callers get | a reply is owed, kept or used, and handed out once |
| `Service`, `MCService` | the program, EXTENDS `Exchange` | `main` is where `_run` stands. A client step is a step of `Exchange` that leaves `_run` alone; `_run` starts and ends the teardown of `Exchange`. `MayCall` says who may call when: `connect` during the handshake, turns from polling until `asyncio.run` cancels what is left |
| `Session` | the client object | `step` is where the owner stands in `connect` or `close`; the tasks of each connection are separate from the fields that refer to them, because the fields are overwritten when an object connects again. An exchange of the handshake ends with an answer or fails; `Receives` says which answers it can end with: its own, or one to an earlier attempt that is in `orphans` (`_orphans`), where `LateAnswer` puts what a receive task still reads. |
| `Login` | the handshake, EXTENDS `Session` | each step of `connect` with what it sends, keeps and raises, joined with the step of `Session` it is; an honest Miniserver, whose side of an exchange is `Answered` and whose answers carry the connection they were asked on; a hash is told by what goes into it (algorithm, password, key) |
| `EventStream`, `MCEventStream` | bytes to cache | the two-frame loop and parsers on actual bytes (little-endian lengths, padding, truncated records); `Record`, `Encode` and `Frames` are the Miniserver; of a response (type TEXT) only whether it can be decoded, the rest is `Exchange`'s |
| `StateFeed` | abstract: what `get_state` reads | a log of messages applied to one register per state, one message at a time |
| `House`, `MCHouse` | structure file to prompt | `todo` is what the nested loops of `parse_structure_file` have ahead of them; `Raises` is what they do not catch; `Shown` is the sort and cut of the prompt; `Listed` is `list_controls` |
| `IntentEngine` | the tool loop | the buffer as a sequence of message kinds with the identity of their tool use; `Accepted` is the Messages API's rule on tool uses, results and empty messages, judged when a request is sent |
| `Gateway`, `MCGateway` | the confirmation flow of one user | an update is a task; an engine with its gate is a number, a new one after `/reset` or a restart; what Claude asks for is arbitrary |
| `Consent` | abstract: what a Yes is worth | decisions and executions, without turns, gates or keyboards |
| `Admission` | the rate limit | a bucket is the set of the numbers of its turns, since timestamps may be equal |
| `Exchange_proofs`, `Service_proofs`, `Login_proofs`, `EventStream_proofs`, `House_proofs`, `IntentEngine_proofs`, `Gateway_proofs`, `Admission_proofs` | theorems | section 6 |

Three pairs are a refinement: the detailed module instantiates the abstract one
under a mapping of its variables, and the abstract specification is a property
of its run.

| Detailed | Abstract | Mapping |
|---|---|---|
| `Exchange` (and `Service`) | `RequestReply` | `status` from the place of the call in `_exchange`; `reply` from where the response is: on its way, in `_orphans`, with a call, or nowhere |
| `EventStream` | `StateFeed` | the log is what was sent, `applied` what the loop has handled, the registers are `StateStore._data`; a header that a payload follows is a stutter, the frame that completes a message applies it, a failure rejects it, and a disconnect loses the rest |
| `Gateway` | `Consent` | Yes counts and times are ghosts that `confirm_action` moves, executions are those of `_execute`; asking, deferring, denying, resetting and restarting are stutters |

Operators marked `mutant` are not part of a model: each is a definition as a
plausible bug would have it, and shows that the property named with it in
`PROJECT.json` notices that bug.

## 3. The runs

All configurations turn deadlock checking off: there are finitely many calls,
turns, messages or connections, and a system that has used them up has rightly
stopped. That nothing blocks before that is what the liveness properties say.

| Run | Shows |
|---|---|
| `exchange` | Three concurrent calls, each with any of the three paths, with timeouts, failures, disconnect and `close`. An answer is owed, buffered or given, never two of these (`AnsweredOnce`); `_pending` never holds a call that has ended, although callers with one key remove each other's entries (`EntriesHaveOwners`); after closing no registered call waits (`ClosedAbortsRegistered`); a call is answered only with a response whose path matches (`UnrelatedNeverCollide`); without disturbances and confusable concurrent calls everyone gets their own answer (`UndisturbedGetOwnAnswer`); `set_result` never meets a settled future (`SettledOnce`). |
| `service` | The program: however it ends, in the middle of a handshake or with calls of turns in flight, nothing is left open, registered or in progress (`ExitIsClean`); every call ends, also one that lost its entry or waits on a dead receive loop (`EveryCallEnds`); start-up and shutdown never hang (`Settles`); the client implements `RequestReply` throughout (`ImplementsRequestReply`). |
| `stale_response` | Finding 1. |
| `session` | An object that is connected once is clean after a failed `connect` or after `close`, however the failure and a disconnect interleave (`CleanAfterOneUse`); a connected client holds the session key, HMAC key and token of this connection, whatever earlier attempts left in its fields (`ConnectedHoldsCredentials`); `AuthenticationError` is raised for wrong credentials only, or after a refused session key (`BlameIsJustified`). Both have one exception: an object that is used again and whose last attempt took an answer to an earlier one may hold that attempt's token, or blame right credentials because of its key; `connect` and `close` always come back (`OwnerReturns`); the keepalive loop ends after a disconnect (`KeepaliveFollowsDisconnect`). |
| `events` | The loop never confuses headers and payloads (`InStep`), and through bytes, frames and parsers the cache implements `StateFeed` (`ImplementsFeed`): one message at a time, whole or not at all, stopped by the first malformed one and by no other, and never idle while a message waits. |
| `house` | The flattening equals its loop-free definition (`ParsedIsLastWellFormed`), never leaves a dangling parent (`ParentsPresent`), fails exactly when it looks at an entry of one of the three kinds it does not catch (`FailsOnUncaughtOnly`); a control is omitted from the prompt only when it is full, a favourite only for favourites, and is then in exactly one category of `list_controls` (`OmittedWithReason`). |
| `engine` | Results stay with their tool use except at the head (`ResultsFollowCalls`), so there are three reasons only for a rejected request: results at the head, a cut-off tool use, an empty answer (`RejectionsExplained`); a rejected conversation stays rejected until it is reset (`RejectionIsPermanent`); the buffer outgrows its maximum by failed requests only (`GrowsByFailuresOnly`); `TurnsEnd`. |
| `dangling_result` | Finding 2. |
| `gateway` | `OneRunPerYes` for any interleaving of turns, clicks, resets and restarts; every execution has an unused and recent Yes (`ImplementsConsent`); `NoIsFinal` and `OffersOwnDeferrals` while the turns of the user do not overlap. |
| `missing_buttons`, `unaudited_action` | Findings 3 and 4. |
| `admission` | `Spaced`: no window holds more turns than the limit; `CountsTheWindow`: no message is refused without cause. |

### Bounds, and why they are enough

- `exchange`: three calls are two that disturb each other and one they must not
  disturb; the three paths cover equal, prefix and unrelated; one orphan slot is
  both a full and a free buffer. The calls are symmetric.
- `service`: one call of the handshake stands for the four, which `connect` makes
  one after the other, and two calls of turns are two that disturb each other;
  the paths may be equal or one a prefix of the other. No symmetry, which
  liveness does not allow.
- `session`: two connections are an object and its reuse, with the credentials and
  the answers the first leaves to the second. That suffices for a late answer of
  a receive task that nothing cancels: `close` on a new object sets `_closing`, so
  the failure of the first connection already tears nothing down, which otherwise
  takes a third. All spellings of the algorithm, right and wrong passwords, and
  all ways the public key can be unusable.
- `events`: uuids of two bytes and values of one. Record sizes are parameters of
  the parsers, and the padding depends on text lengths modulo four, of which all
  occur. Two messages of up to two events contain every overwrite of one column
  by another and every message after a truncated one. A response may be empty,
  UTF-8 or not.
- `house`: two controls at the top, each with at most one sub-control, over
  three uuids, so that a sub-control may collide with a top control and with
  another sub-control; the empty uuid and `subControls` that are no object occur at
  both levels; the prompt shows two controls of up to four.
- `engine`: two iterations and a buffer of four are the smallest in which a cut
  falls on each kind of message; three turns leave something to trim.
- `gateway`: three updates are the message that defers, the click, and a message
  or click that interferes; one guarded and one free action, two calls per turn,
  one reset or restart. A TTL of zero on a clock with one tick is "fresh" and "expired".
- `admission`: limit 2, window 2, clock to 4: a window begins, ends, and ends
  exactly on a timestamp. A bucket is full, pruned in part, and emptied.

### Fairness, and why the code justifies it

- `Service`: the event loop runs every ready task; timers fire; a send ends or
  raises; `recv` raises on a closed connection; what `_run` awaits ends or raises,
  because HTTP requests, opening and closing have timeouts and cancelled tasks
  end. The Miniserver owes no answer, nobody has to stop the polling, and no turn
  has to make a call.
- `Session` and `Login`: HTTP requests and exchanges have timeouts, cancelled tasks
  end (both loops re-raise `CancelledError`), the keepalive loop wakes from its
  sleep. Nobody has to connect or to close.
- `EventStream`: `recv` returns a frame that has arrived, or raises. Nobody has to
  send.
- `IntentEngine`: the Anthropic SDK's requests have a timeout; tool handlers
  return, because the only one that waits is `send_command`, with its own.
- The other modules are checked for safety only.

## 4. Findings

1. **A late response answers the next call** (`adapter/client.py:286`, run
   `stale_response`). `_exchange` says it awaits "the matching response". When a
   call has timed out, its response is buffered, and the next call with the same
   path takes it before it has sent anything; its own response is buffered in
   turn.
2. **Trimming separates results from their tool use** (`intent/engine.py:307`, run
   `dangling_result`). A `tool_result` message has the role `user`, so the loop that
   should leave "a user message so Anthropic's validator is happy" stops at it. The
   conversation then stays rejected until `/reset` (`RejectionIsPermanent`), because
   only responses and tool results trim.
3. **A deferral without buttons** (`gateway/telegram_bot.py:121`, run
   `missing_buttons`). Claude is told that "The user will see Yes/No buttons"; the
   reply to a click never has any.
4. **Executed but not recorded** (`gateway/core.py:205`, run `unaudited_action`). At
   the iteration cap the record lists no calls, and after any other exception
   there is no record, while `audit.py` calls the log the source of truth.

Findings 3 and 4 need tools that a deployment has to add or a failing turn:
in the default tool set no tool has `requires_confirmation=True`
(`intent/tools.py:151`), so the confirmation flow is dormant there.

Divergences met while modelling that have no run of their own:

- `structure.py:86-89` says malformed controls are skipped. Three kinds are not,
  and the service does not start: an entry that is no JSON object
  (`AttributeError`, line 156), a control whose `subControls` are neither empty nor an
  object (`AttributeError`, line 111), and one with an empty uuid (pydantic's
  `ValidationError`, line 170 with `models.py:72`). `House` models them (`Raises`).
- An answer of Claude without content is shown as "(keine Antwort)"
  (`gateway/core.py:238`) and stored as an assistant message with no content
  (`engine.py:192-194`), which the Messages API rejects in every later request until
  it is trimmed away. `IntentEngine` models it (the kind `empty`).
- `_orphans` outlives a connection, and so does a receive task that a failed
  reconnect did not cancel: the next attempt takes such an answer before it has
  sent its request (`client.py:286-288`), and can end up connected with a token of
  an earlier connection, or raise `AuthenticationError` although the credentials are
  right. `Login` models it (`misled`).
- `system_prompt.py` promises the controls of the highest-rated rooms first; the
  sort of the controls (line 75) does not look at ratings.
- `_closing` (`client.py:453`) is never reset: on an object that connects again,
  a failing handshake and `close` clean up nothing. `Session` models it, and its
  two cleanup properties are restricted to one use by the ghost `reused`.
- `connect` is documented as raising "on any unrecoverable failure"
  (`client.py:173`), but the codes of the answers to `keyexchange` and
  `enablebinstatusupdate` are not looked at: after a refused session key the
  credentials are blamed (`BlameIsJustified` has the exception), and after a
  refused `enablebinstatusupdate` the client is connected and gets no events.
- The architecture promises a reconnect with backoff (`docs/architecture.md:83`);
  after a disconnect the program polls on with a closed client. `Settles` says
  nothing about that state.
- A call whose entry of `_pending` was overwritten is not reached by a disconnect
  (`client.py:280`); it ends by its own timeout.
- `StateStore.clear` is documented as called on reconnect and never called.
- `confirmation.py:67` says the gateway serialises the calls of a user; it does
  not. `OneRunPerYes` holds all the same; `NoIsFinal` and `OffersOwnDeferrals`
  need the ghost `overlapped` to be false.
- Pending actions do not expire, only approvals do (`confirmation.py:14-15`).

## 5. What a reader should not conclude

- `UndisturbedGetOwnAnswer` has the precondition that nothing timed out or failed;
  finding 1 is what happens otherwise.
- `ImplementsRequestReply` promises a call one reply at most, not its own: that is
  finding 1 again.
- `ImplementsConsent` counts a Yes for whatever was pending when it was clicked:
  a keyboard carries no action ids, so a click on an old one is a Yes to the
  actions pending now.
- `EveryCallEnds` and `Settles` rest on the timeouts listed under fairness.
- `RejectionsExplained` does not say that requests are accepted, but that there are
  three known reasons why they are not.
- `ConnectedHoldsCredentials` and `BlameIsJustified` say less of an object that is used
  again (`reused`) than of one used once: see their exception in section 3. The
  program uses an object once.
- `OneRunPerYes` counts executions against clicks. It does not see a deferral that
  overlapping turns lose, a click on an old keyboard that applies to what is pending
  now, or actions a turn on a dropped engine makes pending: the code promises
  nothing there that a property could be taken from (hazards 25, 29 and 32).
- `RejectionIsPermanent` and `Accepted` are for an API that takes messages as they are
  sent; one that merges neighbouring messages of a role may accept a little more
  when turns overlap.
- `Spaced` counts from the last `/reset`, which forgets the timestamps, and the
  turns started by a click are neither limited nor counted.

## 6. Proofs

`Exchange_proofs` proves all the safety properties of `exchange`, for any set of calls
and keys, any capacity of the buffer and any echoes that are stems of the key.
The assumptions are those of `Exchange`: `NoReply` is no call, `MaxOrphans` is a
natural number, and the Miniserver echoes a non-empty choice of prefixes of the
path. The argument has four layers.

- `Structure`: the types, and the registry's keys being distinct with an owner in
  progress (`TypeCorrect`, `RegistryCorrect`). It is inductive by itself; the lemmas
  on `Register`, `Unregister` and `RemoveAt` say what a step does to the dictionary.
- `Custody`: each response is in one place, a future with a result has a response,
  and a request that was not sent has none anywhere (`ResponsesUsedOnce`,
  `FuturesSettledOnce`, `ClosingAborts`). `AnsweredOnce` alone is not inductive:
  that a buffered response is not also owed needs the calls that can still cause
  one.
- `Orderly`: as long as nothing disturbed the client, an owed response belongs to
  a call in progress whose entry is still registered, so `_find_pending` finds it
  and no other (`OwnAnswers`).
- `Filed`: a buffered response still carries what was echoed for its request, so a
  match with the orphan is a match with the request's echo (`NoCollision`).

The same module proves that `Exchange` implements `RequestReply`
(`ClientRefinesRequestReply`). It needs `Custody`: a response is handed out by
`Dispatch` or taken from `_orphans` only if it is nowhere else and the call has none
yet. There is one lemma per action of the client.

`Service_proofs` proves that a behaviour of the program is one of the client
(`ProgramUsesClient`), so all theorems of `Exchange_proofs` and the refinement hold
in the program, and from the invariant `ServiceInv` its types and
`ExitIsClean`. `ServiceInv` ties the place of `_run` to the client: a client that was
never opened was never called, a client that was torn down is closed and its
receive loop has ended, and the process ends only when no call is in progress.
That nothing is registered then is `EntriesHaveOwners`.

`Login_proofs` proves all safety properties of `session`, for any number of
connections, spellings of the algorithm and answers. `CleanAfterOneUse` is proved
of `Session` first (`CleansUp`): it says nothing of the states before the teardown
has finished, so the inductive invariant `SessionInv` adds that connections not
opened yet are untouched (`Untouched`), where the owner can stand (`Standing`), and
that on an object used once every live task is the one a field refers to and
the teardown begins once (`FirstUse`) - which is what an object that connects again
loses - and where answers can lie that nobody has taken (`Overdue`): there are none
before `_closing` is set, and none to a request the running attempt still has to
make, so what a request takes is its own answer or one of an earlier connection.
`LoginIsASession` lifts this to the handshake. `Credentials` says what the object and
the Miniserver hold at each place of the handshake: at `gettoken`, unless such an
answer misled the attempt, the hash is the expected one but for a wrong password,
so a refusal there has a wrong password or a refused session key behind it
(`BlameIsAlwaysJustified`), and each attempt has overwritten the key, the HMAC key and
the token before the client is connected (`ConnectedIsAuthenticated`). That a misled
attempt still knows the right password needs `Granted`: a token, whoever takes it
and when, answers a hash made with it.

`EventStream_proofs` proves the safety of the event stream for any lengths of
uuids and values and any messages. `IsMessage` is the assumption on the messages:
a type byte, events of the right shape, lengths that fit their four bytes, and a
cut inside the last event, which excludes nothing, since a message cut further
is the message of the events before. `Malformed` stands for an exception, so no
list of events is equal to it.

- `FramingInv` is `InStep` with the types and with what `awaited` says about the
  message in progress. It is inductive because a header and a length are read
  back as they were written (`HeaderIsRead`, `Bytes32Inverts`) and because
  flattening the frames of all messages puts the next one in front (`FlattenHead`).
- `StreamInv` adds the types of the cache (`TypeCorrect`): the parsers return
  doubles and UTF-8 texts or refuse, and recording keeps them.
- `ValuesAreRead` and `TextsAreRead`: the parsers return exactly the events that were
  encoded, or refuse the payload, if and only if bytes are missing or a text is
  not UTF-8. For values, the records lie at multiples of one length; for texts,
  the proof goes from the last record to the first, and shows that a payload
  that misses bytes always ends inside a record, never between two.
- `FollowsFeed`: the safety part of `ImplementsFeed`. By the above a payload is
  accepted if and only if its message is well-formed (a response: if it can be decoded), and by `LastDecides` the
  events, recorded one by one, do what the message does as a whole.

The parser of texts is a recursive function on offsets and the cache is a fold.
Both are dealt with by induction over a set of natural numbers (`SetInduction`),
which takes a set where the library's theorem takes an operator.

`House_proofs` proves all properties of `house`, for any entries, categories and
maximum. `EntriesAssumption` says what an entry of the file is made of,
`CategoryAssumption` that None is no category. `HouseInv` says that the loops of
`parse_structure_file` stand at a place (`Position`: a control at the top and a
sub-control of it), that `todo` is what lies ahead of it, that `controls` is the
dictionary of the well-formed entries of the places behind it, and that none of
these raised, except below a skipped control (`Sound`). From it follow the
loop-free definition (`ParsesAsDefined`), `ParentsArePresent` and `FailsExactlyOnUncaught`.
`OmitsWithReason` is about `Shown`, not about the loops: the ranks of the controls are
a bijection that follows the order of the prompt, so exactly `MaxControls` of them
come before an omitted one, and none of these is a lesser one.

`Gateway_proofs` proves all properties of `gateway`, for any updates, actions, TTL and
engines. `OneRunPerYes` is not inductive: the inductive invariant says that
executions and the approval the gate still holds together never exceed the
number of Yes (`Credit`), and that an approval carries the time of the latest Yes
(`Stamped`). From them every execution is a step of `Consent`
(`GatewayImplementsConsent`). While turns do not overlap, a second invariant says that
one turn at most is in progress, that the engine's list is what the gate
deferred in it, and that a gate holds no approval of a refused action
(`OffersAreOwn`, `NoIsFinalAlways`).

`IntentEngine_proofs` proves all safety properties of `engine`, for any turns, maximum
and iteration cap. `TrimIsSuffix` says what trimming leaves: a suffix of the
buffer. `GrowsByFailuresOnly` is inductive with the types because a turn that
answers is trimmed and a turn that fails is counted. `RejectedForEver` is an
action property: a turn that begins in a rejected conversation is rejected.
`Ordered`, the invariant behind `ResultsFollowCalls` and `RejectionsExplained`, says
where results, tool uses and the turn in progress stand to each other.

`Admission_proofs` proves `BucketBounded`, `RateIsLimited` and `WindowIsCounted` for any
users, limit, window and clock from `LimitAssumption`. The inductive invariant is
`IInv == TypeOK /\ Sorted /\ KeepsTheWindow /\ Spaced`: `Spaced` is about all turns, and
the guard counts only what the bucket holds, so the proof needs that pruning
dropped nothing of the current window (`KeepsTheWindow`) and that timestamps are in
order (`Sorted`). `FullWindow` is the step in between: if the latest `Limit` turns were
all in the window, they would all be in the bucket, whose cardinality the guard
bounds.

Model-checked only: liveness under fairness, which is out of the prover's reach
(`EveryCallEnds`, `Settles`, `OwnerReturns`, `KeepaliveFollowsDisconnect`, `TurnsEnd`, and the
part of `ImplementsFeed` that says a sent message does not stay unread while the
loop runs), and the four findings, which are counterexamples.

## 7. Plan

In order of importance:

1. `Gateway` with `IntentEngine` as the engine it runs, so that an action deferred at
   the cap, or in a rejected turn, is followed from the request to the button.
2. `House` at run time: `get_state` and `set_control` by name and uuid over the flattened
   dictionary.
3. Two connections in `Exchange`: `Session` and `Login` have the answers that outlive a
   connection for the handshake, not for the commands of turns.
4. What `CleanAfterOneUse` becomes for an object that connects again: which tasks and
   connections `_closing` leaves behind.

## 8. Not modelled

- The arithmetic of RSA, AES and HMAC, salts and padding in `adapter/auth.py`: `Login`
  models which inputs they accept and what goes into a result.
- `config.py`, `gateway/whitelist.py`: values read once; the modelled users are those the
  whitelist lets through.
- `compute_token_auth_hash`, `Token.is_expired`, `StateStore.clear`, `ConfirmationGate.clear`
  and the lookup helpers of `StructureFile`: the program never calls them.
- Rooms, categories and state maps of the structure file: parsed entry by entry. The
  root of the file, `msInfo`, `rooms` and `cats` are taken to be as they should be; an
  ill-formed one stops the start like a control of the three kinds.
- The cap of `_orphans` in `Session` (it is in `Exchange`), and which exception ends an
  exchange: `Login` calls a timeout, an abort, a cancellation and a session key that
  cannot be wrapped alike.
- The moment between the audit entry and the sending of the reply
  (`gateway/core.py:219`, `telegram_bot.py:96` and `121`): `Gateway.Reply` is one step.
- A tool result that cannot be rendered (`engine.py:285`, outside the `try`): no tool of
  the default set returns one.
- `/start`, `/help` and voice messages in `telegram_bot.py`: fixed texts.
- The JSON of tool results, audit records and prompts; formatting of uuids and
  numbers; logging.
- `InMemoryTransport`: a test double. The `websockets`, `aiogram` and `anthropic` libraries
  appear only as the outcomes of the calls made to them.
- Automatic reconnect, scenes, Alexa and transcription: planned in the documents,
  not in the code.
