# Verification of graphql_cache

`graphql_cache` is a caching proxy in front of a GraphQL server. It parses a
query, answers what it can from a cache, sends the rest to the server, caches
the parts of the response that the server's cache hints allow, and puts the
two halves together. This directory holds TLA+ modules of that program, the
TLC configurations that check them, and theorems about them that TLAPS proves.
`PROJECT.json` is the index: components, runs, mutants, the lines every
definition stands for, findings, hazards and theorems.

## 1. The system

| component | source (`src/src/…`) | state | operations | module |
|---|---|---|---|---|
| in-memory cache | `graphql/cache/memory_cache.rs` | store behind a `RwLock`, channel of new keys, the thread's list of keys | `insert`, `get`, the cleanup thread, `Drop` | `MemoryCache` |
| Redis cache | `graphql/cache/redis_cache.rs` | one sorted set per key, on the server | `insert` (ZADD), `get` (pipeline ZREMRANGEBYSCORE, ZRANGEBYSCORE) | `RedisCache` |
| cache hints | `graphql_deserializer/mod.rs` | the stack of enclosing hints | `compress_cache_hints` | `CacheHints` |
| JSON operations | `graphql/json.rs` | none | merge, extract, remove | `FieldTree`, `CacheHints` |
| field operations | `graphql/parser.rs` (239-312, 874-1050) | none | expand, traverse, merge duplicates | `FieldTree` |
| request pipeline | `graphql/cache_handler.rs` | requests in progress | `execute_operation` | `QueryCache` over `FieldTree` (one request in depth), `CacheHandler` (requests in parallel), `KeyText` (the text of keys) |
| parser | `graphql/parser.rs` (1-80, 314-754) | call stack, bracket stack, shorthand flag | `parse_query` | `Parser` |
| tokenizer | `graphql/parser/tokenizer.rs` | position, quote and escape state | `next` | `Tokenizer`, with the parser in `Reader` |
| serializer | `graphql/parser.rs` (82-237, 826-866) | none | printing of an operation, which variables it declares | `Serializer`, with its reader in `Reader` |
| authorization | `auth/mod.rs` | none after start-up | header to user id | the user of a request in `CacheHandler` (partly) |
| server | `main.rs` | none | routes, HTTP call to the GraphQL server | `CacheHandler`, from the chosen operation on (partly) |

How they interact: `main.rs` parses the body, picks an operation, decodes the
user and calls `execute_operation`. That expands fragments, computes the keys
the answer could be stored under, reads them one by one from the cache, merges
the entries, takes them apart along the fields, and sends the fields left (with
duplicates merged) to the server through a callback. The response's hints are
compressed into pairs of a path and a value; each is stored under keys with
arguments in them. Requests run concurrently and share nothing but the cache.
The production proxy uses the Redis cache (`main.rs`); the in-memory one is
what the crate's tests use in its place, and has the concurrency inside it.

What is hard here: three kinds of threads at one store with locks released
between a decision and its effect (memory cache); commands with old time
stamps that arrive late, and a pipeline that is no transaction (Redis); a stack
that is moved while values are taken out of each other (hints); keys computed
by three different walks of the same tree, with aliases, arguments, fragments,
duplicates and fields that are private, and written as texts without separators
(pipeline); requests of several users
that read, ask and insert at any time while the data changes (pipeline); a
bracket stack that eight functions share (parser); flags that survive from one
call to the next (tokenizer). `PROJECT.json` lists each hazard at its line with the
properties that cover it.

What makes each component correct:

- *caches*: nothing is lost before its time, nothing comes back, what is
  answered was inserted and had not expired, what has expired is reclaimed,
  and closing terminates;
- *hints*: everything hinted is cached, nothing else is, each value with its
  own directive;
- *pipeline*: the client cannot tell the cache from the server, entries are
  stored under the keys that lead to them, users do not see each other's
  fields, and an answer that was cached whole is not asked for again;
- *keys*: what is read under a key was stored for the same field, the same
  arguments and the same user;
- *requests in parallel*: whoever else is served meanwhile, a request gets its
  own values, none older than an entry that had not expired when it came, and
  it comes to its end unless one of its own calls lasts for ever;
- *parser*: what is accepted is a well-formed document;
- *tokenizer*: nothing of a text is skipped or read twice, and a plain text is
  cut into the tokens of GraphQL's lexical grammar;
- *serializer*: what is sent is read as what was meant, and declares exactly
  the variables it uses.

## 2. Modules and how they correspond to the code

### MemoryCache, CacheContract

`MemoryCache` has one action per lock acquisition, plus the time stamp that
each call takes before it locks. `call[c]` is the stack frame of a client:
`InsertBegin` / `InsertCommit` are `insert` (224-248); `GetBegin`, `GetRead`,
`GetEvict`, `GetReturn` are `get` (250-289), where `GetEvict` is the second
acquisition, with the time stamp of the first. `cleaner` is the thread: `CleanerTop`
(stop message), `CleanerReceive` / `CleanerDrained` (the channel), `CleanerSample`
(all keys, or a window of 20), `CleanerInspect` one key, `CleanerScanned`,
`CleanerPurge` one key, `CleanerRest` and `CleanerWake` (sleep). `Drop` and
`DropReturn` are the hand-shake of `Drop`.

An entry is `[id, expiry]`: `id` is the rank of the insert, and stands for
the value. `CacheContract` is the same cache as a caller sees it: no store,
lock or thread, only what was inserted and what a `get` may answer. An answer
must contain everything inserted before the call that outlives it and nothing
that had expired when it began. `MemoryCache!ImplementsContract` is the refinement.

### RedisCache, SoundCache

A step is a command of the server. `InsertBegin` takes the time and computes the
score, `InsertZadd` runs; `GetRemove` and `GetRange` are the two commands of the
pipeline, between which other connections' commands run; `InsertFail` and
`GetFail` are connection errors, where `get` answers nothing and `insert`
reports success. `SoundCache` is the weaker contract that both caches keep
(`RedisAnswersSound`, `MemoryAnswersSound`): it may forget anything. The
difference is real: a failed `insert`, or one of the same value with a shorter
age, loses what the other cache would keep. The property `LatestKept` says what
remains: no `get`, however late it runs, removes a value before the expiry its
last insert has set.

### CacheHints

`given` chooses the hints of a response; `ProcessHint(path)` is one iteration of
the loop of `compress_cache_hints` (32-58), for the first path left in the order
of `order_hints_paths`, and `Finish` the last (57-61). A JSON value is the set
of the paths of its leaves, since leaves of one response never change;
extraction and removal are then restriction and difference. `compressed` is a
set: every item has the path of a hint of its own, and nothing depends on the
order in which they are stored.

### FieldTree, QueryCache

`FieldTree` has the pure functions of the pipeline, on trees of fields and on
JSON values. `QueryCache` runs `execute_operation` over them: `Start` is
everything up to the callback (36-47), with the cache read as one step: it ends
the request when a fragment is recursive (an error), not defined (a panic), or
when the cache has the whole answer. `Ask`, `AskFails` and `AskRefused` are what
the callback can return: an answer, an error, or a response whose data is null;
`Insert` is each insertion of `update_cache` (107-131), which may be lost;
`Respond` merges (51-56); `Expire` takes away any entry at any time. The GraphQL
server is external: `ServerAnswer` gives each field of each user a value that
names the field and the user, so that a value in the wrong place shows;
`HintPaths` lets it hint any part of a response that does not lie in a list. If
a document defines no fragment, expansion is skipped and a spread stays in the
operation (`parser.rs:245`); the server has no data for it, since no fragment is
sent.

### CacheHandler

The same `execute_operation`, and what of `main.rs` is around it, for several
requests in parallel and with one action per await: `Receive` is
`handle_request` once the operation is chosen; `ReadBegin`, `ReadAnswer` and
`ReadReturn` are a call of `get_cached_item` (487-520), of which `join_all`
(300) runs one per field, first for the field's own key and then for the one
with the user; `Match` decides what is left to ask; `Ask`, `AskFails` and
`AskRefused` are what comes of `forward_graphql_request` (an answer, an error
that the client is told, and null data, which makes `expand_response` panic, so
that the client is told nothing); `InsertBegin` and `InsertEnd` are one
insertion of `update_cache`, `Respond` the end, and `Forward` a mutation, which
touches no entry. `TaskStep` has the steps a request's task takes when it is
polled, `CallEnds` those for which it waits: the cache or the server ends a
call. The cache is an instance of `SoundCache` with one client per request and
field, so that what is shown holds over either cache; the data of the server
changes at any time (`ServerChange`), and a value names its field, the owner it
is for and the version of the data, so that a value that is misplaced or old
shows. Fields have no subfields here: what trees of fields do within one request
is `QueryCache`.

### KeyText

A key is a text: names and arguments one after the other, the user before them
(`cache_handler.rs`, 133-135 and 449-491). `key` has two such texts, the one a
value is stored under and the one that is looked up, as `append` by `append`
they come about: `AddField` is `field_to_cache_key` for the next field of a path
with the `+` of `fields_to_cache_key`, `AddArgument` is
`append_parameter_to_cache_key`, and `MakePrivate` is `to_private_cache_key`.
`path` and `user` are what the text is meant for. A character is a letter, a
digit, another character of numbers, a bracket, a quote, one of the two marks
the code puts between parts (`_` and `+`), or any other; the value of an
argument is a kind and a text, and `Written` is how each kind is written. What
`{:?}` makes of a list or an object is its text as it stands: only its first
character is known.

Two keys can be the same text for different fields: an underscore is both a mark
and a character of names, a quote in a string ends it for the reader, and
nothing comes between an argument's name and its value, or between the user and
the key. `KeysTellApart` says that these are all the cases. For paths that are
`Legible` (no underscore in names, no quote in strings, no mark in what is
written of lists and objects, no enum value `NIL`), where no argument's name
begins with that of the other path in its place (`ArgumentsApart`), and users
that do not read like the beginning of a key and of which none begins with
another (`LegibleUser`, `UsersApart`), the same text means the same path and the
same user. A number and a header with a blank (`Basic x`) are legible users;
`auth0_1` is not.

### Parser

`frames` is the stack of calls of `parse_fields`, `parse_variables`,
`parse_parameters`, `parse_object` and `parse_list`, each with a program
counter; `item` is where the functions below them are; `hierarchy` is
`ParserState.hierarchy`. Each action reads one token. A token is a class
(keyword, name, value, type, punctuator), so that documents of every length are
explored, and the trees the functions build are left out. `opened`, `balanced`
and `misnamed` are history variables that only properties read.

### Tokenizer, Serializer, Reader

`Tokenizer` is `next` a character at a time: `Word`, `Punctuator`, `Skip` and
`Character` are the arms of its loop, `Finish` the end of the text, and `Panic`
a slice that begins inside a character. A character is a punctuator, a quote, a
backslash, whitespace (of one byte or more), or stands for all others. `Lexemes`
is the reference: the tokens of a text by GraphQL's own punctuators and quotes,
without a scan and without anything of the code's. `Plain` says for which texts
the two are to agree, and `Kept` leaves out a last word. `Serializer` has the
functions that write an operation, as the pieces they push on the string, and
those that choose what is declared (`get_variables`, `deduplicate_fields`).
`Reader` composes the three: a `Pull` is a `tokens.next()` of `Tokenizer` and
the handler of `Parser` for what it returns, on the texts `Serializer` writes;
`Collect` runs the tokenizer alone.

## 3. What the runs check

| run | bounds | shows |
|---|---|---|
| `memory_calls` | 3 keys, 2 clients, 2 inserts, clock 0..2 | `TypeOK`, `StoreTracked`: every stored key is known to the thread or announced; `LiveEntriesKept`, `NoEmptyVec`, `NeverRestored`, refinement of `CacheContract` |
| `memory_liveness` | 3 keys, 1 client, 3 inserts, clock 0..1; a sample has all keys if they are at most 2, else 1 of 3 | `ExpiredReclaimed`, `DropReturns` |
| `redis_calls` | 1 key, 2 values, 2 connections, clock 0..2 | `LatestKept`, refinement of `SoundCache` (`AnswersSound`) |
| `hints_safe` | 3 leaves, 6 hint paths, each with age 1, 2 or none and scope or none | stack shape, completeness, `GranularUnlessSplit`, only hinted values cached |
| `query_plain` | 9 queries, 2 users, 2 hints per response, 2 entries | `Transparent`, `EntriesTrue`, `RepeatAsksNothing`, `PanicsExplained` |
| `cache_handler` | 2 requests, 2 users and none, a public or a private field each, clock 0..1, one change of the data | `OwnAnswers`, `EntriesOwned`, `FreshAnswers`, `Answered` |
| `keys` | a stored path of up to 3 pieces and one that is read of up to 2, of 3 field names, 2 argument names and 10 values; 5 users and none | `KeysTellApart` |
| `parser_balance` | 6 nested calls, any length | `AcceptedIsBalanced`, `StackIsDescent` |
| `reader` | all texts of up to 6 characters of 7 kinds; 338 documents that are sent | `NothingSkipped`, `LexedAsGraphQL`, `SentIsRead`, `DeclaresWhatItUses` |
| `hints_granular`, `query_twins`, `query_swaps` | as above | the findings of section 6 |

Why the bounds are enough for what is asked:

- *memory*: every race is between a decision about one key and a later change of
  that key, so two clients and the thread have them all: an insert that fills
  the key, a `get` or a round that decides, an insert after the decision.
  `ScanAll` and `Batch` stand for 20 and 10. With two inserts the thread never
  knows more than two keys, so that in `memory_calls` a sample has them all; no
  safety property depends on what is sampled, and the theorems are for any
  sample. `memory_liveness` takes the random window: the thread can know three
  keys there, of which a sample has one.
- *Redis*: two connections give every overtaking of two commands; a duration of
  0 is the entry that expires at the second of its insertion. The theorems
  have no bound.
- *hints*: a chain of four and a sibling after it are what makes the stack
  grow, shrink and be read after it has shrunk.
- *queries*: they have aliases, arguments, nested arguments, a list, a null, a
  private field, fragments (one recursive, one that is not defined, one with no
  definition beside it at all), one field under two aliases, and one that is
  asked for twice in a selection below another. Two entries are enough for an
  answer put together from two requests. Each of the three cases of
  `PanicsExplained` is needed: TLC finds a panic outside of the other two.
- *keys*: the names and values are those that differ by what can follow them:
  `b` and `b1` with `1` and `11`, a name with an underscore, null and an enum value
  `NIL`, a string with a mark and one with quotes in it, a list with a mark and
  without, an object, and of users two numbers of which one begins the other, a
  name, a name with a blank after it, and the empty one. Each of the conditions of
  `KeysTellApart` is needed within these bounds: TLC finds two keys that are the
  same when any of them is dropped. Paths of any length are the theorem's part.
- *parser*: six calls allow every function to be called by every other that
  can call it, and objects in lists in objects.
- *requests in parallel*: with two requests, one's reads, question and
  insertions fall anywhere between the other's, of the same user, another or
  nobody; one change of the data makes an answer that is on its way the older
  one; an entry of age 0 expires between the two clock values. Each request asks
  for one field: what its fields have to do with each other is `QueryCache`'s
  subject, and requests for several fields, more requests and longer ages are
  the theorems' part.
- *reader*: six characters are enough for a quoted quote, for an escape inside
  and outside of strings, for two strings with a character between them, for a
  run of dots of every length modulo three, and for each kind of character after
  each other. The documents have every kind of value, alone and beside another,
  aliases, subfields, fields that are merged, and variables that are used,
  unused or used only below a field.

All next-state relations are explored in full below these bounds, and every
run checks for deadlock: where the program has ended (the cache is closed, the
hints are compressed, the document is parsed), an action `Terminated` says so.

Every property of a passing run has a mutant: an operator `Bug…` beside the
definition it replaces, with a mistake a programmer could make (a dropped
guard, a wrong bound, a missing push), under which TLC finds the property
violated. Nothing but those checks uses them.

### Fairness

`FairSpec` of `MemoryCache`: weak fairness of the steps of the cleanup thread and
of the return of `Drop`. The thread is an operating-system thread that blocks
only on locks that are held for finite time and on a sleep of fixed length, and
`Drop` waits on a channel the thread has answered. Clients and the clock are not
assumed fair. A `get` may never be called, so that it is the thread alone which
reclaims (`ExpiredReclaimed`). Which keys a sample has is up to the program's
random numbers, and nothing is assumed of them. That costs nothing up to 20 keys,
where a sample has them all. Above, a window begins anywhere but never reaches the
last key of the `HashSet`'s order (`SamplingWindow`), so that reclamation is
only promised if not, again and again, the thread knows more keys than it
inspects in a round. The excuse is needed: without it TLC finds an entry of a
last key that is never reclaimed.

`FairSpec` of `CacheHandler`: weak fairness of `TaskStep`, for each request. The
runtime polls every task that is ready. Nothing makes the cache or the server end
a call: `main.rs` sets no time limit on the server's answer, and a client of a
server that never answers waits for ever. Nothing is assumed of requests to come,
the clock or the data either. `Answered` says that a request comes to its end
(a response, an error, or a panic) unless from some time on it waits for a call
of its own: its task is never stuck between two calls, whatever fails, and never
waits for another request.

## 4. What is proved

The proofs are for every number of keys, clients, values and durations, every
clock bound, documents of every length and depth, texts of every length,
responses with any hints, keys of paths of any length, and any number of
requests, fields and users.

- **MemoryCacheProofs.** `TypeOK` is inductive. The safety properties are not:
  that a live entry is kept depends on time stamps of pending calls and of the
  thread not being ahead of the clock (`ClocksBehind`); that ids identify
  entries on no id being ahead of the count (`IdsFresh`); that a key is tracked
  on where the thread is in its round. `Safe` is the conjunction of
  `ClocksBehind`, `IdsFresh`, `LiveEntriesKept`, `StoreWritten`, `StoreTracked`
  and `NoEmptyVec`; each conjunct has its lemma, with one step per action, and
  `SafeAlways` puts them together. From it follow `NoEarlyEviction`,
  `EveryKeyTracked`, `NoEmptyVecLeft`, `RemovedStaysRemoved` and, by a step
  simulation, `CacheImplementsContract`; that the contract is a `SoundCache` too
  gives `MemoryAnswersSound`. `SamplingWindow` is about the numbers
  in the code: the range of the sample is never empty and the window never
  leaves the list, but never reaches its last key either.
- **RedisCacheProofs.** `Safe` is `ZsetWritten`, `ClocksBehind` and
  `LatestKept`; `RedisAnswersSound` is the refinement of `SoundCache`.
- **ParserProofs.** `HandlerTurns` shows that whatever token a handler reads, it
  does one of eight things to the calls and the stack. The inductive invariant is
  `Descent`: either the bracket stack is what is open, or it is shorter than
  the stack of calls, and then stays so and the document is never accepted.
  This is why the pop in the guard of `parse_object` (650) does no harm:
  `AcceptedBalanced`. `StackFollowsDescent` and `ParserTyped` come with it.
- **CacheHandlerProofs.** `Safe` adds to `EntriesOwned`, per request: a call to
  the cache is for the key its read is at, and what it has been answered was
  written under that key and outlives the call (`CallFollows`); a read for a
  user's key has a user (`ReadFollows`); what is to be inserted has its value,
  and goes where its readers may see it (`StoreOwned`); what the request has so
  far is its own and fresh (`DatumOwned`), and complete once the server has
  answered (`DataComplete`). `OthersStay` shows that a step of one request
  disturbs none of this in another, so each action is looked at for the request
  it belongs to. Hence `EntriesAreOwned`, `AnswersAreOwn` and `AnswersAreFresh`.
  `HandlerUsesSoundCache` is the other side of the interface: the requests never
  do more than the clients of `SoundCache`, with one call at a time for each
  request and field, for keys only and with values that exist. Both caches
  implement `SoundCache` (`MemoryAnswersSound`, `RedisAnswersSound`), so the
  answers are right over either.
- **CacheHintsProofs.** `HintsInv` adds to `StackIsChain` that the stack and the
  visited hints agree (`StackIsVisited`), that markers are empty, that every leaf
  under a visited hint is held by the stack or the result (`VisitedAreHeld`), and
  that whatever is held is hinted (`HeldAreHinted`). A leaf that is taken out of
  an enclosing value is not lost because the new hint holds it; that is what
  `VisitedAreHeld` carries through the loop. Hence `NothingIsLost`,
  `OnlyHintedIsCached` and `StackIsAlwaysChain`.
- **GranularityProofs.** `LeavesKeepTheirDirective`: outside of the case of
  finding 1, every cached leaf has the age and scope of its nearest hint
  (`GranularUnlessSplit`). The invariant `GranularInv` says which hints an item
  of the stack stands for: a leaf it holds has its nearest visited hint at or
  below the item's own, with the same directive (`StackedAreDirected`,
  `CachedAreDirected`). What carries it through the loop is the order of the
  visits. In path order whatever is below a hint comes in one run
  (`BelowIsContiguous`), so an item that leaves the stack has no hint left to be
  visited below it (`OpenAreStacked`, `CachedAreClosed`), and no leaf of the
  result changes its nearest hint afterwards. And a marker is never the one
  a later hint is taken out of, unless a hint lies below a merged one
  (`EnclosingIsValue`, from `MarkersAreMerged`): there, and only there, the
  code compares with the wrong directive. The theorem has the disjunct
  `SplitBelowMerge` in its invariant (`SpecGranular`), since nothing of
  `GranularInv` survives that case.
- **KeyTextProofs.** `LegibleKeysTellApart`, for paths of any length and any
  names, values and users. The invariant is `KeysSpelled`: at every moment a key
  is the user followed by a text that `Spells` the path, that is, there are
  offsets at which its pieces stand one after the other. Two legible paths with
  the same text are then compared at the first piece or offset that differs
  (`SpellsOnce`). There the two pieces begin at the same character, and neither
  can be the shorter (`NoShorterPiece`): a mark would come after it, where the
  longer one goes on, and a mark inside a piece is inside a string, of which the
  shorter piece would have both quotes (`EndsAlike`). Pieces of the same length
  are the same text, and a piece is told by its text (`SameWords`): its mark says
  whether it is a field, names of which none begins with the other end at the
  same place (`SplitsAlike`), and the value's first characters say what kind it is
  (`WrittenApart`). Last, a key with a user is never one without: a
  public key begins with letters and digits up to a mark (`PathBegins`), and a
  legible user does not (`UserIsSeen`).
- **TokenizerProofs.** `TokenizerTyped` and `NothingIsSkipped`; the invariant is
  `NothingSkipped` itself with the types, restated over any text and tokens
  (`InOrder`). `PlainIsLexed`: a plain text of any length is cut into
  exactly the tokens of GraphQL's lexical grammar that are `Kept`
  (`LexedAsGraphQL`). It has two halves. `PiecesAreLexemes` is about texts
  alone: in a plain one, what lies between the characters this tokenizer breaks a
  text at (`Pieces`) is what the grammar says (`Lexemes`). Strings and words are
  told apart there, since a plain text has something between a string and its
  neighbours (`StringIsPiece`, `WordIsPiece`), and dots and the punctuators of the
  grammar are found to be those of `TOKEN_BREAKER` and the others not in the text
  (`SingleIsPunctuator`, `DotsAreSpreads`). The other half is that the tokenizer
  returns the pieces. It decides by two flags and a position, and `Pieces` by counting
  quotes and dots in the whole text; the invariant `LexInv` ties the two.
  `in_quotes` is the parity of the quotes that are not escaped, before the
  current character, and `escaping` says that this one is escaped (`FlagsRight`;
  for the latter `BackslashesStandAlone`: in a plain text no backslash follows
  another). The current token has no cut in it and starts after one
  (`InToken`, `AfterCut`), and if it is at a dot, the number of dots before it in its
  run is divisible by three (`DotsLead`). Then the tokens returned are the
  pieces that end before the current token (`Returned`), and each action adds
  the one that begins at it (`WordIsAdded`, `SingleIsAdded`, `DotsAreAdded`), or
  none (`GapAddsNone`).

TLC checked `GranularInv` on the bounds of `hints_safe`, and it holds there.

The assumptions are those of the modules: the constants that stand for "no key",
"no value" and "nobody" are not keys, values or subjects, durations are natural
numbers, `ScanAll` is between 1 and 20; paths are sequences of numbers
(`PathsAreNames`) and texts are sequences of characters (`TextsAreText`,
`PartsAreText`), names and values are what the parser lets pass (`PartsAreText`)
and the kinds of characters are disjoint (`CharactersDiffer`); and of
`CacheHandler` two that the code does not guarantee by itself: keys of different
fields or users differ (`KeysDistinct`, which is what `LegibleKeysTellApart`
shows for legible names, values and users, and does not hold of all others:
section 6), and the server gives one subject the same data whichever of its
headers is sent (`SubjectsAgree`).

Model-checked only: the liveness properties `ExpiredReclaimed`, `DropReturns`
and `Answered` (temporal reasoning with `ENABLED` is out of the prover's reach);
`QueryCache` (`TypeOK`, `Transparent`, `EntriesTrue`, `RepeatAsksNothing`,
`PanicsExplained`), since the functions on trees of `FieldTree` are recursive
and what they compute cannot be proved by the installed provers; and for the
same reason `SentIsRead` and `DeclaresWhatItUses`. Every safety property of the
modules without recursive operators is a theorem.

## 5. Abstractions

- Values of entries are ids or atoms. Outside of `KeyText` keys are tuples, that
  is, the concatenations the code makes of names and arguments are taken to be
  unambiguous; when they are is the subject of `KeyText`.
- In `KeyText` a character stands for its kind where the kind is all that matters,
  and what `{:?}` writes of a list or an object is taken as the value. Of a string
  the text is what is written: of a literal its source, with its escapes
  (`cache_handler.rs:471`), of a variable what it has been decoded to (475). Two
  values that are written alike are one value there.
- The clock does not go back. `chrono::Utc` can be set back by an administrator;
  then an entry lives longer than its age.
- Variables of a query are replaced by their values and several parameters
  of a field are one argument. Arrays of scalars are scalars.
- An alias is always there: a field without one has its name as alias.
- Hints in the pipeline do not merge into each other (each has an age of its own;
  merging is the subject of `CacheHints`), and a hint is private exactly when
  the value it covers depends on the user.
- In `QueryCache` the keys of a request are read in one step, one request runs at
  a time, against a cache that loses entries, and the data does not change. How
  requests interleave, and changing data, are in `CacheHandler`.
- In `CacheHandler` keys are given (`KeysDistinct`), a response leaves out no
  field, and the server hints as private what depends on the user. The age of
  an entry counts from its insertion, as in the code, not from when the server
  computed it. Which of two live versions is served is left open: `FreshAnswers`
  bounds how old an answer may be, and holds for every order of merging.
- The tokenizer's characters are representatives. Bytes matter only where a
  slice is computed from the position of skipped whitespace, so a character
  of more than one byte is told apart there only. `LexedAsGraphQL` is stated of
  texts that are `Plain`: what it leaves out is in section 6. Comments and block
  strings are no part of `Lexemes`.
- The documents of `Reader` are those `execute_operation` sends, and the
  documents with fragments that the tests of `parser.rs` write.
  `OperationType::Subscription` is treated by the code as `Mutation` is, and not
  told apart.
- Counters that nothing reads to decide anything, printing, `shrink_to_fit`,
  and the opening of connections are left out.
- Tokens of the parser are classes. Directives, block strings, nested
  lists and variables in lists and objects are refused by the code and so by
  the model; `... on T { x }` is read as a spread of a fragment `on` followed by
  a field `T`.

Not modelled, and why: in `auth/mod.rs`, the keys fetched at start-up and the
check of a signature (a library's; whether a header is accepted is given); in
`main.rs`, `warp`'s set-up, the configuration and the requests that are refused
before an operation is chosen, `filter_operation` included (they keep no state);
the opening of connections; and sources no module declares.

## 6. Findings

Each is a run whose counterexample TLC finds.

1. `hints_granular`: a field below a hint that was merged into an enclosing one
   is cached with the directive of another field (`mod.rs:123`). That
   this is the only case is a theorem, `LeavesKeepTheirDirective`.
2. `query_twins`: when a field is selected twice (possibly through a fragment),
   what the cache had for one of the two is lost from the answer
   (`cache_handler.rs:322`).
3. `query_swaps`: when an alias is the name of a field beside it, one value is
   stored under the other's key and the other is lost (`cache_handler.rs:227`).

Seen while modelling, without a run (no line of the repository promises
otherwise, or the models leave the detail out):

- *pipeline*: a field without arguments that is selected twice below one that is
  cached without it makes the request panic (`cache_handler.rs:408`), and so do
  a spread of a fragment that is not defined (`parser.rs:271`) and a server
  answer with `data: null` (78): these are the cases of `PanicsExplained`. The
  last is also the end of a query with a spread and no fragment, if the server
  refuses it with null data. An answer that leaves out a field panics in the
  same place; a variable that is used but not given panics (472). A forwarded
  mutation loses its fragments and its name: the comment at
  `cache_handler.rs:30` speaks of the whole document, `main.rs:91` writes the
  operation. Authorized requests panic when the key document has no RSA key
  (`auth/mod.rs:61`).
- *parser*: a shorthand operation may be followed by others that have a keyword,
  though not the other way round (`parser.rs:18`, 74); `parse_object` takes any
  token as the name of a field (652), where the other functions require a name,
  so that `{ f(x: { { : 1 }) }` is accepted; negative and decimal numbers are
  refused (`is_valid_value`, 728-736).
- *keys*: an argument's name and its value are written one after the other, so
  `f(b: 11)` and `f(b1: 1)` have one key, and the one is served what was stored
  for the other (`cache_handler.rs:467`; TLC finds it when `ArgumentsApart` is
  dropped). In the same way two users of which one begins with the other may
  have a private key in common (134), if a field's name begins with what the
  other user has more, and so may a private and a public key; `KeysTellApart`
  names the conditions under which they do not.
- *tokenizer*: `!`, `&`, `@`, `|` and `#` do not break a token, though the comment
  at `tokenizer.rs:21` lists three of them as punctuators; a word and a string
  beside each other (`a"a"`), or two strings, are one token; a decimal number is
  cut at its dot; whitespace of more than one byte, such as a no-break space,
  between tokens makes the next slice panic (`tokenizer.rs:68`, 43); a last word
  that nothing follows is dropped (82), so that `{a} garbage` is accepted; a
  backslash that is itself escaped escapes the quote after it, so that the
  string `"a\\"` does not end (72).
- *memory cache*: above 20 keys the cleanup thread never samples the last key
  (`SamplingWindow`), whose expired entries stay as long as nobody asks for it:
  the excuse of `ExpiredReclaimed`.

## 7. Plan

Done: the two caches with their contracts, the hints, the pipeline for one
request and for requests in parallel, the text of keys, the parser, the
tokenizer and the serializer; proofs of all of them but the recursive ones.

What is left, in this order:

1. Trees of fields in parallel requests: `QueryCache` reading its keys one by
   one, as `CacheHandler` does, over `SoundCache`. The product is large; it needs
   queries chosen for the interleaving rather than for the shape of trees.
2. `filter_operation`, the choice of an operation by name, and the requests that
   are refused.

## 8. Running the checks

    tlc -workers 2 -config MemoryCalls.cfg MCMemoryCache.tla
    tlapm ParserProofs.tla

Each run takes from a second to two minutes, each proof module up to a few
minutes.
`PROJECT.json` names the module and configuration of every run.
