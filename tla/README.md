# GitLab Pages in TLA+

TLA+ models of GitLab Pages, from the listener to the file: the shared limit on
connections, the rate limiters, the handlers a request goes through, the OAuth
login, the cache of domain lookups and the retriever behind it, the choice of a
lookup path, zip archives that are read in ranges over HTTP, and the serving of
files. TLC checks them on small instances; TLAPS proves nearly all of the safety
properties, and two refinements, for every value of the constants.

Contents: [the system](#the-system), [modules](#modules-and-code),
[runs](#runs), [bounds](#bounds), [fairness](#fairness), [proofs](#proofs),
[findings](#findings), [deviations without a run](#deviations-without-a-run),
[what is left out](#what-is-not-modelled), [plan](#plan).

## The system

GitLab Pages is an HTTP server for static sites. A request comes in through a
listener, passes a chain of middlewares, and is served from the file or zip
archive of a project, which a lookup in the GitLab API names.

| Part (under `src/internal` unless said otherwise) | State | Operations | What makes it hard | What should hold |
|---|---|---|---|---|
| Domain cache, `source/gitlab/cache` | entries, each with two `sync.Once` and a channel; the go-cache store | `Resolve`, `retrieve`, `Refresh`, `LoadOrCreate`, `ReplaceOrCreate` | double-checked locking; unlocked writes of a refresh; expiry and janitor; refreshes that outlive their entry | one miss per expiry, one retrieval per entry, entries do not change under a reader, errors do not replace successes |
| Retriever, `source/gitlab/cache/retriever.go` | one goroutine per call, an unbuffered channel | `Retrieve`, `resolveWithBackoff` | a timeout racing an answer and the retries | one justified answer; no retry after a definite one |
| GitLab source, `source/gitlab` | the cached `LookupPaths`, shared by requests | `GetDomain`, `Resolve` | in-place sort without a lock | the longest prefix serves |
| Zip archives, `vfs/zip` | go-cache of archives, `cacheLock`, two gauges | `Root`, `openArchive`, `readArchive`, eviction | the janitor takes no `cacheLock`; eviction while reading; archives that change | one archive per expiration; no archive known to be corrupted; `Root` returns |
| Range reader, `httprange`, and open files, `vfs/zip` | offset, response and error of each reader; the pool of deflate readers | `Read`, `Seek`, `Close`, `SetURL`, `Open` | the object is replaced, its URL expires, a server ignores `Range`; bodies and a gauge to give back on all paths | data from the right place of the right object; nothing is leaked or shared |
| LRU and rate limiter, `lru`, `ratelimiter` | token buckets in an LRU cache | `FindOrFetch`, `requestAllowed` | two fetches of one key; eviction of a bucket in use | a bound on what is admitted; no one within the rate is turned away |
| Connection limit, `netutil` | a channel as a pool of slots | `Accept`, `Close` | close while waiting; double close; errors | slots are accounted for; the limit holds |
| Authentication, `auth` | a session cookie per host | `TryAuthenticate`, `checkAuthentication`, ... | redirects over three parties, several tabs, faults | a flow ends, at the page it began with |
| Request pipeline, `app.go`, `routing`, `domain`, `acme`, `artifact`, small middlewares | a request and its answers | the handlers in order | a domain is resolved repeatedly while GitLab changes it | each request is answered, once, and after the checks |
| Serving, `serving/disk`, `vfs/local`, `vfs/serving`, `redirects`, `httputil` | headers set so far | path resolution, rewrites, negotiation, preconditions | many cases; failures after headers are set; deployments between requests | agreement with a reference; an answer that fits its headers |
| Startup, `main.go`, `app.go`, `server.go`, `config` | listeners, wait group | `Run`, `listen*FD` | | not modelled |

They interact so: the pipeline asks the GitLab source for a domain, which asks
the domain cache, which asks the retriever, which asks the API. The lookup path
that is found names a serving; the zip serving gets its archive from the zip
cache, which reads it through the range reader. Connections reach the pipeline
through the limited listeners and the rate limiters. A project with access control
sends the browser through the OAuth login first.

## Modules and code

| Module | Models | Lines of code |
|---|---|---|
| `DomainCache` | `cache.go`, `entry.go`, `memstore.go` | every statement of `Resolve`, `retrieve`, `Refresh` that touches shared state |
| `LookupSource` | what `Resolve` promises, no cache in sight | abstract |
| `Retriever` | `retriever.go`, and the outcomes of `client.go` | one call |
| `RetrievalPromise` | what `DomainCache` assumes of the retriever | abstract |
| `GitlabResolve` | `Gitlab.Resolve`, `fabricateServing`, the sort | `gitlab.go`, `factory.go` |
| `LimitListener` | `shared_limit_listener.go` | all of it but the keep-alive setters |
| `ZipVFS` | `vfs.go`, `archive.go` up to an opened archive | `Root` and what it calls, eviction |
| `HttpRange` | `resource.go`, `http_reader.go` | `NewResource`, `SetURL`, `Request`, and every operation of a `Reader` |
| `ArchiveFile` | `archive.go` (`Open`), `deflate_reader.go`, `http_ranged_reader.go` | extends `HttpRange` |
| `RateLimiter` | `handlers/ratelimiter.go`, `ratelimiter`, `lru` | both limiters with their caches |
| `AuthFlow` | `auth.go`, `auth_code.go` | the login, from a page and back to it |
| `RequestPipeline` | `app.go`, `routing`, `acme`, `domain`, `handlers`, `artifact`, `auth/middleware.go`, `urilimiter`, `rejectmethods` | one action per handler |
| `SymlinkWalk` | `symlink`, `vfs/local/root.go`, `Readlink` of `archive.go` | operators, and a reference definition |
| `ContentServing` | `httputil`, `handleContentEncoding`, preconditions of `vfs/serving` | operators |
| `DiskServing` | `serving/disk`, `vfs/serving` | extends the two before |
| `Redirects` | `redirects` | operators, and one question to a `_redirects` file |
| `DomainCacheProofs`, `ZipVFSProofs`, `ArchiveFileProofs`, `AuthFlowProofs`, `RequestPipelineProofs`, `DiskServingProofs` | theorems about the module of that name | |
| `AdmissionProofs` | theorems about `LimitListener` and `RateLimiter` | |
| `GitlabSourceProofs` | theorems about `Retriever` and `GitlabResolve` | |
| `MC*` | instances for TLC | |

**DomainCache.** `entry` is the heap of `*Entry`, `store` the go-cache with the
expiry of each item, `client` the program counter of every `Resolve` call, and
`now` a clock. A step is what happens under one lock or between two accesses to
shared state. `LoadHit`, `LoadMiss`, `LoadRecheck` and `Create` are the two halves
of `LoadOrCreate` (read lock, then write lock and a second look). `ServeFresh`,
`ServeStale` and `Wait` are the three ways `Resolve` goes on; `Retrieved` and
`ContextDone` are the two branches of the select. `Answer` and `setResponse` are
the retrieval goroutine, `RefreshStart`, `RefreshDecide` and `RefreshPublish` the
refresh goroutine: it decides what the new entry holds before it locks the
store. `DeleteExpired` is the janitor. A lookup is abstracted to its outcome and
the time the API gave it. Ids are never reused, as the garbage collector
ensures.

**Retriever.** `caller` is in the select of `Retrieve`, `worker` is the goroutine of
`resolveWithBackoff`. `Receive` is the rendezvous on the unbuffered channel. An
attempt that begins with a context that is done can only fail (`dead`). A clock
step needs both goroutines to wait, since timeouts are seconds and steps of
goroutines are not. `Retriever` is shown to implement `RetrievalPromise`, which is
the assumption built into `Answer` and `Tick` of `DomainCache`.

**GitlabResolve.** A path is a sequence of segments, a prefix `/a/` is `<<"a">>`.
`sort.SliceStable` is an insertion sort on lists of up to 20 elements (it merges blocks of that
size, which is not modelled), and an exchange (`reflect.Swapper`) is three copies, `SwapSave`,
`SwapMove`, `SwapRestore`: the race between two sorts is a race between these copies.

**LimitListener.** `sem` is the number of elements in the channel, `acceptor`
says where the goroutine of `http.Server.Serve` is, `held` are the listeners whose
`Accept` has a slot, `open` the connections whose `releaseOnce` has not fired.
`CloseListener` and `CloseDone` are the two statements of `Close`.

**ZipVFS.** One key. The steps under `cacheLock` are separate (`Hit`, `HitStale`,
`Refresh`, `Miss`, `Delete`, `Add`), because the janitor (`DeleteExpired`, `OnEvicted`)
does not take that lock. `OpenWait` fires the `Once` that starts `readArchive`, whose
steps are `ReadFails`, `ReadFile` (one more file in the map) and `ReadDone` (the gauge,
then the channel). `Change` is a range request that finds the archive to be
another one. `bad` is a history variable: the archives known to be corrupted
when the call began.

**HttpRange** and **ArchiveFile.** `server` is the object storage (external): it may
replace or remove the object, expire a URL, ignore `Range`, answer 500 or not at all.
`res` is the `Resource`, `rd` the `Reader`s with their offset, the request that is
under way and the body that is open. `Send` and `Receive` are the two sides of
`httpClient.Do`; between them and between two reads everything else may happen. `ArchiveFile`
says what each reader is used for: the directory (`WithCachedReader`), the
header of a file (`ephemeralRead` of `DataOffset`), or a file that a request has open,
through a deflate reader of the pool or directly. What comes out of the pool is taken as it
is; a deflated file is read and closed through the `closer` that its deflate reader holds at that
moment, and its `Close` is two steps, `CloseDeflate` (close, then forget the closer) and
`PutDeflater` (back to the pool), between which others run. `seen` of a reader is a
history variable: the versions of the object that bytes were handed out of.

**RateLimiter.** The time unit is that in which a bucket gets a token. `Hit`, `Miss` and `Fetch`
are the steps of `FindOrFetch`; `Allowed` and `Blocked` are `AllowN` with the rest of the
middleware. `Evict` is the pruning of ccache, which may take any item of a full cache.
`served` is a history variable.

**AuthFlow.** The server has no session state: `cookie[h]` is the session of host `h`.
A tab sends the cookie with its request (`Send`), and the handler works on that
snapshot and sets the cookie with its answer, so tabs overwrite each other.
`begun` in a state and `overlap` are history. A code is sealed for a host, may expire
and is taken by GitLab once; that is all the encryption is modelled by.

**RequestPipeline.** `pc` is the handler, `answers` everything that is written to the
response, `Change` a change of what GitLab says about the domain, which any handler
that resolves again sees. `AskForMissing` makes the same request for a project that does
not exist and keeps the first answer to compare with.

**SymlinkWalk, ContentServing, DiskServing, Redirects.** A path is the sequence of what is
between its slashes. `walkSymlinks` has the loop as a recursive function of its `dest`, the
path left and the links followed; `Lookup` is the
reference, an operating system's lookup with the site as root. `DiskServing` has a
client that follows redirects to directories and revalidates its copy, and deployments
in between. A site has at most one kind of failure (`fails`): its root, opening, detecting the
type, or copying the body. A root that fails does so at any of the calls that ask for it
(`tryFile`, `tryRedirects`, `tryNotFound`), each time in any way: cancelled, missing, or with
another error. `Redirects` works on characters, because what is in question there, slashes that are
doubled, trailing or missing, is decided by a regular expression on characters; only which
rule matches is modelled, not the text of its target.

An operator whose comment begins with "Mutant" is a variant of the action or
definition after it with one plausible mistake in it; no specification uses it.
It serves to show that a property can fail.

## Runs

| Run | Shows |
|---|---|
| `cache` | of two entries made by misses the second is made after the first has expired (`MissOncePerExpiry`); an entry that can be reached does not change (`ReachableResponseStable`); requests that wait are answered and refreshes publish (`WaitersAnswered`, `RefreshPublishes`); `DomainCache` implements `LookupSource` (`ImplementsSource`), so no request gets a nil lookup |
| `retriever` | failures are justified (`FailureJustified`), the worker ends unless the call timed out (`WorkerEndsUnlessTimeout`), `RetrievalPromise` is implemented (`KeepsPromise`) |
| `limit` | slots taken = listeners in `Accept` with a slot + open connections (`SlotsAccounted`); the end of a closed listener's loop (`StopsAfterClose`); acceptance when no connection is open (`ServedWhenNoneOpen`) |
| `resolve` | `ServedFromLongestPrefix` for calls one after the other, over every set and order of four lookup paths; a path that cannot be served is an error, not a reason to take a shorter one; a list that came sorted is only read (`SortedIsOnlyRead`), so that requests may share it |
| `zip` | `OncePerExpiration`, `NoCorruptedArchive`; `cache.Add` always succeeds, so that the loop in `Root` runs once (`AddSucceeds`); the metric of archives counts none that is gone (`NothingGoneIsCounted`); `Root` returns (`RootReturns`) |
| `range` | what is read lies at the reader's offset and inside its range (`ReadsItsRange`); what is read of a deflated file is all of one object, and what is read of any file is of the object that was opened if the server has only Last-Modified (`OneObjectPerFile`); an archive is given up only if the object changed or ranges are not supported (`RefusedOnlyIfChanged`); the gauge of open requests is exact and no body is left open (`GaugeExact`, `NoBodyLeaks`); the deflate reader of an open file reads and closes that file and is not in the pool (`OneHolder`) |
| `ratelimit` | what is admitted is bounded by the buckets made and the time (`AdmitBound`); a request is blocked only if another of its key passed in the same unit of time (`WaitedIsAdmitted`) |
| `auth` | the token of a host comes from a login begun there (`TokenOfOwnLogin`); a tab returns to the page it was opened on (`ReturnsToItsPage`); a login that nothing disturbs works (`UndisturbedLoginWorks`); redirects end, unless two tabs load at once (`NavigationSettles`) |
| `requests` | a request is answered (`Answered`) and once (`AnsweredOnce`, except for an ACME challenge whose file exists); while GitLab's answer stays the same, what has access control is sent after a check only (`CheckedBeforeServed`, except for the file of an ACME challenge); over HTTPS a project without access looks like one that does not exist, unless the user may see a private namespace project (`MissingLikeForbidden`) |
| `serving` | paths are found where the reference finds them (`ResolvesLikeChroot`); a redirect to a directory is not followed by another (`DirectoryRedirectSettles`); 304 is only said of a current copy (`NotModifiedIsCurrent`); the file that is sent is the one the client gives the most weight, none it refuses, and the plain one for ranges (`EncodingIsBest`, for headers whose `*` outweighs no encoding they name); the body is what the headers announce (`AnsweredAsAnnounced`); redirect rules match what their comment says, and perhaps more (`DocumentedIsMatched`) |
| `cache_replaced`, `resolve_race` | counterexamples, see [findings](#findings) |

To run one: `tlc -config MCDomainCache.cfg MCDomainCache`. `cache`, `zip`, `range`
and `serving` take about two minutes each with two workers, the others less.

## Bounds

- `DomainCache`: two requests of one domain, a clock up to 2, refresh after 0, expiry
  after 1, three entries. The clock stands still while the API is asked and may move
  between all other steps. This is enough for a miss, a
  refresh that outlives its entry, and a second miss or a refresh of the refreshed entry;
  the lock and each `Once` are contended by two. Only one domain: that a request
  cannot get the lookup of another domain is proved, not run. `cache_replaced` has one
  request and a clock up to 4, with refresh after 1 and expiry after 2.
- `Retriever`: three attempts (the default) and a timeout that can strike in any
  of them or in a sleep; the clock goes on until the worker has ended. No run has zero
  attempts, see the proofs.
- `LimitListener`: two listeners, three connections, two slots: both listeners
  contend for the last slot while connections are open. Fewer slots than listeners are
  outside: see the deviations.
- `GitlabResolve`: all subsets and orders of four prefixes of length 0, 1, 1, 2, and URLs
  at, below and beside each. One of the prefixes cannot be served. One call at a time;
  `resolve_race` has two.
- `ZipVFS`: two requests, expiration 1, refresh in the last moment, clock up to 3,
  three archives: one that expires, is refreshed or is found to be corrupted,
  and its successors. `Begin` keeps the bound on archives, so that no call is stuck for it.
- `ArchiveFile`: two readers in use, an object of length 5 that is replaced by one
  of length 3, two URLs, a deflated file of two bytes and a stored one of one byte. The
  deflated file lies inside the replacement, so that its second byte may be asked of
  another object than its first; the stored one lies behind its end; both readers
  contend for the pool.
- `RateLimiter`: two requests, two domains in a cache of one item, one source IP, bursts
  of 1, items that live for 1, a clock up to 2, three buckets of the domain limiter. The
  domain limiter rejects, the other one reports.
- `AuthFlow`: two tabs, two hosts of which one is the auth host, three pages, two pages
  opened, three logins, one fault. Two logins overlap, or one is repeated after a fault. No action
  loads a callback a second time.
- `RequestPipeline`: one request of each kind, all answers GitLab may give about two
  projects, one change during the request.
- `DiskServing`: scenes. `walk`: all paths of up to three components in trees of up to
  three nodes over eight leaves; `root`: paths of up to four components with links
  through the root's own name; `cond`: three requests and two deployments; `encode`: one
  request with any Accept-Encoding header of up to two items, and some of three or of two
  lines, three weights; `rewrite`: rewrites and failures. Three symlinks may be followed (255 in the code), so loops end.
- `Redirects`: rules of up to two segments against all paths of up to five
  characters; three rules where two are looked at (1000 in the code).

The readers and deflate readers of `range`, and the requests and domains of `ratelimit`, are
symmetry sets; these runs check no liveness property. `CHECK_DEADLOCK FALSE` is set where
the clock or a number of things is bounded, where the model is one call or one
request that ends, and for `LimitListener`, whose listeners may all be closed.

## Fairness

- `DomainCache`: weak fairness of the retrieval and refresh goroutines and of a
  request whose answer is there. A goroutine that can run is run by the Go
  scheduler. No request has to start, no context has to be cancelled.
- `Retriever`: weak fairness of worker, caller and clock; a `GetLookup` ends because
  its context has a deadline.
- `LimitListener`: strong fairness of `Acquire`, since goroutines blocked in a
  channel send are served in order, and of accepting, since the kernel's errors
  are temporary. Nobody has to connect or to close: the HTTP servers have no
  timeouts. A `Close` that has begun ends.
- `ZipVFS`: weak fairness of goroutines, strong fairness of `Enter`, since a
  `sync.Mutex` goes to a waiter that has starved; `readArchive` ends because it has a
  timeout. `Cancelled` is not fair: no wait ends because of it.

- `AuthFlow`: weak fairness of sending, of handling, and of the user's decision at
  GitLab (to grant, to deny or to close the tab). No fault has to happen.
- `RequestPipeline`: weak fairness of the handlers: a handler that was called goes on.
- `HttpRange`, `ArchiveFile`, `RateLimiter`, `DiskServing`: none; only safety is checked.

## Proofs

The theorems hold for every value of the constants that satisfies the named assumptions
of the module: finite sets where something is counted, types, `None` and other marks being no
member of the sets they are added to, and these facts of the code. Expirations are positive,
because go-cache takes 0 for "never" (`ConstantsAssumption`, `ZipAssumption`,
`RateAssumption`). A limiter exists only with a positive limit (`LimiterAssumption`). A local
header precedes its file's data (`ArchiveAssumption`), so that a file never starts at byte 0.
A rule of `_redirects` has the status 200, 301 or 302, as `validateRule` sees to, and a path that
`http.Redirect` has cleaned does not end in two slashes (`SiteAssumption`,
`RedirectAssumption`). TLC evaluates the assumptions on every run, and has checked each inductive
invariant below on the instance of its run.

`AdmissionProofs` is about the two modules that decide who is let in, `GitlabSourceProofs` about
the two below the GitLab source; the names of `LimitListener` and `Retriever` have a prefix
(`ListenSpec`, `RetrieveSpec`) so that one module can extend both.

- `DomainCacheProofs`. `TypeOKInvariant`: type correctness needs that ids in use are
  allocated, so the inductive invariant is `TypeInv == TypeOK /\ Allocated`.
  `MissOnce`: `Spec => []MissOncePerExpiry`. The property does not say why a second
  miss cannot happen early. `Covered` does: as long as an entry made by a miss is
  younger than the expiration, its domain has an item in the store that expires no
  earlier than that. A refresh keeps it because `ReplaceOrCreate` starts a new
  TTL, the janitor because it removes expired items only, `Create` because it
  looks again under the lock.
  `ReachableIsStable` needs to know who can write an entry: `Content` says that an entry is
  resolved exactly when its retrieval is done (`Filled`), that the entry of a
  refresh can be reached by nobody before it is published and belongs to one refresh
  (`Private`), and that entries are filed under their own domain (`OwnDomain`).
  `CacheImplementsSource`: `Begin` is loading or missing an entry, `Finish` is each of the
  returns, `ApiAnswers` is a retrieval that gets its answer, all else stutters; that
  a request gets an answer for its own domain is `OwnDomain`.
- `GitlabSourceProofs`, on `Retriever`. `RetrieveInvariance`: the types, with how the states of
  caller and worker depend on each other (`Begun`, `Returned`, `Answered`). From it
  `FailureIsJustified`, the action property `DefiniteIsFinal`, and `RetrieverKeepsPromise`: if
  at least one attempt is configured, every step of `Retriever` is a step or a stutter of
  `RetrievalPromise`. Without the hypothesis the zero lookup is an answer.
- `GitlabSourceProofs`, on `GitlabResolve`. `SortedIsNotWritten`: of a list that came in order no
  two neighbours are exchanged, so no call ever writes (`OnlyRead`). `LongestPrefixServes`: if
  calls do not overlap or the lists come in order (`Undisturbed`), the prefix that serves is the
  longest. The invariant is that of an insertion sort, split at the three copies of an exchange:
  the first `i` paths are in order but for the `j`-th (`InOrder`), the list is a
  rearrangement of what the API sent, and the loop has passed no prefix of the URL. Two
  requests on an unsorted list are the finding `resolve_race`; the hypothesis is needed.
- `AdmissionProofs`, on `LimitListener`. `SlotsAreAccounted` needs that an `Accept` without a slot
  belongs to a closed listener (`AcceptorInv`, `ClosedInv`) and that a connection waits
  in one backlog and is not yet open (`BacklogInv`). `LimitIsKept` and
  `ReleaseDoesNotBlock` (a release, which is a channel receive, finds an element)
  follow from it by cardinalities.
- `AdmissionProofs`, on `RateLimiter`. `AdmissionIsBounded`: of the buckets made for a key only the
  newest can be found in the cache (`Cached`), but calls may hold older ones and still get a
  token each. So `Accounts` bounds a sum: those that have passed, the tokens the newest bucket
  would have now, and the late calls. Waiting adds a token and a unit of time, passing moves one
  from the second or third part to the first, and a new bucket makes late at most
  the other calls, which is what the bound grants it. `WaitingIsAdmitted` needs that a bucket that
  is not full was last asked by a request that passed (`Passed`).
- `ArchiveFileProofs`. A reader waits for an answer or has a body, never both; its request is the
  rest of its range, which lies in the object that was opened (`SentOK`); a body is at the
  reader's offset and, of a file that is open, a partial answer, which ends with the range
  (`BodyOK`, `UseOK`). That is why `StaysInRange` holds although neither side limits a
  read. `FilesAreNotSpliced`: nothing seeks in a deflated file, and a body that breaks off is kept
  and not asked for again, so that all that was handed out is of the body the reader still has
  (`HistoryOK`). `DeflatersAreNotShared`:
  a deflate reader is in the pool, or it is that of one file that is open or closing
  (`Holding`); nothing else keeps the closer of a reader that comes out of the pool from being
  another's. `RefusesOnlyChangedObjects` and `BodiesAreClosed` follow from the invariant.
  `GaugeIsExact`: no step moves the gauge but with the one reader it works on (`GaugeMoves`).
- `ZipVFSProofs`. Between `Delete` and `Add` the key has no item, for only the holder of the
  lock stores one: `AddAlwaysSucceeds`. While no archive is being made the newest is in the cache
  for all of its expiration, or that is over (`ItemOK`): `ReadOncePerExpiration`. A
  corrupted archive was opened before, so a call that found a good one began before it was
  bad: `CorruptedIsNotServed`. `CountOK` adds to the item the one eviction that is not yet reported:
  `GoneIsNotCounted`.
- `RequestPipelineProofs`. `AnswersOnce`: until the pipeline ends nothing is written, except to a
  challenge whose file was served (`Room`). `ServesOnlyAfterCheck`: while GitLab says the same, the handlers that serve
  from a project are reached after its check, and what was read about it is still right
  (`Shown`). `ForbiddenLooksMissing` compares two requests that take different ways: `Alike`
  names the answer both get (`Same`) and tells which handlers each of them can be at (`Stage`).
- `AuthFlowProofs`. The state in a session was made by a page of its host, and the address to
  return to was stored with it (`CookiesOK`); a tab in a login carries a state made for the page
  asked for in it (`TabsOK`). This is true of the cookies and of older snapshots of them, so it
  survives tabs that overwrite each other: `TokensStayAtHome`, `ReturnsWhereItBegan`. For
  `UndisturbedWorks` the converse is needed: a tab that is alone reads what it wrote, and its
  state has not been exchanged (`Alone`, `CalmOK`).
- `DiskServingProofs`. `NotModifiedOnlyIfCurrent`: a copy has the entity tag of its deployment and
  encoding (`CopyTagged`), a request that revalidates it has sent that tag and nothing else
  (`CopySent`), across redirects that are followed, and If-None-Match goes before
  If-Modified-Since, so that times, which may repeat or go back, do not matter.
  `BodyIsAnnounced`: what is answered before an encoding is chosen is answered without headers
  (`HeadersSet`). `OnlyFilesAreServed`: what is opened is a regular file of the site's tree.
  `DirectoryRedirectsSettle` has an invariant of its own, `SettleInv`: whoever has followed a redirect
  asks for a path with a slash, from which `tryFile` sends nobody on, and a rule of `_redirects`
  cannot name that path with one more slash.

All safety properties of the runs are proved but three. `EncodingIsBest` is a fold over the
offers and over the header, `ResolvesLikeChroot` compares two recursive walks, and
`DocumentedIsMatched` a recursive matcher with the regular expression: each would take an induction over
its input, which the prover cannot do with the operators of a module as its predicate.
They are checked against reference definitions over bounded inputs. The liveness properties
(`WaitersAnswered`, `RefreshPublishes`, `WorkerEndsUnlessTimeout`, `StopsAfterClose`, `ServedWhenNoneOpen`,
`RootReturns`, `NavigationSettles`, `Answered`) are model-checked only: TLAPS has no rule for fairness.
The two findings are counterexamples. What the proofs take from the model is checked
by TLC only as far as the bounds go: that the models are those of the code is for a reader to compare.

Type correctness, `DefiniteAnswerIsFinal`, `LimitHolds`, `ReleaseNeverBlocks` and `ServedIsFile` are proved
and not run.

## Findings

Runs that are expected to fail state what a comment says.

1. `cache_replaced` (`cache.go:134`): a successful entry "will only be replaced if the new
   resolved entry is successful too" (`cache.go:112-113`). A refresh that takes longer than
   its entry lives replaces the entry of a later miss by its error.
2. `resolve_race` (`gitlab.go:78`): the prefix "/" is to be "the last one to be
   checked" (`gitlab.go:105-106`). Two requests that sort the shared slice at once can find it first.
   `SortedIsOnlyRead` shows that nothing goes wrong if the API sends the paths
   sorted.

## Deviations without a run

The models have these behaviours too, but no run here states the contrary. The first
four were shown by counterexamples of TLC in an earlier state of this project; its
properties were given up for others, and the models of that code are the same.

- `cache.go:131`: an old lookup is kept "for a maximum time of e.expirationTimeout"
  (`cache.go:114`). A failed refresh of an entry that was itself kept takes that entry's
  creation time, so the lookup ages without limit while the API fails.
- `shared_limit_listener.go:74`: an idle listener's `Accept` takes a slot, and with no more
  slots than idle listeners another one accepts nothing, although no connection is
  open. `max-conns` (`flags.go:55`) speaks of "concurrent connections".
- `vfs.go:204`: the janitor can remove an item that a refresh then puts back; the gauge
  of archives does not count it. `NothingGoneIsCounted` is the half that holds.
- `archive.go:291`: an archive evicted while it is read adds its files to the gauge
  afterwards, for good. This needs an open timeout above the expiration.
- `retriever.go:81`: the retriever waits "in between" attempts (`cache.go:43`), and after the
  last one too.
- `http_reader.go:107`: a whole answer is compared by ETag only, and a partial answer with an
  ETag is not compared: a file may be read from the object's replacement, at offsets of
  the old one. `OneObjectPerFile` states what holds all the same.
- `reader.go:199`, `reader.go:222`: when opening a file or detecting its type fails, the error page
  goes out under the encoding, and perhaps the length, that were set before. A 404 page
  whose body breaks off is followed by the error page.
- `acme.go:33`: a challenge whose file exists is answered by the file, before access control
  is looked at, and the pipeline goes on and answers again. `AnsweredOnce` and
  `CheckedBeforeServed` except this file and nothing else.
- `app.go:93-95`: a missing project is to look like a forbidden one. It does not over plain
  HTTP, where only a project that exists can be `https_only` and redirect, nor to members of a
  private namespace project, whose 404 page they get for a missing project.
- `retriever.go:73`: with no attempts configured the zero lookup is sent, neither a domain nor
  an error.
- `domain.go:79`: a project is taken to have no access control if it cannot be resolved at
  that moment. Handlers resolve anew, so this takes a change during the request.
- `auth.go:314`: a denied login that is proxied to a domain has no code to seal and is
  answered 503.
- `negotiate.go:26`: an encoding has the larger of its own weight and that of a `*`, so that
  one refused with `q=0` can still be chosen. `EncodingIsBest` leaves such headers out.
- `matching.go:57`: the rule `/a/*` also matches `/ab`, so that `DocumentedIsMatched` has one
  direction only.
- `symlink.go:61`: a path that leaves the root and comes back by the root's own name
  (`../public`) is in the root again; in a chroot `..` would stay there. `Lookup`, the
  reference, follows the code in this.

## What is not modelled

- Data: URLs and headers, JWT and JSON of the API client, zip and deflate formats,
  certificates. Their outcomes are inputs of the actions that use them.
- Logging, and metrics other than the gauges of zip archives and of open requests.
- Startup, configuration and listeners (`main.go`, `server.go`, `app.go` from `Run` on, `config`):
  sequential set-up in which every error ends the process.
- Reconfiguration (`zipVFS.Reconfigure`, `Disk.Reconfigure`), which runs once, before the
  first request, on an empty cache.
- Transports (`httptransport`, `httpfs`): set-up and instrumentation. Custom headers.
- TLS certificates (`ServeTLS`, `EnsureCertificate`): parsed once per domain object.
- `Artifact.BuildURL` and the templating of redirect targets: text.
- go-cache, ccache, `rate.Limiter`, `sort.SliceStable`, `sync.Pool`, the object storage, GitLab,
  the browser and the kernel's listen queue are external; they are modelled from how
  the code uses them.

`PROJECT.json` has all parts with their status, and the main hazards with the line where they
bite.

## Plan

1. `RequestPipeline` composed with `LookupSource`, so that the changes of the world are
   those the domain cache allows.
2. The merging of blocks in `sort.SliceStable`, for lists of more than 20 lookup paths.
3. Startup and reconfiguration, if they come to overlap with requests.
