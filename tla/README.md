# Bartolo: TLA+ models, checks and proofs

Bartolo reads an OpenAPI document and generates a Go command-line client and an
MCP server for the API. This directory models both halves: the generator, from the
document to the files of a project and the schemas of its tools, and what a generated
program does at run time: the profiles and settings it keeps in files, the server and
key of a request, the OAuth tokens it caches, the browser login, one run of a command
from its flags to its exit code, what it shows of the answer, and the MCP server that
runs API calls for many callers at once. `PROJECT.json` lists components, runs, the
source lines each definition stands for, the hazards and the theorems.

Check a run with `tlc -workers 2 -config X.cfg M`, a proof with `tlapm M.tla`.

## The system

| Component | State it keeps | Operations | Interacts with |
|---|---|---|---|
| Profile store (`cli/credentials.go`, `cli/cli.go`) | `credentials.json`, the profile keys of `config.json`, copies of both in each invocation | `auth profile add/use/remove/clear`, `auth setup`, settings, the active profile of a request, adoption of the legacy `default` profile | every request reads it; overlapping invocations share the files |
| OAuth token cache (`oauth/`) | `cache.json`, a copy per process, the server's view of refresh tokens | serve from cache, refresh, client credentials, log in, store | profile store (the name is the cache key), login |
| Authorization-code login (`oauth/authcode.go`) | the local server on port 8484, an unbuffered channel, a timer | start, receive a redirect, time out, shut down, exchange | token cache, browser, other logins of the process |
| MCP tool selection (`mcpserver/customize.go`, `discover.go`, `command.go`) | the listed tools, the meta-tools' catalog | keep, remove, patch, add, wrap, filter, discover, register | MCP server |
| MCP server (`mcpserver/command.go`, `httpserver.go`, `httpauth.go`, `apitool.go`) | calls in flight with their contexts, server life cycle | authenticate the caller, dispatch, call the API, cancel, shut down | tool selection, auth middleware, the API |
| Request body input (`cli/input.go`, `cli/flags.go`) | none between commands; stdin | merge stdin, file, shorthand, field flags | shorthand, whoever holds the other end of stdin |
| Command execution and waiters (`templates/*.tmpl`, `cli/agent.go`, `cli/credentials.go`, `cli/exit.go`) | the step of the command, a waiter's attempts | body, confirmation, request, answer, format, poll, exit code | request body, the operator, the API and the resource behind it |
| Settings and server choice (`cli/cli.go`, `cli/agent.go`, `cli/server.go`, `apikey/`) | `config.json` of the user and of the system, `.env` files, viper's layers in each invocation | start-up, migration of the old `server` key, `server list/current/set/use/clear`, `default-format`, the server and key of a request | profile store (same file), every request, output |
| Output (`cli/formatter.go`) | none | pick rows, columns and footer of a table, or serialize | every command that shows something |
| Generator (`main.go`, `mcpschema.go`, `templates/`) | the project tree, names taken so far | init, generate, sync; names, flags, schemas, tools, waiters of a document | the user's edits; writes the program all of the above is linked into |
| Request pipeline, validation, shorthand (`cli/http.go`, `cli/validate.go`, `shorthand/`) | the global HTTP client | middleware, redaction, parsing | not modelled |

**What is hard.** Nothing locks the files: an invocation reads both at startup and
writes whole trees back, so overlapping invocations work on stale copies, and a
kill falls between two files. Access to the token cache has the same shape, with
a write that is not atomic and a peer that rotates refresh tokens. The login has a
goroutine per request that may block for ever, a fixed port, and redirects that
come late or for another login. The MCP server serves callers concurrently
with one client and one credential middleware, is cancelled and signalled at any
point, and has an upstream that need not answer. A command reads a pipe somebody may never
write to or close, and polls a resource that may settle at any moment or never. A server
comes from up to five places and a key from as many, decided apart, while another
invocation migrates or rewrites the file underneath. The generator renames flags,
cuts and numbers tool names and truncates cyclic schemas, each step after another has
fixed what it relies on, and it overwrites a project a user edits, with no transaction.

**What makes each part correct.** *Profiles*: a selection is never left without the
decision that explains it; a decision to use no profile is never undone by adoption;
a selected name that is not stored is the trace of a `remove` that was cut short or
masked; a stored profile has its required fields; one invocation at a time, the two
files act as a single table. *Tokens*: a token is used and kept only for the profile
or client it was issued for, and nobody is sent to the browser while a refresh token
works. *Login*: only the code that was taken may be told of success, a token is granted
for the authorization request the login itself opened, and a login ends. *MCP*: each call acts as its caller, what
options and flags exclude cannot be reached, read-only tools only read, a cancelled
call sends nothing more, and no wait is unbounded. *Commands*: nothing destructive goes
out without consent, an exit code says what was done, each part of a body comes from
its highest source, an idle pipe does not hold a command that has its body, and a
waiter tells the truth about the resource and ends. *Settings*: only a decision changes
the server choice, a profile's key and server go together, and a table shows one whole collection.
*Generator*: names of tools and flags are distinct, an argument reaches the parameter it
is named for, what a tool or a flag accepts covers what the API declares, a generation
that ended leaves a whole package, and the user's files are the user's.

## Modules

| Module | What it is |
|---|---|
| `Profiles` | Pure operators: the store, merging of fields, selection, the active profile, the credential of a request |
| `ProfileRegistry` | Abstract specification: one table of profiles and one choice, changed atomically |
| `ProfileStore` | The detailed one: invocations, their memory, two files, one step per read and per atomic replace, failed writes and kills. Refines `ProfileRegistry` when invocations do not overlap |
| `TokenCache` | Processes over `cache.json` and an authorization server: request, refresh, login, `Cache.Set`, the truncating write, kills, lost answers, expiry, and a profile edited meanwhile |
| `AuthCodeFlow` | Logins of one process: `Token`, the listening goroutine, the HTTP handlers, the browser |
| `McpTools` | Pure operators: `applyCustomizations`, `filterTools`, `discoveryTools`, `prepareTools`, registration |
| `McpServer` | Calls through inbound authentication, dispatch and meta-tools, outbound authentication, the API; cancellation and shutdown. Extends `McpTools` |
| `RequestBody` | Pure operators: a base body, shorthand and flags merged over it, whether a body comes from elsewhere than stdin |
| `CommandRun` | One command: a generated operation, `request` or `wait`, with its pipe, operator, API and resource. Extends `RequestBody` |
| `CommandNames` | Pure operators: slugs, groups, leaf names, flags and their renaming |
| `Schemas` | Pure operators: the fields and choices of body flags, merged compositions, JSON Schema conversion. Extends `CommandNames` |
| `SchemaMeaning` | The reference for `Schemas`: what it means that a schema declares a value, or that a converted one accepts it, given what their parts mean (`DeclaredBy`, `AcceptedBy`) |
| `SchemaPromises` | The two properties of `Generator` that are judged by it, and what they need of the branches of a union |
| `ToolNames` | `assignMCPToolNames`, one step per name tried |
| `ApiBuilder` | `ProcessAPI`: one step per path item and operation, then tool names, waiters, panics. Extends `Schemas`, `ToolNames` |
| `Project` | init, generate and sync on a project's files, one step per file, with kills, failures and the user's edits |
| `Generator` | Composition of `ApiBuilder` and `Project`: a command that reads a spec, builds it and writes it |
| `Values` | What responses are made of |
| `Settings` | Pure operators: URL rules, `.env`, viper's ranking, the resolution of server, profile and key, the migration |
| `ServerChoice` | Abstract specification: one choice of a server, changed only by who is asked to |
| `Output` | Pure operators: rows, columns, footer and serialization of a response. `Normalized`, the one form JSON's and YAML's values take, is a parameter: `NormalizedWith` says what it is, given that of the parts |
| `NormalizedValues` | That parameter's value in the run: `normalizeTableValue`, recursive |
| `CliSettings` | The detailed one: invocations over `config.json` from start-up to what they print. Refines `ServerChoice`. Extends `Settings`, `Values` |
| `CliOutput` | The invocations of `CliSettings` with the formatter of `Output`: what of a response is shown |
| `MCProfileStore`, `MCTokenCache`, `MCAuthCodeFlow`, `MCMcpServer`, `MCCommandRun`, `MCGenerator`, `MCCliSettings` | Instances for TLC |
| `ProfileStoreProofs`, `TokenCacheProofs`, `AuthCodeProofs`, `McpServerProofs`, `CommandRunProofs`, `ApiBuilderProofs`, `ProjectProofs`, `CliSettingsProofs` | Theorems |

### How they correspond to the code

*ProfileStore.* `credentials` and `config` are the files; `mem[p]` is what one process
holds: the config tree viper loaded, the in-memory override of `viper.Set`, the
credentials tree, and the tree `saveJSONConfig` is about to write. `pc[p]` names the
next file operation. `Launch` is `initConfig`; `InitCredentialsFile`, `AdoptRead` and
`AdoptWrite` are start-up; `PersistRead`/`PersistWrite` are the two halves of
`saveJSONConfig`; `SaveCredentials` is `Creds.Save` with the command's in-memory
change. `Kill` may strike before any step, and a write may fail. `torn` is a history
variable: the names a `remove` took out of one file and left selected in the other.

*TokenCache.* Tokens are numbered in the order the server issues them. `disk` is the
file, `Torn` the moment between truncation and the last byte; a reader of a torn file
has an empty cache, as `initCache` ignores the error. `live`, `expired` and `forgone`
describe the server and what was lost by failures rather than by the program. `Answers`
says how a refresh may be answered: with or without a new refresh token, with a new
access token or the one the client already has, which `TokenHandler` does not store.

*AuthCodeFlow.* `main[l]` follows `Token`, `server`, `port` and `conn` the goroutine,
the listener and each request's handler. A handler in `sending` is one blocked in
`h.c <-`. `verifier[l]` is what the login drew, `issued` what the authorization server
knows of a code (the URL it was asked for with, and the challenge in it) and `carries`
the code a request brought: any code the user was ever redirected with, or none.
`Granted` compares challenges, never logins; that a token is a login's own is a
consequence.

*McpServer.* `tools` is the result of `prepareTools`, fixed when the process starts;
a start that fails serves nothing. `pc[c]` follows a call from the HTTP handler through
`makeHandler`, a meta-tool's `invoke`, the client's auth middleware and the dial.
`sent` is a history variable of what reached the API. A request names the tool, the
operation a meta-tool should run, and whether the operation's arguments match its
schema. `mode = "oauth"` may accept or refuse any token: which ones the JWT
verifier accepts is not modelled.

*CommandRun.* `pc` follows the generated `RunE` (`operationRun`), that of `request`, which
confirms before it reads a body, or the waiter's loop. `pipe` is standard input as its
other end left it. `ReadStdin` and `GraceExpires` are the two arms of the select in
`readStdinWithin`, `NextWaiter` the sequence of `--wait-<name>` blocks, `Poll`, `Match` and
`Sleep` one turn of the generated loop. Every way out is an `ExitWith`, the code
`ExitCodeFor` gives. `sent`, `applied`, `answer` and `met` record what happened outside.
A body is known by which source supplied each leaf, so a merge that loses or
misorders a leaf shows. Flag values, parameters and headers are accepted or refused.

*ApiBuilder, ToolNames.* A name is its words, so that `filterBy` and `filter_by` meet in
one slug as they do in the code; the length limit counts words. `phase` follows
`ProcessAPI` from path to path and into `assignMCPToolNames`; a panic of the code is a
phase of its own. A schema is a node of a graph, as the loader shares one `*Schema` among
its `$ref` sites; values are judged by `SchemaMeaning`, not by the conversion. `Declares` and
`Accepts` are parameters there: the run makes them what `DeclaredBy` and `AcceptedBy` say of the parts
(`MCDeclares`, `MCAccepts`), the proofs assume no more than that (`Meaning`). A conversion is a table over
the levels it has left, the schemas visited on the way and the node (`Convert`).

*Project.* `disk` says of each file outside `cli/generated` whether it is absent, written,
torn by a kill, or edited; `package` says of each file inside what it was generated
from. `todo` holds the operations a command has left, in the order the code performs them:
`StartInit`, `StartGenerate` and `StartSync` fill it, `Step` takes the head, `Broken` drops the
rest.
`made` is a history variable: what the last command generated, if it ended well.

*CliSettings.* `file` and `system` are the two `config.json`; `mem[p]` holds viper's layers:
flags, overrides, environment (with what `.env` added), file. `MigrateRead`, `MigrateWrite`
and `MigrateReload` are the steps of `migrateLegacyServerConfig`, `PreRun` is
`PersistentPreRunE`, `SaveRead`/`SaveWrite` the halves of `saveJSONConfig`. The refinement
maps the tree to the choice it stands for: the old key counts until a new one is set.
`blind` says that its last read of the file failed, which `around.unreadable` allows at every
read; the code does not tell that from an absent file. `SendRequest` is an operation or raw
`request`, whose absolute URL is sent to as it is.
`seen`, `sent`, `reached` and `shown` are history variables.

Names ending a comment "Seeded fault" (`AddAnyTools`, `SendUnbound`, ...) are wrong
variants of the operator below them. No specification uses them; substituting one
must break the property it is paired with in `PROJECT.json`, which shows that the
property can see that error.

## Runs

| Run | Question | Bounds | Result |
|---|---|---|---|
| `profiles_serial` | One invocation at a time, with overrides, failed writes and kills: selections dangle only as explained, adoption undoes nothing, and the store refines the registry | one work profile and the legacy one, two key values, every command | holds |
| `profiles_overlap` | Overlapping invocations with stale copies: selection and decision stay together, stored profiles stay complete | two invocations, one command of each kind that reads or writes a file | holds |
| `profiles_system_config` | With `/etc/<app>/config.json`, is a decision still never undone? | as `profiles_serial` | violated, see Findings |
| `tokens_serial` | Tokens stay in their bucket, and the browser opens only when it must | one process at a time, killed and restarted, two clients, three issues; overlapping processes are covered by the proof of `TokensStayInTheirBucket` | holds |
| `tokens_unwritable` | Is a token that was obtained used? | an unwritable cache | violated |
| `login` | Who is told of success, for whose authorization request a token is granted, and that a login ends unless the process died or the login is stuck for ever | two logins that may overlap, two codes issued for either URL at any time, two requests with any of them or none, the port possibly taken | holds |
| `login_stuck` | Does every login end? | logins one after another | violated |
| `login_overlap` | Does a login leave the process running? | two logins at once | violated |
| `mcp` | Whatever is configured, what can a call make the API do? Whose credential is sent, do cancellation and shutdown always work? | three generated operations in two groups and custom ones, 208 option sets by 4 filters with one call; two calls, five modes, three headers and none | holds |
| `command_run` | Whatever the command line, what is sent, what does the exit code say, and does the command get on? | 8162 command lines: every combination of body sources for JSON and YAML, `request` in three kinds of media type, and every combination of consent, server and parameters; three leaves, two of them nested; two waiters of two attempts | holds |
| `generator` | Are names and flags distinct, do arguments reach their parameters, does nothing narrow what the API declares, is what a command leaves whole, do the user's files stay? | a document per kind of clash, exclusion and waiter; every pair of nine body schemas (unions, cycles, `allOf`, nullable) and six result schemas, with the values each is probed with; two commands with an edit and three without, on two specs, broken off at any file | holds |
| `settings` | What changes the choice of server, do settings keep key and server together, does a table show a whole collection? | six pairs of config files, thirteen surroundings, an unreadable file, every command, 21 responses shown in twelve ways; two invocations | holds |

Why these bounds suffice: two invocations (processes, logins, calls) already meet in
every order at every step; a third adds no new pair. The file models need two values
of a field to tell a merge from a replacement. Three token issues cover a login, a
rotation, its lost answer and a second client. Overlapping processes over the cache
file are left to the proof, which is for any number of them. Two patches in a row
are what it takes to rename onto a name an earlier patch freed. A nested object needs two
leaves for its replacement to lose one, and two attempts tell a last one from an
earlier. Names cut at three words with `_2` and `_3` meet as 128 bytes do. Two commands with
an edit between them reach every torn file a second command can meet; a third command
meets what a second left half done. In `settings` only a clear, a `default-format` and a
request, nothing set around them, run beside each other, the invocations being
interchangeable (`SYMMETRY`); the rest run alone, since what differs between them is what
one process resolves. Failed reads run alone too: beside another invocation they are covered by
`RefinesServerChoice` only. Each bound is a
constant of the module (`MaxIssues`, `Calls`, `Logins`, `MaxCommands`, `Concurrent`, ...).

`CHECK_DEADLOCK FALSE` stands only where the system may stop: a process that
exited, a command that ended, a server that was signalled, logins that are over, a developer
who stops.

### Fairness

The profile, token, generator and settings models need none: their properties are safety. In
`AuthCodeFlow` the steps of `Token` and of runnable goroutines are weakly fair (the Go
scheduler runs what can run, and the five-minute timer fires); the browser
need not do anything. In `McpServer` the steps of a handler are weakly fair, and so is
`Drained \/ DrainTimeout`, which is `Shutdown` with its ten-second context. The API
need not answer, the client need not cancel and nobody need send a signal, so
`CancelAborts` and `DrainEnds` hold against an API that never answers. In `CommandRun`
only the process is weakly fair, with its grace timer and its sleep; the writer, the
operator and the API need do nothing. There is no deadline on a request, so
`WaitEnds` takes answers from the API as a premise, though not that the resource settles.

## Findings

* `profiles_system_config`: with a system-wide config file, viper never reads the
  decision `auth profile clear` records in the home directory, and the next invocation
  selects the legacy profile again.
* `tokens_unwritable`: when `cache.json` cannot be written the request fails although
  its token is in memory.
* `login_stuck`: a second request on the login's port blocks in its send for ever, and
  `Shutdown(context.Background())` waits for it without a deadline.
* `login_overlap`: the second of two concurrent logins cannot bind the port, and
  `log.Fatal` ends the process, with every other call an MCP server is serving.

Observed while modelling, and stated by the passing runs as they are. Where a comment of the
code says otherwise, it is quoted; a property's own comment says what it leaves out.

* Tokens. A refresh token that comes with the access token already in the cache is dropped
  (an answer is stored only if its access token differs, `oauth/oauth.go:120`),
  although the server may have invalidated the old one. `LoginOnlyWhenNeeded` is about
  servers that do not answer so (`Answers`).
* Commands. A declined confirmation exits 0 (`cli/exit.go:109`), although
  `cli/credentials.go:1160` says of it that "no failure path can report exit 0". So does a refusal
  that raw `request` shows, although "every failure must map to a non-zero code"
  (`cli/exit.go:12`). `OkMeansDone` says what each of them does tell.
* Request bodies. A pipe beside another source is given up if it is not closed within 250 ms,
  even if its data has arrived; `cli/input.go:505` has it given up "if nothing has arrived". In a
  YAML body, and under a string-map flag, a nested object is replaced instead of merged into,
  although "CLI shorthand still applies on top of any base body so you can override or add fields"
  (`cli/cli.go:765`). `BodyIsLayered` says exactly which leaves are lost. A body flag registered as
  `--body-<name>` does not get a command past an idle pipe (`cli/input.go:257`, excluded from
  `IdlePipeIsSkipped`); only CLIs generated before that renaming have one.
* Commands and waiters. A match on a waiter's last attempt is reported as `maximum attempts exceeded`
  (`WaitReportsState`). A waiter's argument can be refused with exit code 2 after the
  operation succeeded (`UsageMeansNotSent`). A body of `null` panics, and exit status 2
  reads as a usage error.
* Settings. An absolute URL of raw `request` skips the resolution of the server (`cli/agent.go:354`)
  but not the middleware that adds credentials, so the profile's key goes to any host it names, as it
  does with `--server`; `cli/agent.go:188` gives "what lets a command reach one deployment holding another's
  credentials" as the reason for resolving both together. `OneDeployment` is about the requests
  whose server the settings decide. `saveJSONConfig` takes any error of its read for an absent file
  (`cli/cli.go:599`), so a save while `config.json` cannot be read drops the server choice and every
  other key; `cli/credentials_test.go:856` tests only that a file that is no JSON is an error.
  `server clear` reports the server as if `<PREFIX>_SERVER` were unset, since
  viper's override masks it; `--server ""` masks the variable too. An unusable
  `output-format` in `config.json` makes `default-format` itself fail unless `-o` is given. A
  migration that cannot write leaves the old `server` in front of a newer `server-default`
  (the exception in `Redirects`). A save or a migration that read the file before an overlapping
  decision puts the older choice back (`Write` of `ServerChoice` allows it: nothing promises
  otherwise). The hint that an unused `.env` has the key may name
  `.env.local` although `.env` blanks it.
* Output. An empty conventional array beside two populated ones prints "No results.", although "a
  populated array always wins" (`cli/formatter.go:819`); another array of objects beside the rows is shown
  nowhere, although the footer is to hold "whatever else the envelope holds" (`cli/formatter.go:639`).
  `CollectionShown` names both. The footer hides `next`, `previous` and `count`, which `moreAvailable` does not read.
* Generator. The `--wait-<name>` flags of waiters are not reserved
  (`templates/command_partials.tmpl:36-38`), so a parameter of that name registers a flag twice and
  the CLI panics at its start, although `main.go:1741` speaks of every flag on the same command;
  `FieldFlagsAreDistinct` is about the others. A waiter reads the parameters of the operation it follows. Path
  parameters an operation overrides stay in `getParams`, unlike in `mcpParams`. `a-1` and
  `a1` share a Go name, a group named `root` overwrites `root_commands.go` (excluded by
  `ApisAssumption`), and two operations may get one command path.
  `unionEnumSchema` joins a property of several `oneOf` or `anyOf` branches only when each has it as
  a string. When the incoming one is untyped, of another type or a union of several with a string among
  them, the first branch's schema and its choices stand, and values the other branch allows are rejected,
  although its comment says that no partial enum is enforced (`UnionsAgree` excludes such documents, of
  which the instance has none). Choices that need no widening keep their schema even if only the
  incoming branch may be null (`NullComesFirst`). A property that is `readOnly` in the branch that requires it
  and writable in the host is still a required argument; one that is `readOnly` in the first branch that lists it has no
  argument, although another branch may take it and the input schema is closed (`DirectionsAgree`).
* Project. sync writes the stub of `register.go` before it reads the spec, so a sync
  whose spec is missing leaves a CLI without commands. Neither init nor sync repairs
  every interrupted init. A torn `.bartolo.json` makes generate emit both surfaces and
  record nothing; a torn file of the user's kind is kept as the user's.

## What is proved

For every value of the constants, from the assumptions named in the modules:

| Theorem | Says |
|---|---|
| `TypeCorrect`, `SelectionAlwaysDecided`, `StoredProfilesAlwaysComplete` (`ProfileStoreProofs`) | the store's types; selection and decision stay together; stored profiles are complete, overlapping or not |
| `SelectionNamesProfile`, `ClearStands`, `RefinesRegistry` (`ProfileStoreProofs`) | if invocations do not overlap, with one directory and readable files (`Alone`): dangling selections are explained, adoption undoes no decision, and `ProfileStore` implements `ProfileRegistry` |
| `CacheTypeCorrect`, `TokensAlwaysInTheirBucket` (`TokenCacheProofs`) | a token is kept and sent only where it belongs, however processes overlap |
| `LoginsOnlyWhenNeeded` (`TokenCacheProofs`) | if processes do not overlap: the browser is opened only when no refresh token works, or the one that does was lost to a failure, whether or not the server rotates them, as long as it does not repeat the access token when it does |
| `LoginTypeCorrect`, `PageAlwaysForTakenCode`, `TokenAlwaysFromOwnUrl` (`AuthCodeProofs`) | who is told of success; a token is granted for the URL the login itself opened, whatever redirects cross |
| `ServerTypeCorrect`, `AlwaysActsAsCaller`, `NeverSentAfterCancel` (`McpServerProofs`) | whose credential is sent; cancelled calls send nothing |
| `AlwaysOnlySelected`, `AlwaysOnlyRead`, `AlwaysWrappedOnce`, `AlwaysUniqueNames` (`McpServerProofs`) | for any operations and sequences of options: what calls run was selected, `--read-only` lets only reads through, each tool is wrapped once, and tools have names of their own |
| `CommandTypeCorrect`, `AlwaysConsentBeforeSending`, `UsageAlwaysMeansNotSent`, `OkAlwaysMeansDone`, `WaitAlwaysReportsState`, `BodyAlwaysLayered` (`CommandRunProofs`) | for any command lines, matchers and attempts: consent before a DELETE, what exit codes and waiters say; each part of a body comes from the highest source the command line calls for, where a pipe beside another source may be passed over and exactly the parts of nested objects that a higher source replaces as a whole are missing |
| `FieldFlagsAlwaysDistinct`, `ArgumentsAlwaysReach` (`ApiBuilderProofs`) | for any document: no two flags of a command's fields and parameters meet and none hides a reserved one; each argument of a tool is sent as the parameter it stands for |
| `ToolNamesUnique`, `GeneratedToolNamesUnique` (`ApiBuilderProofs`) | tools are named without a collision and within the limit, whatever their base names; so are those generated for any document |
| `EnumsNeverNarrowed` (`ApiBuilderProofs`) | for any document and graph of schemas whose unions agree: a flag that offers choices offers every string a declared body has in its field |
| `DeclaredAlwaysAccepted` (`ApiBuilderProofs`) | for any such graph, cycles and depth limits included: a tool's closed input schema accepts the bodies its operation declares, field by field, and its output schema the results |
| `PackageAlwaysWhole`, `UserFilesAlwaysKept` (`ProjectProofs`) | a generation that ended leaves one spec's package, whole and registered; no command changes a user's file that exists |
| `AlwaysShowsCollection` (`CliSettingsProofs`) | of any response without empty keys, however it is to be shown: a table's rows are the whole response or one of its arrays, no results are claimed of empty arrays or an ambiguous envelope only, and what is no array of objects and no paging is below the table |
| `RefinesServerChoice` (`CliSettingsProofs`) | overlapping or not, with reads that may fail: the choice of server changes by a decision, by a write that puts back one in force meanwhile, or by a write of an invocation that could not read it |
| `AlwaysOneDeployment` (`CliSettingsProofs`) | where settings decide the server, a profile's key goes to the server that profile means, and its server gets no other; a key in `.env` needs the switch |

### The arguments

*Profiles.* The types are strengthened by a statement about each
invocation's memory: whatever was read or merged still pairs a selection with its
decision and holds only complete profiles, so writing it back, however stale, is
harmless. Without the copies the invariant is not inductive: the file is written from
memory. The refinement adds that, alone, an invocation's copies are current
except between its own two writes; then each file write is one step of the registry.

*Tokens.* Each token in the file, in every copy and in every request in hand was issued for its
bucket. `RefreshInv`, for processes that take turns, says at each label which memory holds the
newest refresh token that still works, and that a process with nothing unsaved has what the file
has: a login is only reached from a label at which none is held.

*Login.* A login takes at most one code, before its select ends. No two logins share a
verifier and a code is bound to the challenge of one login's URL, so the challenge that
matched at the exchange names the login that asked.

*MCP server.* `IInv`: `forward` admits no call without a header, what is about to be sent has a
credential, and a call that sent something keeps its request. `ToolInv`: what a call
executes is a listed tool it called, or one of the catalog a listed meta-tool may run, from the moment it
begins. That what is offered was selected, is named once and stems from its operations is shown of
`prepareTools` itself, by induction over the sequence of patches: each one leaves a set in which tools
stem from operations and no two share a name, or fails.

*Commands.* Every label says what
must have been asked, sent and answered by then: an exit code can only be judged by
the way that led to it. `BodyAlwaysLayered` follows a body through the sources that are merged into it, in
their order.

*Names.* `NamingInv`: `seen` holds exactly the names assigned so
far; a counter only decides how long the search takes. `BuildInv`: every operation built so far keeps what
is promised of its base name, flags and arguments, attaching waiters leaves them alone, and `NamingInv` holds beside
the walk. An operation is made in one step, so
the work is in the lemmas about operators. Groups and leaves are words, each way they are trimmed, flattened or inferred
from a path (`GroupIsWords`, `GroupedLeafIsWords`), so the name a tool asks for is words within the limit
(`BaseNameFits`), which is all that `NamingInv` asks of it. Among one more number than there are
names taken, one is free (`FirstFreeIsFree`); so names claimed in turn are distinct, by induction over the requests
(`ClaimsAreDistinct`), and each is the name asked for or begins with `body` or `param`, which no reserved flag does. Since
flags are distinct, the flag an argument is routed by belongs to one parameter only (`FlagForReaches`).

*Schemas.* `Effective` and `Merged` recur along compositions, which end, so what holds of a schema when it
holds of its branches holds of every schema (`BranchInduction`); that the two functions solve their defining equations is
itself proved so (`EffectiveIsDefined`, `MergedIsDefined`). A string that a schema declares is among the choices
`effectiveBodySchema` finds for it (`ChoicesSound`). What a body has in a field that the host or an `allOf` branch lists, that
property declares; in one that only branches of unions list, the branch the body is of does, and joining
widens: by induction over the branches, the joined string admits what each of them admits, and null if the first
does (`UnionJoins`). So the merged property declares what the body has there (`MergedTakes`), and what the merged
object requires is there (`MergedRequires`), and what is there the caller may set (`MergedSends`). A conversion accepts what its schema declares if those below it do
(`ConvertAccepts`), and a schema that is cut off keeps its type, so by induction over the levels left, for every set of
schemas visited, all of them do (`ConvertIsFaithful`). `BuildInv` adds where the fields, arguments and results of an
operation come from (`Described`); the two theorems follow for every operation built.

*Project.* `ProjectInv` speaks of the
operations left to do: none that overwrites is for a user's file, nothing
but `go mod tidy` follows the processing of a spec, and once a generation is under way what is in
`cli/generated` and what is left to write make the whole package. The property alone
is not inductive: most of the time the package is not whole.

*Settings.* A tree an invocation is about to write stands for a choice in force while it ran, for
none if it could not read (`blind`), or for what it was asked to make of either, so every write is a step of `ServerChoice` or none. For `OneDeployment` a
resolution fixes server and key together from one profile, and what is sent later is what was resolved. `CollectionShown`
needs one thing of the invocations, that what is shown is shown in a known format; the rest is about the two rounds in
which an envelope's rows are looked for. An empty array is chosen only if the first round found no populated one, or
several; and the second round is not entered beside an array that no table can show.

### What the proofs assume

The assumptions are named where the constants are declared, and TLC evaluates them on every instance.

* The marks for "nothing" are no values: `NoSpecAssumption`, `MarksAssumption` and their like.
* What the constants range over has the shape the code gives it: `ServersAssumption`, `HomesAssumption`,
  `LaunchesAssumption`, `SourcesAssumption`, `GeneratedAssumption`, `SetupsAssumption`, `OperationsAssumption`,
  `ToolListsAssumption`, `GraphAssumption`, `NameOrderAssumption`, `MaxDepthAssumption`. `WorkspacesAssumption` says that
  what the loader returns is a document (`IsDocument`): its parameters are in one of OpenAPI's four places, what it names
  has words, and its contents have a schema of the graph or none. `ProbesAssumption` says that the values tried are
  values: only objects have fields, and no string in them reads `null`, which an enumeration cannot tell from null.
* `CompositionsEnd`: no `allOf`, `oneOf` or `anyOf` leads back to its own schema. `flattenBranch` does not return on one
  that does. Properties and items may lead anywhere.
* `Meaning`, a hypothesis of the two theorems on schemas: `Declares` and `Accepts` are what `DeclaredBy` and `AcceptedBy` say.
  Each occurs in its own meaning unnegated only, so for any graph there is something they can be.
* `UnionsAgree`, a hypothesis of both, and `NullComesFirst` and `DirectionsAgree`, of the second: the branches of a union
  agree where `mergeAllOf` does not join them (see Findings). The instance meets them, with
  unions of choices, of choices and any string, and of nullable choices; TLC evaluates that.
* `SingularsAssumption`: the singular of a word is a word.
* `ReservedAssumption`: no reserved flag begins with the word `body` or `param`
  (`reservedFlagNames` in `cli/flags.go`). A reserved `body-x` would defeat the renaming.
* `ApisAssumption`: no command group is called `root`.
* `ResponsesAssumption`: no response has an empty key. `soleObjectArray` and `tableFooter` take the key `""` for none, so
  an array under it is no rows, or rows without a footer.
* `ConfiguredAssumption`: the configured serialization is not `table` (`serializationOrDefault`).
* `NormalForms`, a hypothesis of `AlwaysShowsCollection`: `Normalized` is what `NormalizedWith` says (`normalizeTableValue`). It
  is a parameter because the code's function is recursive, and a recursive definition cannot be expanded in a proof.
* `NumeralsDiffer`, a hypothesis of `FieldFlagsAlwaysDistinct` and `ArgumentsAlwaysReach`: different numbers are written
  differently. The library leaves open what `ToString` returns.
* `Alone` (profiles: no overlap, no system-wide `config.json`, no failed reads) and `OneProcess` (tokens), hypotheses of the
  theorems that say so. The runs `profiles_overlap`, `profiles_system_config` and the other theorems say what holds without them.

*Only model-checked:* the liveness properties (TLAPS does not treat fairness here). Every safety invariant and action
property of the passing runs is a theorem.

## Not modelled

Listed per component in `PROJECT.json`. In short: the texts of output, redaction and
middleware order, text and date validation, the shorthand grammar, JWT verification and
cross-origin protection, MCP resources and metadata, the MCP SDK (over stdio its `Run` is
taken to return when the context ends), how the browser is opened, data races inside one
library object, and of the generator what it prints: usage texts, examples, descriptions,
bounds and formats of schemas, imports. The token cache is modelled for several processes with a
file between them, not for several calls that share one memory.

## Plan

1. `TokenCache` for calls of one process: a shared copy, one refresh token, two refreshes;
   then composed with `McpServer` and the login: one call's login and the others' fate.
2. `Shorthand`: `Build` and `Get` against a reference definition.
3. Middleware order and what verbose logging masks.
4. Security schemes: how the generator turns them into handlers (`buildAuthInit`).
5. Proofs: what holds of refresh tokens when processes overlap.
