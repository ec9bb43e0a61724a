# Verification of balde

balde is a web framework in C on top of GLib: an application registers views
and hooks, and a SAPI (CGI, FastCGI, SCGI or a small HTTP server) receives
requests, runs the application's main loop for each of them and sends back the
response.  This directory holds TLA+ modules translated from the code under
`src/src`, TLC configurations that check them on small instances, and proofs
for the TLA+ proof system of theorems that hold for every instance.

    tlc -workers 2 -config fcgi_orderly.cfg MCFcgi.tla      # check a run
    tlapm Fcgi_proofs.tla                                   # check the proofs

## 1. The system

| component | code | state | operations |
|---|---|---|---|
| FastCGI service | `sapi/fcgi.c` | per connection: two mutexes, a condition, a table of requests by id, the output stream; per request: id, flags, data, `processed`; a pool of application threads with its queue | read a record, begin a request, append data, dispatch, wait; handle a request and write its response; release |
| SCGI service | `sapi/scgi.c` | per connection: the state of a netstring reader | read the headers byte by byte, read the body, answer |
| HTTP service | `sapi/httpd.c` | per connection: headers, body | read lines, read the body, answer |
| CGI, choice of the SAPI | `sapi/cgi.c`, `sapi.c` | the environment, standard input | one request |
| main loop | `app.c` `balde_app_main_loop` | `app->error`; per call: request, copy of the context, response | startup error, hooks, dispatch, view, render |
| errors | `exceptions.c` | `app->error` | `balde_abort_set_error`, `balde_abort` |
| application context | `app.c` | views, hooks, resources, configuration, user data | add, set, get, free, `url_for` |
| URL routing | `routing.c` | a rule as a regular expression, its arguments and its pieces | parse a rule, match, dispatch |
| sessions | `sessions.c`, `utils.c` | per request: key, storage, life time; in the browser: a signed cookie | open, get, set, delete, save |
| requests | `requests.c` | headers, arguments, form, files, cookies | make, get, free |
| multipart bodies | `multipart.c`, `multipart_parser.c` | parser state, current part | execute, call-backs |
| responses | `responses.c`, `datetime.c` | headers, body, template variables | set, render, ETag |
| static resources | `resources.c` | list of resources | load, answer with one |
| template engine | `template/*` | blocks, count of open `if`s, state of the generator | parse, generate, list dependencies |
| quickstart generator | `quickstart/*` | none | copy a project |

**How they interact.**  A SAPI calls `balde_app_main_loop` with the parsed
environment and a render function.  FastCGI, SCGI and HTTP do so from several
threads over one `balde_app_t`: the threads share `app->error`, the
configuration, the views, the hooks and the user data.  A view gets a copy of
the context whose `error` is private; a hook gets the shared one.  In FastCGI
a server thread reads records and a pool thread answers; they share the
connection, its table and the request.

**What is hard.**  The hand-over of a request from the server thread to the
pool and of memory back from it; several responses on one stream; the reuse of
ids; a web server that closes, aborts or breaks the protocol; a wait on a
condition; an error field shared by all threads; parsers that read a stream
that may end; the life of a session across requests.  `PROJECT.json` lists
each such hazard at its line.

**What makes each component correct.**

* FastCGI: responses are contiguous and whole; a request is answered once, on
  its id, with the data sent for it; a thread uses only memory that is alive;
  the connection closes only for a reason the web server knows; whoever waits
  is woken up.
* Main loop: a request is answered with its own outcome; an error of one
  request never reaches another; a hook that aborts guards the view; a startup
  error is for ever; everything is freed on every way out.
* Application context: user data is destroyed once; a value that was read stays
  readable; what a view sees does not change under it.
* Routing: the first rule that matches wins; `url_for` and dispatch are inverse
  where they should be.
* Sessions: what a request stored is what the next one reads; a cookie that was
  tampered with or is too old reads as no session.
* Parsers (PARAMS, netstring, HTTP lines, multipart): they accept what was
  encoded, give back the same data, and end.
* Templates: the generated code has balanced blocks; the order is the source's.

## 2. Plan

The most important behaviour first; all of it is there.

1. `Fcgi`, with `FcgiService` as what it promises; proofs in `Fcgi_proofs`, about any
   web server and about one that follows the protocol.
2. `AppMainLoop`; proofs in `AppMainLoop_proofs`.
3. `Session`, over an abstract session store (`SessionStore`), refined by the signed
   cookie; proofs in `Session_proofs`.
4. `AppContext`: user data and configuration under threads; proofs in
   `AppContext_proofs`.
5. `Streams`: the readers of the four services, over a stream that may end; proofs in
   `Streams_proofs`.
6. `Multipart`: the parser, byte by byte, against the text it read; proofs in
   `Multipart_proofs`.
7. `WebText`, `Routing` and `Site`: texts that are encoded and decoded, rules,
   dispatch and `url_for`, and a browser and a web server around them; proofs in
   `Site_proofs`.
8. `Template`: blocks, includes, the state kept between files, and the function that
   is generated; proofs in `Template_proofs`.

What could come next: proofs about what `url_for` and templates give (`LinksLeadBack`,
`TextExact`), with induction over their length, as `Streams_proofs` does it for PARAMS
and `Site_proofs` for forms and cookies.

## 3. The modules

### Fcgi: one FastCGI connection

State: the web server's side (`wire`, `hungup`, and what it sent for each
transaction), the server thread (`pc`, `record`, `request`), the connection
(`mutex`, `requests`, `out`), the request structures (`life`, `rid`, `keep`,
`size`, `processed`), the pool (`queue`, and per thread `wpc`, `task`,
`left`).

* A request structure is a value of `Req`, used for one allocation, so that a
  dangling pointer is visible as such.
* The server thread is `balde_incoming_callback`: one action reads a record and
  looks its id up under the mutex (`ReadRecord`); the pointer it found is used
  by the next action, `DropUnexpected` to `IgnoreData`, one per case of the
  switch.  `Dispatch` pushes the request and either forgets it or goes to the
  wait loop (`Wait`, `SpuriousWakeup`).  `Cleanup`, `HackCond`, `HackMutex` are
  the end of the function.
* A pool thread is `balde_handle_request`: `TakeTask` (parse, main loop),
  `Lock`, one `Write` per record, `Remove` (the table frees the request) and
  `Signal` (under the other mutex).  The write is one call in the code; the
  model lets the web server see each record as it goes out.
* `mutex` is a variable, as a pool thread holds it over several steps; the
  sections of `mutex_cond` are single steps.
* Undefined behaviour goes to `fault`: the thread then goes on as if the memory
  were still there, which is the mildest thing the build can do, and with
  `Recycle` the field `processed` of freed memory may take any value.  A NULL
  dereference ends the process.  A pool thread that goes for a mutex of a
  released connection stops there.
* The web server is external.  `Moves` says what it may do: follow the protocol
  with and without `FCGI_KEEP_CONN`, hang up at any time, send management
  records, abort, or send any record at all (`stray`).

`FcgiService` is what a connection promises an orderly web server.  The
refinement mapping computes the status of a transaction from the table of
requests, the requests pushed and the records written.

### AppMainLoop: the main loop run by several threads

State: `appError` (the shared field), and per thread where it is in
`balde_app_main_loop`, its request, its hook, the error of its copy.  An error
is named by who raised it and where, so that an answer made from another
request's error is visible.  `held` is what was allocated for a request.  Each
access to `app->error` is a step: `balde_abort_set_error` is `TestError` and
`PropagateError`, `g_clear_error` is `FreeError` and `ForgetError`.  Hooks,
views and the parsing in the SAPI are external: they may raise errors as the
API allows.

### Session and SessionStore: the session of one browser

`SessionStore` is what the session functions promise the views that serve one
browser, as if the session were kept on the server: a request sees the session
it was sent with, a view works on a copy, the last answer that reaches the
browser decides, and what was saved is kept for the life time and no longer.
Two requests served at the same time may thus lose one another's changes; they
never mix them.

`Session` is the code: the table of a request (`storage`, which may be NULL, or
empty, two cases the cookie tells apart and the promise does not), the text it
is serialized to, the signature, the time stamp, the `Set-Cookie` of the answer
(`answer`), and the browser's cookie (`jar`).  One action per function: `Open`,
`Set`, `Delete`, `Save`; `Get` changes nothing.  `Raise` is an error of the
view, whose response is then made from the error and has no cookie (`Reply`).
The browser (`Arrive`, `Evict`, `Stored`), the clock and the restart of the
server are external.  The life time is an integer that is checked as a `guint`
and told to the browser as a `gint`; `Wrap` is the number of values of an
`int`.  A signature is the secret it was made with, and a text is the sequence
of its strings, in any order of the keys.

A view makes no call on a session it has saved: `balde_session_save` frees it
and leaves the request with the pointer (`sessions.c:279`), so that any further
call uses freed memory.  That is the caller's duty in the model.

The refinement mapping gives the cookie its meaning: no session if it is
missing, unreadable, signed with another secret or empty; else its table, until
its time stamp plus the life time.

### Multipart: the body of a form

One step of `Multipart` reads one byte, as one turn of the loop of
`multipart_parser_execute` does, with the callbacks of `multipart.c`.  Where
the code goes back one byte, the step reads the byte in the second state too.
The actions follow the states: `StartBoundary`, `HeaderField`,
`HeaderLineFeed`, `HeaderValue`, `Data`, `AlmostBoundary`, `DataBoundary`,
`AfterBoundary`.  `Call` comes before: with no boundary nothing is read, of an empty
body there is nothing to read, and with no body at all a NULL pointer is read.
`mark` and `lookbehind` are the code's; `form` and `files` are
the tables; `origin`, `given` and `parts` are history.  The names and the
options of a header are letters.

### Streams: the readers of the four services

SCGI and HTTP read one request from a connection, straight from the socket, and
share the loop that reads the body (it stands twice in the source).  The state is
the stream with what ends it (`ending`: in order, or a read that fails), the
position, and the local variables of the two functions under their names.  SCGI
takes one byte per step (`ReadLength`, `ReadKey`, `ReadValue`, `ReadComma`), HTTP
one line (`RequestLine`, `HeaderLine`); `ReadBody` is one turn of the loop of the
body, which gets any number of bytes that are there, none at the end of the
stream, or -1; `Finish` makes the request.  `pc` is the state of the reader, or
what became of it.  `fault` has the undefined things done: a line read after it
was freed (`FreedLine` gives what may then happen), a read past the end of a
vector of pieces, and the body after a read that failed.  GLib is external.

Lines and variables are used as C strings, and the model has them so (`CString`): a
line of a head ends before its first NUL, so that `X<NUL>:` has no colon and a line that
begins with a NUL ends the head, and `"%.*s"` copies a name or a value of PARAMS up to
its first NUL, while the position goes on by its length.  (SCGI splits at the NULs.)
`Number` is `g_ascii_strtoull`: blanks and a sign may stand in front, a negative
number is taken from `Wrap`, 2^64 in the code, and a larger one is the largest.

FastCGI makes a request of what `Fcgi` has gathered for it: `ReadPair` is one turn of
the loop over the data of PARAMS, whose lengths take one byte or four and are
compared with nothing (a pair that goes past the data is the fault
`past_params`), `MakeRequest` takes the fields and as much of STDIN as the length
says.  CGI has the environment (`ReadEnviron`) and reads the standard input byte by
byte (`ReadStdin`).

`VariablesOf`, `HeadersSent`, `Encoded` and `HeadersMeant` say what a stream means, with
no state of a reader; a reader is compared with them.

### AppContext: the application context under threads

State: user data, destroy function, configuration, the two locks, how many rules
and hooks there are, and per thread what it runs (a hook, on the context, or a
view, on a copy), where it is in a call, and the pointers the getters gave it.
The calls that take a lock are steps of their own: `balde_app_set_user_data` is
`SetUserData`, `TestUserData` (with no lock), `DestroyUserData` and
`ForgetUserData` (under it), `StoreUserData` (under it again); `balde_app_set_config`
is `SetConfig` and `ReplaceConfig`.  The getters take no lock.  A value of the
configuration is named by its memory.  What a copy may not do ends the process
(`ReadOnly`).  `given`, `destroyed`, `freedCells`, `setters` and `reconfigured`
are history.

### WebText, Routing and Site: links, forms, cookies and entity tags

`WebText` has the conversions as operators on sequences of characters: escape and
unescape of a URL, query strings, the text of a cookie and its parser.  `Routing`
has a rule as the texts around its variables, the ways a path can match it
(`Matches`, of which the regular expression takes the `Preferred` one),
`Dispatch`, `ViewOf` and `UrlFor`; `UrlFor` is given the pieces as
`balde_parse_url_rule` leaves them, escaped for the regular expression.

`Site` puts a browser and a web server (external) around them.  The web server
decodes the path and splits it at its mount point, or gives all of it as
SCRIPT_NAME, or is httpd and decodes nothing (`deployment`).  The browser follows
a link a page made with `url_for`, reloads what it has with `If-None-Match`, opens
bookmarks, and sends a form with its cookie.  `Handle` is the main loop from
the dispatch to the answer, for pages with weak or strong tags set before or after
the comparison, and for static resources.  Meanwhile the content changes
(`Publish`), a hook registers rules (`Register`) and the server starts again with
other resources (`Restart`).  A rule that is refused is left out and sets
`error`: at the start the application answers every request with it, in a hook only
the request whose hook it was (`HandleError`).  MD5 is the identity.

### Template: the template generator

A file is a sequence of items, what the grammar can read: texts, tags with or
without a `-` on each side, prints, and text that fits no rule.  `ParseText`,
`ParseTag`, `ParsePrint`, `ParseWrong` and `ParseEnd` are the actions of the grammar
with the parser's global state (`ifCount`, `cleanNext`, `buffer`).  A line that fits no
rule is an error at its end; one that has no end stays in `buffer` and is read before
the next file, whose first piece may make a tag of it (`ParseRest`); if not, both are
wrong together.  `leftover` is history: a line was left once.
`BuildImport`, `BuildInclude`, `BuildStatement` and `BuildReturn` are
`balde_template_build_state`, which calls itself for an include (`stack`).  `Run` is
the generated function, given the variables that are set.  `Meaning` says what a
template means without a parser, from how `if` and `endif` balance.

## 4. What each run checks

| run | question |
|---|---|
| `fcgi_orderly` | an orderly web server that may hang up: ownership, matching of answers, reasons to close, and the refinement of the service |
| `fcgi_service` | with fair threads: every submitted request is answered, connections close, no wake-up is lost |
| `fcgi_disorderly` | any web server: responses stay whole |
| `fcgi_release` | expected to fail: the connection is released under a pool thread |
| `mainloop` | three threads, hooks that raise errors, inputs that cannot be parsed, an application that may be set up with an error: own answers, startup errors for ever, everything freed but what a hook's error leaves |
| `mainloop_hook_race` | expected to fail: two threads, one clears the other's error |
| `session_store` | two requests of a browser, in any order, with errors, restarts, bad cookies and a clock: the cookie implements the store |
| `multipart` | bodies that end anywhere and look like a delimiter where there is none: the tables have the bytes of the parts |
| `streams` | netstrings, heads, PARAMS and environments, whole, wrong or cut at any byte: a request is what was sent, a whole one is never turned down, the reader ends |
| `app_context` | two threads call all the application may call: data destroyed once and not lost, pointers valid |
| `site` | links lead back, rules added later take nothing away, the browser shows no stale page, forms and cookies arrive |
| `template` | the generated function prints what the template means, wrong templates are refused, dependencies are complete |

**Conditions.**  Some properties hold under a condition that the property itself
names, since the code does not keep them without.  `OwnAnswer` and `Released`: no
hook and no SAPI writes the shared error, or one thread serves at a time
(`mainloop_hook_race` shows what happens else).  `OneThreadGuardsViews`: the latter.
`NothingLost` and the second part of `DestroyedOnce`: one thread at most sets user
data while the site is served.  `PointersValid`: nobody does, and no hook changes the
configuration.  `LinksLeadBack`: links that are `Honest`, that is, rules whose
variables are separated by a `/` and whose texts have no character the expression
escapes (`url_for` works on the escaped pieces, so that a `.` of a rule becomes
`%5C.`), known converters, arguments with no `+` or `%` where the web server
decodes the path (balde decodes it again), texts a browser need not encode behind
httpd (which matches the path as it stands), and no earlier rule that takes the
path.  `TextExact`: blank for blank only where each `-` stands at a text of
its file (one that does not cleans a text further off, even of the next file).
`TextExact`, `SyntaxChecked` (that what is wrong is reported) and `DependenciesComplete`
except after a last line that fits no rule and has no end: the parser keeps it with no
error and may drop it, or make a tag of it and what the next file begins with.
`FreshPages` except a page that is empty by now: a page that is compared before its
tag is set is answered, when it is unchanged, with the tag of the empty body of the 304
(`responses.c:251-276`); the browser keeps this tag, and when the page is empty one
day it matches, so that the browser goes on showing the page it has.  (Without the
exception TLC finds this in a few steps.)  `HttpExact`: nothing undefined was done,
that is, no line with no colon was read.  `ScgiExact` and `EnvExact`: neither was a
failed read, nor the past of PARAMS.  `ReaderEnds`: the body is not cut short.

**Bounds.**  `fcgi_orderly`: three transactions on two ids, so that an id is
used again while the other is in flight; two pool threads, so that two
responses compete for the stream; two records on the wire, one data record and
one STDOUT record with data each, so that a response has three records.
`fcgi_service`: two transactions, as temporal checking needs the whole graph
and no symmetry.  `fcgi_disorderly`: one id, two structures, no data; at most
two records of answers when the web server still sends an end of body.  The
sets of model values are symmetric in the safety runs.  `mainloop`: two
hooks, so that there is a first and a next one; three threads with a request each.
`session_store`: two keys, so that a session has several items and two orders;
a life time of two seconds and a clock of three, so that a session expires; one
restart with another secret.  `multipart`: two delimiters of three bytes, so
that there is a next part; three chunks of data, single bytes or the beginning
of a delimiter, so that a likeness may be cut by a second one and by the real
delimiter; seven kinds of header lines.  `streams`: up to three variables or lines,
so that a name may be given twice around another one, bodies longer than the buffer,
which has two bytes, lines with a NUL in the value, before the colon and in front,
lengths with a sign and, as `Wrap` is 32, numbers that wrap and that are too large;
texts of 127, 128 and 300 bytes in PARAMS, so that both forms of a length are needed
and a wide one has two bytes that are not zero.  `app_context`: two threads, two data, two cells, so that one may
replace what another uses; two rules or hooks, so that there is one hook.  `site`:
one rule of every kind (plain, path, glued variables, an escaped character, an
unknown converter, one refused), an application that is set up with an error, a
hook whose rule is refused, contents of which one is empty, links with every character that is special to
one of the decoders, one link, one cached page and one cookie in the browser.
`template`: up to three phrases, so that a block may be opened, include a file
and be closed, or a print be begun behind an include and finished by it; includes two deep, so that a directory is taken twice.

**Deadlock** is checked in the runs of `Fcgi`, `AppMainLoop`, `AppContext` and `Site`:
the first three have an action (`Terminated`, `Over`) for the states in which
nothing is left to do, or the process has ended; a site always goes on.  `Session`,
`Multipart`, `Streams` and `Template` stop when the bounds are used up or the body,
the request or the template has ended, and their runs do not check it.

**Fairness.**  `FairSpec` asks that the server thread and each pool thread take
a step when they can for ever: they are operating system threads, the mutexes
are held for bounded sections, and a pool thread exists for as long as the pool
(`balde_sapi_fcgi_run` never frees it before the main loop ends).  Nothing is
asked of the web server, of spurious wake-ups or of the allocator.  Weak
fairness is enough since no two threads take a mutex from each other for ever
on one connection.  With `Recycle` the liveness properties fail: the wait loop
reads `request->processed` after the table freed the request, so that an
allocator that overwrites it with zero makes the server thread wait for ever.
The liveness run therefore has `Recycle = FALSE`, which is a limit of what it
shows.

`Streams` has weak fairness of its only thread: all the bytes there will be are in
the stream, so that no read waits.  (A peer that sends nothing and does not close
keeps a thread for as long as it likes: the sockets have no timeout.)
`ReaderEnds` then holds except for a body that is cut short, where the loop
reads nothing for ever, and for a freed line, of which nothing can be said.

## 5. What is proved

`Fcgi_proofs`: `IInv`, the conjunction of `TypeOK`, `WriterInv` and `Framed`, is
inductive for every choice of the constants, whatever the web server does.
`Framed` alone is not: it needs that only the owner of the mutex writes, that
it has as many records left as the last one calls for, and that it keeps the
mutex until the response is whole (`WriterInv`).  From it: `TypeCorrect`,
`ResponsesFramed`, `ResponsesNotCutShort`.  The only assumption is
`ConstantsAssumption`.

There, too: what is checked with an orderly web server, for any number of
requests, ids and pool threads, under the assumption `Orderly` (its moves are to keep
the connection or not, and to hang up).  `OrderInv` is inductive with `IInv`
(`OrderInvariant`), and none of its four parts is alone.  `WireInv`: a record that is on
its way, or in the hand of the server thread, belongs to the transaction last begun on
its id, which the pool does not have yet, and on each id BEGIN comes first and the end of
the body last.  `IdInv`: once BEGIN was handled, and while the thread reads, the table has
the request of that transaction, until a pool thread is about to take it out; the id
may be begun again by then, and the thread cannot look it up before, as the mutex is
taken (this is where `WriterInv` is needed).  `ServerInv`: what the server thread holds
in each of its places.  `PoolInv`: a request is in the table, alive, and in one place of
the pool until it is taken out, and is taken out only after its END_REQUEST.  From them:
`PoolOwns`, `FewFaultsOnly`, `AnswersToTheRight` (with `AnswerInv`), `ClosedWithReason`,
and the refinement: a step changes the status of one request, or is `Quiet` (`Steps`), and
each of these steps is one of `FcgiService` (`ConnectionIsAService`).

The last one is `RequestsComplete`.  What was sent for a transaction is what its
request holds, what the record in hand adds, and the number of records with data on the
wire for its id (`DataInv`); by `WireInv` there are none when the body ends.

`AppMainLoop_proofs`: all the invariants that are
checked of the main loop, for any number of threads, requests and hooks.  As long as no
hook and no SAPI has written the shared error (`Calm`), `QuietInv` holds for any number
of threads.  A state that is calm was calm all along, as a verdict is never taken back
(`CalmBefore`), so that the invariant is `Calm => QuietInv` with what else it takes to
be inductive (`Inv`).  Once the error is written, what remains true for any number
of threads is that somebody is on the way to clear it (`SharedInv`): from there,
the first part of `ErrorsAreUsedWell`.  While one thread serves (`Alone`, which was so
all along, too: `AloneBefore`), the error is that of the request it serves
(`AloneInv`; `Serves` says it place by place), and this thread finds no error of
an earlier request when it takes the next one, by `SharedInv`, as nobody is left to
clear one.  From `Inv`, `SharedInv` and `AloneInv` together (`LoopInvariant`):
`AnswersAreOwn`, `NothingLeaks`, `ViewsAreGuarded`, `ErrorsAreUsedWell`, `TypeCorrect`.
`StartupErrorIsForEver` has an invariant of its own: `StartInv` also says that a
thread that raises an error under a startup error does so before the hooks, and
`ToldInv` that the startup error is in no place but the shared context, and that it is
still there when a request was answered with it.  The
only assumption is `ConstantsAssumption`.

`Session_proofs`: `SessionIsAStore`, the refinement of `SessionStore`, for any
number of requests, keys and values, any life time that is not a multiple of
`Wrap`, and any width of an `int`.  The argument: `RoundTrip` (a table comes
back from its text whatever the order of the keys), `LifetimeFacts` (if the
browser is told a date at all, it is the one the server checks), and the
inductive `SessionInv`: a signed cookie holds a table and was made in the past
with a secret the server has or had; an answer with a cookie is that of a saved
session, under the present secret; the browser keeps a cookie at least as long
as the server accepts it (`KeptLongEnough`).  The last part is what makes an
eviction by the browser invisible.  Also `CookiesLastLongEnough`, `BadCookiesGo`
and `TypeCorrect`, which follows step by step from `SessionInv`.  The assumptions are `SessionAssumption` (finitely many keys,
numeric bounds) and `NullAssumption` (the two model values are not data).

`AppContext_proofs`: `DataDestroyedOnce`, `NoDatumLost`, `PointersStayValid` and
`TypeCorrect` for any number of threads, data, parameters and values.  The
argument: a datum is in one place (`DataInv`): about to be set by one thread, the
user data, or destroyed, and the user data is a destroyed one only under the
lock; this is why a test without a lock destroys nothing twice.  Each parameter has
memory of its own, that is not freed (`ConfigInv`).  Until somebody sets user data
while the site is served, no thread is in a call that does and no pointer is stale
(`DatumValid`, `CellValid`).  And if one thread at most does, it is alone in its
calls (`CallInv`, `OneCall`): what it replaces is nothing (`LossInv`) and what it
destroys is something (`NullInv`).  The only assumption is `ConstantsAssumption`.

`Multipart_proofs`: `DataIsExact`, `HeadersAreOwn` and `TablesAreExact`, for any
boundary, any bytes, any body and any number of parts.  The inductive invariant
(`Invariant`) says state by state what the parser knows: what it holds back (the bytes
from `mark`, and those that `lookbehind` stands for) is what was read last, and it is a
beginning of the delimiter; and it is the only end of what was read that may become
one.  The latter is the heart of it, as the code never looks back further when a byte
does not fit: a delimiter has a CR as its first byte and nowhere else
(`BoundaryAssumption`), so that no beginning of a delimiter begins inside another.  The
tables are related to the parts one by one: a table changes when a part ends, at the
name the headers of this part gave.  `Byte` is the set of bytes, and a body is
made of them (`BodyAssumption`).

`Site_proofs`: `PagesAreFresh` and `RoutesStay`, for any rules, pages, resources and
links.  `FreshPages` is not inductive: `TagsAreTrue` adds that the browser's copy has
a tag of its own body or that of an empty one, that a request asks with the tag of the
copy, and that an answer is the truth or finds it in the browser, or is a 304 of an
empty page (`Unsure`).  A tag tells what it is the tag of
(`TagsTell`), except that of an empty body, which the functions that answer 304
make when the tag is set after the comparison; it matches only a page that is empty
by then, which is the exception `FreshPages` names.  Of the contents nothing is
assumed.  `RoutesStay`: the views are a sequence to which a hook appends
(`RoutesInv`), and the least of the rules that match stays the least
(`DispatchStays`).  The other assumptions say what the constants are
(`NullAssumption`, `RulesAssumption`).

And `InputsAreSame`: `InputsArrive`, for any forms, any cookies and texts of any length.
The invariant (`InputsInv`) is short: the request has a form of the browser's, the jar has
what is kept of the cookie that was told last (`JarInv`), and a view was given what the
parsers make of both (`FormGiven`, `CookieGiven`).  What the parsers make of them is the
work.  `FlattenSeq`, `FoldLeft` and `Split` are folds: there is the function that each
chooses (`FoldExists`, `SplitRuns`), and it goes from one index to the next, by induction
on sets of numbers (`LeastNat`, `Induct`).  A word with no separator grows the last piece and a
separator begins one (`RunsOn`, `RunsPast`), an encoded value has no separator
(`EncodedValue`) and decodes to what it was (`Decoded`), so that a form of n + 1 pairs is
split into the pieces of n and one more (`NextSplits`), and each pair replaces that of its
key (`LastReplaces`).  A cookie is cut at the first `;`, which is that behind the closing
quote if the value has none (`CookieIsCut`), and loses its own quotes and nothing else
(`QuotesComeOff`).  `InputsAssumption`: texts are sequences of characters, none of which is an
escaped one, and the name of a cookie is a token: `balde_response_set_cookie` writes the
name as it is, so that a `=`, a `;` or a blank in it would be taken for the end of it or be
stripped.  `NullIsNoAnswer` is a hypothesis of the theorem, since TLC cannot go through all
answers: no answer is the value that stands for a NULL pointer.

`Template_proofs`: `ErrorsAreReported` and `DependenciesAreListed`, for any files,
however they include each other.  `GeneratorInv`: in each file that is open, `ifCount`
is the balance of what was read, which was never negative, and what follows is
still to be read; what was left in the buffer once (`BufferInv`) is of a file that is
wrong; until then every file that was closed is well formed.  `DependInv`: whatever a file that was read
includes was read, too, or waits in a block that is still to be built, or in an item
that is still to be parsed; no other file was read.  At the end nothing waits, so that
the files that were read are closed under includes, and `Reached`, which adds the includes
of what it has as many times as there are files, is the least such set: it grows
until it stands still, and cannot grow more often than there are files
(`ReachedIsLeast`).  `Reached` is a function defined over `Nat`; that there is
such a function, and what it is, is shown by induction on the set of numbers for which
it holds (`LeastNat`, `Induct`).  `SourcesAssumption`: the files are finitely
many, the main one is among them, each is a sequence of items, and the pieces of a tag
are of a tag.

`Streams_proofs`: `ScgiIsExact` and `HttpIsExact`, for any bytes a peer sends, cut short
at any byte and ended in order or not, and any size of the buffer.  The invariants
(`ScgiOK`, `HttpOK`) say where in the text each state of the reader is, with the
operators that say what a stream means: behind the last NUL, which is even in a name
and odd in a value (`InName`, `InValue`); behind a line end, with the end of the head
still to come (`HeadRead`).  The table has what was read so far, of each name the last
(`LastOnes`, `PutLast`).  The heart of it is which variables end with the next byte: none
in a name, one in a value (`NoneInName`, `OneInValue`); by counting NULs, as the
reader does not.  A reader of SCGI that went past the end of the stream gets NUL bytes for
ever: nothing is known of what it holds, but it finds no comma, and this is what the
invariant says.  A stream is at most one netstring (`OneNetstring`), as a colon is not a
digit.  The body is the piece of the stream behind the head, whatever the sizes of the
reads (`BodyGoes`).  That a length is a number rests on an induction over its digits
(`Decimals`, `DecimalsNat`).

There, too: `EnvIsExact`, for any variables, in either form of the lengths, and PARAMS
cut short at any byte.  `Encoded` is a fold of a fold: that the function it is
defined by exists, and that the text of n + 1 variables is that of n and one more, is
shown by induction on sets of numbers (`Joins`, `FirstOnesBegin`), and the folds that
give a length its value are unfolded as far as they go, which is four bytes.  One turn of
the loop reads the next variable if all of it is there (`PairReads`); if not, the request
is turned down or the past of the data is read, and then the data is no sequence of whole
variables (`NotWholePairs`), as the texts of 0, 1, 2, ... variables get longer and
longer (`PairTurn`).  What the code keeps of the variables is what they mean, the
last of a name (`GivenLast`, `HeadersAreMeant`, `FieldIsMeant`).  In CGI `Filtered`
chooses one of the variables that make the same header, and there is only one.

And `WholeRequestsAreParsed`: the other direction.  A netstring that is whole is known
from its first byte: the reader of the digits is before the colon, that of the variables
is not behind the comma, and finds it there (`ScgiGoes`); of a whole head the next line
is a header with a colon, or the empty line (`NextOfHead`), so that nothing is freed
(`HttpGoes`); and of a body that is all there each read gives some
(`BodyIsThere`).  These invariants need those of exactness: what the reader takes
for the length of the body is the one that was sent.

The theorems are of the lines and variables as functions of strings see them:
a head is compared with what stands before the first NUL of each line, and ends with a
line that is empty for them (`StringIs`); a variable of PARAMS is compared with
`Plain`, its name and value up to their first NUL.  A length of PARAMS is one byte up to
127 and four above, and both are read back as what they count (`FourOctets`, `LengthReads`).

`StreamsAssumption`: what is sent is a sequence, and the buffer has a size.
`NumbersAssumption`: `Octets` names the 256 bytes, each by a name of its own, and
`Wrap` is a positive number.
`VariablesAssumption`: the variables are texts of any bytes and any length; in FastCGI
PARAMS is what encodes them, and has no more bytes than a `gint` counts (`MaxInt`), as
the code counts them with one; in the environment there is a name once, whatever its
case.

Only model-checked: `LinksLeadBack` and `TextExact`, which rest on what
the matching of expressions and the clean-up of a template's text compute; and all liveness properties (temporal reasoning under fairness and ENABLED are
out of the prover's reach).

## 6. What is not modelled

The quickstart generator, which copies files once; the choice of the SAPI (the
first one that is supported); command lines, logs and sockets.

In the FastCGI connection: the padding of records, a record cut short by the end of
the stream, write errors (the code ignores them), several connections (they
share the pool and the application only, and a busy pool is a slow one), the limit
of the pool's threads.  In the main loop: what is rendered; routing, views and
hooks are choices there.  In the sessions: base64, the quotes of the cookie, its
domain and path, a cookie too large for a browser.  In the multipart parser: the
boundary's extraction from the header, memory.  In the readers: a netstring whose
length is larger than memory (the reader then takes the NUL bytes of the end of the
stream until memory ends), lengths of PARAMS whose sum is more than a `gint` holds,
variables of the environment whose names differ by case only.  In the requests: authorization.  In the responses: headers, dates,
the length of a body.  In the routing: the engine of regular expressions (a
rule is the set of ways to match it), endpoints that are registered twice.  In
the templates: the arguments of calls, the header file, the escapes of C.

Things met while reading that no run shows, all of them steps of the models: a
stream that ends in the head of an HTTP request ends the process (`httpd.c:60`), as
does a netstring with neither `PATH_INFO` nor `REQUEST_URI` (`scgi.c:202`); a
header line with no colon, or none before a NUL, which the comment there says is
ignored, is freed and read again (`httpd.c:62-64`); a negative `Content-Length` is one
of nearly 2^64 (`httpd.c:76`), so that the loop of the body goes on for ever; a form
with no body is a NULL body, whose length is read (`multipart.c:179`); a failed read puts bytes into the body that nobody
sent (`scgi.c:187`); a FastCGI role that is not supported (`fcgi.c:504`) and an
input that cannot be parsed (`app.c:387`) end the process by a NULL dereference; an
abort, or a second BEGIN, of a request in flight frees it under the pool thread
(`fcgi.c:567`); a hook that aborts leaks the request (`app.c:400-408`).
