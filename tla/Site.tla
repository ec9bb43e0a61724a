-------------------------------- MODULE Site --------------------------------
(***************************************************************************)
(* A site built with balde, its web server and a browser: rules are        *)
(* dispatched and links are made (Routing), static resources and pages are *)
(* answered with entity tags (src/src/responses.c, src/src/resources.c),   *)
(* forms and cookies come back (src/src/requests.c).                       *)
(*                                                                         *)
(* The browser, the web server and the views are external.  A page shows   *)
(* the content of the site and calls the functions for entity tags when it *)
(* is ready, as balde.h asks for, in either order, or, to bound the model, *)
(* has a link to some view and no tag, or takes a form and sets a cookie.  *)
(* One thread handles one request at a time, after the hooks: what threads *)
(* share is in AppMainLoop and AppContext.                                 *)
(***************************************************************************)
EXTENDS Routing

CONSTANTS
    Applications,   \* what an application may register at the start
    LateRules,      \* what a hook registers later, in this order
    Targets,        \* <<endpoint, arguments>> that pages link to
    Bookmarks,      \* URLs the browser may ask for with no link
    Contents,       \* bodies of pages
    Bundles,        \* contents of static resources
    Files,          \* names of static resources, behind /static/
    Forms,          \* what the browser may send: sequences of <<key, value>>
    Cookies,        \* <<name, value>> a page may set
    Mount,          \* the path a web server passes on to the application
    Null

Static == [endpoint |-> "static", methods |-> {"GET"},
           texts |-> << <<"/", "s", "/">>, <<>> >>,
           vars |-> << [conv |-> "path", name |-> "file"] >>]

\* Entity tags: of a page, of a page without its body, of a static resource.
Etag == [weak : BOOLEAN,
         tag : {<<body>> : body \in Contents \cup {""}} \cup (Files \X Bundles)]
ASSUME NullAssumption == Null \notin Etag
ASSUME RulesAssumption == \A rules \in Applications : rules \in Seq(ToSet(rules))

\* A text the browser sends is of characters, none of which is an escaped one.  The name
\* of a cookie is a token.  (All characters are strings; those that are listed are the ones
\* the proofs have to know of.)
Codes == {Escaped[c] : c \in DOMAIN Escaped}
Characters == STRING \cup DOMAIN Escaped \cup Codes
                 \cup {"Expires", "Max-Age", "n", "Path", "/"}
IsText(t) == t \in Seq(Characters) /\ ToSet(t) \cap Codes = {}
ASSUME InputsAssumption ==
    /\ Null \notin Seq(Characters)
    /\ \A f \in Forms : /\ f \in Seq(ToSet(f))
                        /\ \A p \in ToSet(f) : p = <<p[1], p[2]>> /\ IsText(p[1]) /\ IsText(p[2])
    /\ \A c \in Cookies : /\ c = <<c[1], c[2]>> /\ IsText(c[1]) /\ IsText(c[2])
                          /\ ToSet(c[1]) \cap {"=", ";", " "} = {}

VARIABLES
    deployment,     \* how requests arrive: "httpd", "split" or "whole"
    application,    \* what this application registers at the start
    error,          \* app->error: "none", or set at the "startup" or by a "hook"
    views,          \* app->priv->views
    late,           \* how many of LateRules were registered
    content,        \* what pages show by now
    bundle,         \* the content of the static resources that were loaded
    link,           \* the link of the page in the browser, or Null
    cache,          \* the page in the browser: [url, etag, body], or Null
    shown,          \* what it shows and what was the truth, or Null
    jar,            \* the cookie in the browser: its text, or Null
    told,           \* history: the cookie that was set last, or Null
    request, answer,
    handled         \* history: what became of the request, or Null

server  == <<deployment, application, error, views, late, content, bundle>>
browser == <<link, cache, shown, jar, told>>
vars == <<server, browser, request, answer, handled>>

-----------------------------------------------------------------------------
(* The web server (external) and balde_make_request.                       *)

\* httpd takes the target as it is, the others decode it; some web servers
\* have the whole path in SCRIPT_NAME and no PATH_INFO.
Env(url) ==
    LET path == Unescape(url, Null) IN
    IF deployment = "httpd" THEN [scriptName |-> Null, pathInfo |-> url]
    ELSE IF deployment = "whole" THEN [scriptName |-> path, pathInfo |-> Null]
    ELSE [scriptName |-> Mount,
          pathInfo |-> SubSeq(path, Len(Mount) + 1, Len(path))]

Arrives(url) ==
    deployment = "httpd" \/ /\ Unescape(url, Null) # Null
                            /\ deployment = "split" => IsPrefix(Mount, url)

\* Mutant: the script name is kept when it was the path.
MakeRequestKeeping(env) ==
    IF env.pathInfo = Null /\ env.scriptName # Null
    THEN [path |-> env.scriptName, scriptName |-> env.scriptName]
    ELSE [path |-> env.pathInfo, scriptName |-> env.scriptName]

\* balde_make_request: path and script_name.
MakeRequest(env) ==
    IF env.pathInfo = Null /\ env.scriptName # Null
    THEN [path |-> env.scriptName, scriptName |-> Null]
    ELSE [path |-> env.pathInfo, scriptName |-> env.scriptName]

-----------------------------------------------------------------------------
(* Responses.  MD5 is the identity: the hash of a body is the body.        *)

\* balde_make_response
MakeResponse(body) == [status |-> 200, etag |-> Null, allow |-> <<>>, body |-> body]

\* balde_abort, rendered by the main loop
Abort(code) == [MakeResponse("error") EXCEPT !.status = code]

GenerateEtag(response, weak) == [weak |-> weak, tag |-> <<response.body>>]

\* balde_response_set_etag_header: a tag that was set is not overridden.
SetEtag(response, weak) ==
    IF response.etag # Null THEN response
    ELSE [response EXCEPT !.etag = GenerateEtag(response, weak)]

\* Mutant: any tag of the right strength matches.
EtagMatchingAny(ifNoneMatch, response) ==
    IF ifNoneMatch = Null THEN response
    ELSE [response EXCEPT !.status = 304, !.body = ""]

\* balde_response_etag_matching: the tag is made anew, as weak as the one sent.
EtagMatching(ifNoneMatch, response) ==
    IF ifNoneMatch # Null /\ ifNoneMatch = GenerateEtag(response, ifNoneMatch.weak)
    THEN [response EXCEPT !.status = 304, !.body = ""]
    ELSE response

\* balde_make_response_from_static_resource: the tag holds the hashes of the
\* name and of the content, and is compared as a whole.
ResourceResponse(name, ifNoneMatch) ==
    IF name \notin Files THEN Abort(404)
    ELSE LET etag == [weak |-> FALSE, tag |-> <<name, bundle>>] IN
         IF ifNoneMatch = etag
         THEN [MakeResponse("") EXCEPT !.etag = etag, !.status = 304]
         ELSE [MakeResponse(bundle) EXCEPT !.etag = etag]

\* The argument "file" of balde_resource_view; "(null)" if it is NULL.
ResourceView(values, ifNoneMatch) ==
    ResourceResponse((CHOOSE p \in values : p[1] = "file")[2], ifNoneMatch)

\* A page (external): in either order, or with no entity tag.
Pages(ifNoneMatch) ==
    LET page == MakeResponse(content) IN
    {page} \cup {EtagMatching(ifNoneMatch, SetEtag(page, w)) : w \in BOOLEAN}
           \cup {SetEtag(EtagMatching(ifNoneMatch, page), w) : w \in BOOLEAN}

\* balde_response_render: no body for HEAD, but its length.
Rendered(response, method) ==
    [status |-> response.status, etag |-> response.etag, allow |-> response.allow,
     length |-> response.body,
     body |-> IF method = "HEAD" THEN "" ELSE response.body]

-----------------------------------------------------------------------------
\* The rules that are not refused, in their order.
Accepted(rules) ==
    LET A == Indexes(rules, LAMBDA r : ~Refused(r))
        Nth(n) == CHOOSE i \in A : Cardinality({j \in A : j <= i}) = n
    IN [n \in 1..Cardinality(A) |-> rules[Nth(n)]]
ViewFor(rule) == [rule EXCEPT !.methods = Answers(rule)]
Registered(rules) ==
    LET A == Accepted(rules) IN [i \in DOMAIN A |-> ViewFor(A[i])]
ErrorOf(rules, when) == IF \E r \in ToSet(rules) : Refused(r) THEN when ELSE "none"

Init ==
    /\ deployment \in {"httpd", "split", "whole"}
    /\ application \in Applications /\ error = ErrorOf(application, "startup")
    /\ views = Registered(<<Static>> \o application) /\ late = 0
    /\ content \in Contents /\ bundle \in Bundles
    /\ link = Null /\ cache = Null /\ shown = Null
    /\ jar = Null /\ told = Null
    /\ request = Null /\ answer = Null /\ handled = Null

Idle == request = Null /\ answer = Null

\* Mutant: a rule is put before the others.
RegisterFirst ==
    /\ request # Null /\ answer = Null /\ error = "none" /\ late < Len(LateRules)
    /\ late' = late + 1
    /\ views' = Registered(<<LateRules[late + 1]>>) \o views
    /\ error' = ErrorOf(<<LateRules[late + 1]>>, "hook")
    /\ UNCHANGED <<deployment, application, content, bundle, browser, request, answer, handled>>

\* balde_app_add_url_rule in a hook of a request; a rule that is refused is
\* left out, and an error.
Register ==
    /\ request # Null /\ answer = Null /\ error = "none" /\ late < Len(LateRules)
    /\ late' = late + 1
    /\ views' = views \o Registered(<<LateRules[late + 1]>>)
    /\ error' = ErrorOf(<<LateRules[late + 1]>>, "hook")
    /\ UNCHANGED <<deployment, application, content, bundle, browser, request, answer, handled>>

Publish ==
    /\ content' \in Contents \ {content}
    /\ UNCHANGED <<deployment, application, error, views, late, bundle, browser, request, answer, handled>>

\* The server starts again, with other resources: balde_resources_load.
Restart ==
    /\ Idle
    /\ bundle' \in Bundles \ {bundle}
    /\ views' = Registered(<<Static>> \o application) /\ late' = 0
    /\ error' = ErrorOf(application, "startup")
    /\ UNCHANGED <<deployment, application, content, browser, request, answer, handled>>

-----------------------------------------------------------------------------
(* The browser (external) asks for a page, again or for the first time, or *)
(* sends a form, with the cookie it has.                                   *)

EncodeValue(t) ==
    [i \in DOMAIN t |-> IF t[i] = " " THEN "+"
                        ELSE IF t[i] \in DOMAIN Escaped THEN Escaped[t[i]] ELSE t[i]]

EncodeForm(form) ==
    FlattenSeq([i \in DOMAIN form |->
        (IF i = 1 THEN <<>> ELSE <<"&">>)
            \o EncodeValue(form[i][1]) \o <<"=">> \o EncodeValue(form[i][2])])

Send(url, method, target, form) ==
    /\ Idle /\ Arrives(url)
    /\ request' = [url |-> url, method |-> method, target |-> target, form |-> form,
                   ifNoneMatch |-> IF method = "GET" /\ cache # Null /\ cache.url = url
                                   THEN cache.etag ELSE Null]
    /\ link' = Null /\ shown' = Null
    /\ cache' = IF cache # Null /\ cache.url = url /\ method = "GET" THEN cache ELSE Null
    /\ UNCHANGED <<server, jar, told, answer, handled>>

Follow == link # Null /\ Send(link.url, "GET", link, <<>>)
Reload == cache # Null /\ Send(cache.url, "GET", Null, <<>>)
Open == \E url \in Bookmarks, m \in {"GET", "HEAD", "OPTIONS"} : Send(url, m, Null, <<>>)
Submit == \E url \in Bookmarks, f \in Forms : Send(url, "POST", Null, f)

-----------------------------------------------------------------------------
\* What the view is given, and what the browser is answered.
Finish(response, view, values, truth, newLink, cookie) ==
    /\ answer' = [rendered |-> Rendered(response, request.method),
                  link |-> newLink,
                  cookie |-> IF cookie = Null THEN Null
                             ELSE CookieText(cookie[1], cookie[2], 1)]
    /\ told' = cookie
    /\ handled' = [view |-> view, values |-> values, truth |-> truth,
                   form |-> ParseQueryString(EncodeForm(request.form), Null),
                   cookies |-> ParseCookies(jar, Null), had |-> told]
    /\ UNCHANGED <<server, link, cache, shown, jar, request>>

\* The main loop answers an error before any view.  One of the startup stays,
\* and is answered before the method is known.
HandleError ==
    /\ request # Null /\ answer = Null /\ error # "none"
    /\ answer' = [rendered |-> Rendered(Abort(500), IF error = "startup" THEN "GET"
                                                   ELSE request.method),
                  link |-> Null, cookie |-> Null]
    /\ error' = IF error = "startup" THEN "startup" ELSE "none"
    /\ told' = Null
    /\ UNCHANGED <<deployment, application, views, late, content, bundle,
                   link, cache, shown, jar, request, handled>>

\* The main loop from the dispatch to the view and its answer.
Handle ==
    /\ request # Null /\ answer = Null /\ error = "none"
    /\ LET r == MakeRequest(Env(request.url))
           found == Dispatch(views, r.path, Null)
           view == IF found = 0 THEN 0 ELSE ViewOf(views, views[found].endpoint)
           method == MethodOf(request.method)
       IN IF view = 0 THEN Finish(Abort(404), 0, {}, "", Null, Null)
          ELSE IF method \notin views[view].methods
               THEN Finish(Abort(405), 0, {}, "", Null, Null)
          ELSE IF method = "OPTIONS"
               THEN Finish([MakeResponse("") EXCEPT
                              !.allow = AllowedMethods(views[view].methods)],
                           0, {}, "", Null, Null)
          ELSE \E values \in {Values(views[found], Root(r.path, Null), Null)} :
            IF views[view].endpoint = "static"
            THEN Finish(ResourceView(values, request.ifNoneMatch), view, values,
                        bundle, Null, Null)
            ELSE \E response \in Pages(request.ifNoneMatch) :
                 \E target \in IF method = "GET" /\ response.etag = Null
                               THEN Targets ELSE {Null},
                    cookie \in IF method = "POST" THEN Cookies \cup {Null} ELSE {Null} :
                    LET url == IF target = Null THEN Null
                               ELSE UrlFor(views, r.scriptName, target[1], target[2], Null)
                    IN Finish(response, view, values, content,
                              IF url = Null THEN Null ELSE
                                  [url |-> url, endpoint |-> target[1], args |-> target[2]],
                              cookie)

\* The answer arrives.  304 brings a new tag for what the browser has.  (A
\* bound: the browser keeps a cookie for the next request only.)
Receive ==
    /\ answer # Null
    /\ LET a == answer.rendered IN
        /\ IF request.method = "GET" /\ a.status = 200
           THEN /\ shown' = [body |-> a.body, truth |-> handled.truth]
                /\ cache' = IF a.etag = Null THEN Null
                            ELSE [url |-> request.url, etag |-> a.etag, body |-> a.body]
           ELSE IF a.status = 304
           THEN /\ shown' = [body |-> cache.body, truth |-> handled.truth]
                /\ cache' = IF a.etag = Null THEN cache ELSE [cache EXCEPT !.etag = a.etag]
           ELSE shown' = Null /\ UNCHANGED cache
    /\ link' = answer.link
    /\ jar' = IF answer.cookie = Null THEN Null
              ELSE Strip(Split(answer.cookie, ";")[1])
    /\ request' = Null /\ answer' = Null /\ handled' = Null
    /\ UNCHANGED <<server, told>>

Next ==
    \/ Register \/ Publish \/ Restart
    \/ Follow \/ Reload \/ Open \/ Submit
    \/ HandleError \/ Handle \/ Receive

Spec == Init /\ [][Next]_vars

-----------------------------------------------------------------------------
(* Properties.                                                             *)

\* What comes back is what went out: every text between two variables begins
\* with a "/", and a path is at the end.
Separated(rule) ==
    \A i \in DOMAIN rule.vars :
        /\ i < Len(rule.vars) => rule.vars[i].conv # "path"
        /\ rule.texts[i + 1] # <<>> => /\ Head(rule.texts[i + 1]) = "/"
                                      /\ rule.vars[i].conv # "path"
        /\ rule.texts[i + 1] = <<>> => i = Len(rule.vars)

Free(texts, chars) == \A i \in DOMAIN texts : ToSet(texts[i]) \cap chars = {}

\* A link the code can be asked to lead back.  Its rule: known, separated,
\* with nothing in it that an expression or, for httpd, a URL escapes.  Its
\* arguments: accepted, and, where the web server decodes the path, with
\* nothing balde decodes again.  And no rule before it takes the path.
Honest(l) ==
    LET v == ViewOf(views, l.endpoint) IN
    /\ v # 0
    /\ LET r == views[v]
           path == Fill(r.texts, l.args)
       IN /\ Known(r) = Len(r.vars) /\ Separated(r)
          /\ Free(r.texts, {".", "+", "\\"})
          /\ \A i \in DOMAIN r.vars : Accepts(r.vars[i].conv, l.args[i])
          /\ IF deployment = "httpd" THEN Free(r.texts, DOMAIN Escaped)
             ELSE Free(l.args, {"+", "%"})
          /\ \A i \in 1..(v - 1) :
                Matches(views[i], IF deployment = "httpd" THEN Escape(path) ELSE path) = {}

(* A link made with url_for leads back to the view it was made for, with   *)
(* the arguments it was made with, whatever the web server makes of the    *)
(* path, and although rules were registered since and the server started   *)
(* again.                                                                  *)
LinksLeadBack ==
    handled # Null /\ request.target # Null /\ Honest(request.target) =>
        LET l == request.target
            r == views[ViewOf(views, l.endpoint)]
        IN /\ handled.view = ViewOf(views, l.endpoint)
           /\ handled.values = {<<r.vars[i].name, l.args[i]>> : i \in DOMAIN r.vars}

(* A rule registered by a hook takes no URL from the view that had it.     *)
StableRoutes ==
    [][ late' > late =>
          \A url \in Bookmarks :
            LET v == Dispatch(views, url, Null) IN
            v # 0 => /\ Dispatch(views', url, Null) # 0
                     /\ views'[Dispatch(views', url, Null)] = views[v] ]_vars

\* The tag of an empty body.  A page that is compared before its tag is set is
\* answered with it when it is unchanged, so what it is the tag of is not known.
EmptyTag(etag) == etag.tag = <<"">>

(* What the browser shows is what the view had made when it was asked,     *)
(* also when the answer was 304: of pages that change, weak tags and       *)
(* strong ones, set before the comparison or after it, and of resources    *)
(* that are others when the server starts again.  Only a page that became  *)
(* empty may be taken for what the browser has with the tag of nothing.    *)
FreshPages ==
    shown # Null =>
        \/ shown.body = shown.truth
        \/ shown.truth = "" /\ EmptyTag(cache.etag)

(* A form arrives as it was filled in, the last value of every key, and a  *)
(* cookie as it was set, unless a ";" cuts it.                             *)
InputsArrive ==
    handled # Null =>
        /\ LET f == request.form IN
           handled.form = {f[i] : i \in {j \in DOMAIN f :
                               \A k \in (j + 1)..Len(f) : f[k][1] # f[j][1]}}
        /\ handled.had # Null /\ ~Contains(handled.had[2], ";") =>
               handled.cookies = {handled.had}
=============================================================================
