----------------------------- MODULE Site_proofs -----------------------------
(***************************************************************************)
(* What a browser shows is what the view had made, rules that are added    *)
(* take no URL from a view, and a view sees what the browser filled in,    *)
(* for any site: any rules, static resources, pages, links, forms and      *)
(* cookies, and entity tags used in any of the ways the library allows.    *)
(***************************************************************************)
EXTENDS Site, TLAPS, FiniteSetTheorems, SequenceTheorems, WellFoundedInduction

-----------------------------------------------------------------------------
(* The invariant.                                                          *)

\* The tag e is one the server may have given to the body b.
Tagged(e, b) ==
    /\ e \in Etag
    /\ e.tag = <<b>> \/ EmptyTag(e) \/ \E name \in Files : e.tag = <<name, b>>

\* What the browser keeps has a tag of its body, and what it asks with is the
\* tag of what it keeps.
CacheInv ==
    cache # Null =>
        /\ cache = [url |-> cache.url, etag |-> cache.etag, body |-> cache.body]
        /\ cache.body \in Contents \cup Bundles /\ Tagged(cache.etag, cache.body)
RequestInv ==
    request # Null /\ request.ifNoneMatch # Null =>
        cache # Null /\ request.ifNoneMatch = cache.etag

\* An answer has the truth, or the browser has it; only of a page that is empty
\* by now, and of a tag of nothing, one cannot say.
Unsure(truth, etag) == truth = "" /\ EmptyTag(cache.etag) /\ (etag # Null => EmptyTag(etag))
AnswerInv ==
    answer # Null =>
        LET a == answer.rendered IN
        /\ request.method = "GET" /\ a.status = 200 =>
            /\ a.body = handled.truth /\ a.body \in Contents \cup Bundles
            /\ a.etag # Null => Tagged(a.etag, a.body)
        /\ a.status = 304 =>
            /\ cache # Null /\ (a.etag # Null => Tagged(a.etag, cache.body))
            /\ cache.body = handled.truth \/ Unsure(handled.truth, a.etag)

PagesInv ==
    /\ content \in Contents /\ bundle \in Bundles
    /\ CacheInv /\ RequestInv /\ AnswerInv /\ FreshPages

-----------------------------------------------------------------------------
(* Entity tags.                                                            *)

\* A tag that is compared tells what it is the tag of, unless it is of nothing.
LEMMA TagsTell ==
    ASSUME NEW b, NEW c, NEW n
    PROVE  /\ \A e : Tagged(e, b) /\ e.tag = <<c>> => b = c \/ c = ""
           /\ \A e : Tagged(e, b) /\ e.tag = <<n, c>> => b = c
<1>1. <<b>> = <<c>> => b = c
  OBVIOUS
<1>2. <<"">> # <<n, c>> /\ <<b>> # <<n, c>>
  OBVIOUS
<1>3. \A m : <<m, b>> # <<c>> /\ (<<m, b>> = <<n, c>> => b = c)
  OBVIOUS
<1>4. <<"">> = <<c>> => c = ""
  OBVIOUS
<1> QED
  BY <1>1, <1>2, <1>3, <1>4 DEF Tagged, EmptyTag

LEMMA MakesTag ==
    ASSUME NEW b \in Contents \cup {""}, NEW w \in BOOLEAN
    PROVE  [weak |-> w, tag |-> <<b>>] \in Etag
<1>1. <<b>> \in {<<body>> : body \in Contents \cup {""}}
  OBVIOUS
<1> QED
  BY <1>1 DEF Etag

\* The tags of a page, which are of its body or of nothing.
Paged(e, b) == e \in Etag /\ (e.tag = <<b>> \/ EmptyTag(e))
LEMMA PagedIsTagged == \A e, b : Paged(e, b) => Tagged(e, b) /\ (b = "" => EmptyTag(e))
BY DEF Paged, Tagged, EmptyTag

\* What a page answers, in either order.
LEMMA PageAnswers ==
    ASSUME content \in Contents, NEW inm, NEW r \in Pages(inm)
    PROVE  /\ r.status \in {200, 304}
           /\ r.status = 200 => r.body = content
           /\ r.status = 304 => inm # Null /\ inm.tag = <<content>>
           /\ r.etag # Null => Paged(r.etag, content)
<1> DEFINE none == ""
           page == MakeResponse(content)
           E(w) == [weak |-> w, tag |-> <<content>>]
           Full(e) == [status |-> 200, etag |-> e, allow |-> <<>>, body |-> content]
           Bare(e) == [status |-> 304, etag |-> e, allow |-> <<>>, body |-> none]
<1> HIDE DEF none
<1>1. page = Full(Null)
  BY DEF MakeResponse
<1>2. ASSUME NEW w \in BOOLEAN
      PROVE  SetEtag(page, w) = Full(E(w)) /\ Paged(E(w), content)
  <2>1. SetEtag(page, w) = Full(E(w))
    BY <1>1 DEF SetEtag, GenerateEtag
  <2>2. Paged(E(w), content)
    BY MakesTag DEF Paged
  <2> QED
    BY <2>1, <2>2
<1>3. ASSUME NEW e
      PROVE  \/ EtagMatching(inm, Full(e)) = Full(e)
             \/ /\ EtagMatching(inm, Full(e)) = Bare(e)
                /\ inm # Null /\ inm.tag = <<content>>
  <2>1. CASE inm # Null /\ inm = GenerateEtag(Full(e), inm.weak)
    <3>1. EtagMatching(inm, Full(e)) = [Full(e) EXCEPT !.status = 304, !.body = none]
      BY <2>1 DEF EtagMatching, none
    <3>2. inm = [weak |-> inm.weak, tag |-> <<content>>]
      BY <2>1 DEF GenerateEtag
    <3>3. inm.tag = <<content>>
      <4> DEFINE k == inm.weak
      <4>1. inm = [weak |-> k, tag |-> <<content>>]
        BY <3>2
      <4> HIDE DEF k
      <4> QED
        BY <4>1
    <3>4. [Full(e) EXCEPT !.status = 304, !.body = none] = Bare(e)
      <4> DEFINE half == [status |-> 304, etag |-> e, allow |-> <<>>, body |-> content]
      <4>1. [Full(e) EXCEPT !.status = 304] = half
        BY Z3
      <4>2. [half EXCEPT !.body = none] = Bare(e)
        BY Z3
      <4> HIDE DEF Full, Bare, half
      <4>3. [Full(e) EXCEPT !.status = 304, !.body = none]
                = [[Full(e) EXCEPT !.status = 304] EXCEPT !.body = none]
        OBVIOUS
      <4> QED
        BY <4>1, <4>2, <4>3
    <3> QED
      BY <2>1, <3>1, <3>3, <3>4
  <2>2. CASE ~(inm # Null /\ inm = GenerateEtag(Full(e), inm.weak))
    BY <2>2 DEF EtagMatching
  <2> QED
    BY <2>1, <2>2
<1>4. ASSUME NEW w \in BOOLEAN
      PROVE  \E e : SetEtag(Bare(Null), w) = Bare(e) /\ Paged(e, content)
  <2> DEFINE G == [weak |-> w, tag |-> <<none>>]
  <2>1. SetEtag(Bare(Null), w) = Bare(G)
    <3>1. SetEtag(Bare(Null), w) = [Bare(Null) EXCEPT !.etag = GenerateEtag(Bare(Null), w)]
      BY DEF SetEtag
    <3>2. GenerateEtag(Bare(Null), w) = G
      BY DEF GenerateEtag
    <3> DEFINE g == G
    <3> HIDE DEF g
    <3>3. [Bare(Null) EXCEPT !.etag = g] = Bare(g)
      BY Z3
    <3> QED
      BY <3>1, <3>2, <3>3 DEF g
  <2>2. Paged(G, content)
    BY MakesTag DEF Paged, EmptyTag, none
  <2> QED
    BY <2>1, <2>2
<1>5. /\ \A e : Full(e).status = 200 /\ Full(e).body = content /\ Full(e).etag = e
      /\ \A e : Bare(e).status = 304 /\ Bare(e).etag = e
  OBVIOUS
<1> HIDE DEF Full, Bare, E, page
<1>6. ASSUME NEW w \in BOOLEAN, r = EtagMatching(inm, SetEtag(page, w))
      PROVE  \/ r = Full(E(w))
             \/ r = Bare(E(w)) /\ inm # Null /\ inm.tag = <<content>>
  BY <1>2, <1>3, <1>6
<1>7. ASSUME NEW w \in BOOLEAN, r = SetEtag(EtagMatching(inm, page), w)
      PROVE  \/ r = Full(E(w))
             \/ /\ \E e : r = Bare(e) /\ Paged(e, content)
                /\ inm # Null /\ inm.tag = <<content>>
  <2>1. CASE EtagMatching(inm, page) = Full(Null)
    BY <1>1, <1>2, <1>7, <2>1
  <2>2. CASE EtagMatching(inm, page) = Bare(Null) /\ inm # Null /\ inm.tag = <<content>>
    BY <1>4, <1>7, <2>2
  <2> QED
    BY <1>1, <1>3, <2>1, <2>2
<1>8. \/ \E e : r = Full(e) /\ (e # Null => Paged(e, content))
      \/ /\ \E e : r = Bare(e) /\ Paged(e, content)
         /\ inm # Null /\ inm.tag = <<content>>
  <2>1. \/ r = page
        \/ \E w \in BOOLEAN : r = EtagMatching(inm, SetEtag(page, w))
        \/ \E w \in BOOLEAN : r = SetEtag(EtagMatching(inm, page), w)
    BY DEF Pages, page
  <2> QED
    BY <1>1, <1>2, <1>6, <1>7, <2>1
<1> QED
  BY <1>5, <1>8

\* What a static resource answers.
LEMMA ResourceAnswers ==
    ASSUME bundle \in Bundles, NEW name, NEW inm
    PROVE  LET r == ResourceResponse(name, inm) IN
           /\ r.status \in {200, 304, 404}
           /\ r.status = 200 => r.body = bundle /\ Tagged(r.etag, bundle)
           /\ r.status = 304 =>
                /\ inm # Null /\ inm.tag = <<name, bundle>>
                /\ Tagged(r.etag, bundle)
<1> DEFINE r == ResourceResponse(name, inm)
           none == ""
           etag == [weak |-> FALSE, tag |-> <<name, bundle>>]
           Answer(s, b) == [status |-> s, etag |-> etag, allow |-> <<>>, body |-> b]
<1> HIDE DEF none
<1>1. CASE name \notin Files
  <2>1. r = [MakeResponse("error") EXCEPT !.status = 404]
    BY <1>1 DEF ResourceResponse, Abort
  <2>2. r.status = 404
    BY <2>1 DEF MakeResponse
  <2> QED
    BY <2>2
<1>2. CASE name \in Files
  <2>1. etag \in Etag /\ etag.tag = <<name, bundle>> /\ etag # Null
    <3>1. etag \in Etag
      BY <1>2 DEF Etag
    <3> QED
      BY <3>1, NullAssumption
  <2>2. Tagged(etag, bundle)
    BY <1>2, <2>1 DEF Tagged
  <2>3. MakeResponse(none) = [status |-> 200, etag |-> Null, allow |-> <<>>, body |-> none]
    BY DEF MakeResponse
  <2>4. CASE inm = etag
    <3>1. r = [MakeResponse(none) EXCEPT !.etag = etag, !.status = 304]
      BY <1>2, <2>4 DEF ResourceResponse, none
    <3>2. r.status = 304 /\ r.etag = etag
      BY <2>3, <3>1
    <3> QED
      BY <2>1, <2>2, <2>4, <3>2
  <2>5. CASE inm # etag
    <3>1. r = [MakeResponse(bundle) EXCEPT !.etag = etag]
      BY <1>2, <2>5 DEF ResourceResponse
    <3>2. r.status = 200 /\ r.etag = etag /\ r.body = bundle
      BY <3>1 DEF MakeResponse
    <3> QED
      BY <2>2, <3>2
  <2> QED
    BY <2>4, <2>5
<1> QED
  BY <1>1, <1>2

-----------------------------------------------------------------------------
(* The main loop.                                                          *)

\* What a request is answered with: an error, the methods of a view, a static
\* resource, or a page.
Outcome(response, truth) ==
    \/ response.status \in {404, 405}
    \/ request.method # "GET" /\ response.status = 200
    \/ /\ \E name : response = ResourceResponse(name, request.ifNoneMatch)
       /\ truth = bundle
    \/ response \in Pages(request.ifNoneMatch) /\ truth = content

LEMMA HandleGives ==
    ASSUME Handle
    PROVE  /\ request # Null /\ answer = Null
           /\ UNCHANGED <<application, views, late, content, bundle, cache, shown, request>>
           /\ \E response, truth :
                /\ Outcome(response, truth)
                /\ answer'.rendered = Rendered(response, request.method)
                /\ handled'.truth = truth
<1> DEFINE Gives(response, truth) ==
              /\ answer'.rendered = Rendered(response, request.method)
              /\ handled'.truth = truth
              /\ UNCHANGED <<server, link, cache, shown, jar, request>>
<1>1. ASSUME NEW response, NEW view, NEW values, NEW truth, NEW newLink, NEW cookie,
             Finish(response, view, values, truth, newLink, cookie)
      PROVE  Gives(response, truth)
  BY <1>1 DEF Finish
<1> HIDE DEF Gives
<1> DEFINE r == MakeRequest(Env(request.url))
           found == Dispatch(views, r.path, Null)
           view == IF found = 0 THEN 0 ELSE ViewOf(views, views[found].endpoint)
           method == MethodOf(request.method)
<1>2. ASSUME NEW response, NEW truth, Gives(response, truth), Outcome(response, truth)
      PROVE  \E s, t : Outcome(s, t) /\ Gives(s, t)
  BY <1>2
<1>3. \E s, t : Outcome(s, t) /\ Gives(s, t)
  <2>1. CASE view = 0
    <3> DEFINE response == Abort(404)
               none == ""
    <3>1. Finish(response, 0, {}, none, Null, Null)
      BY <2>1 DEF Handle
    <3>2. Outcome(response, none)
      BY DEF Outcome, Abort, MakeResponse
    <3> HIDE DEF view, method, found, r, response, none
    <3> QED
      BY <1>1, <3>1, <3>2
  <2>2. CASE view # 0 /\ method \notin views[view].methods
    <3> DEFINE response == Abort(405)
               none == ""
    <3>1. Finish(response, 0, {}, none, Null, Null)
      BY <2>2 DEF Handle
    <3>2. Outcome(response, none)
      BY DEF Outcome, Abort, MakeResponse
    <3> HIDE DEF view, method, found, r, response, none
    <3> QED
      BY <1>1, <3>1, <3>2
  <2>3. CASE view # 0 /\ method \in views[view].methods /\ method = "OPTIONS"
    <3> DEFINE allowed == AllowedMethods(views[view].methods)
               none == ""
               response == [MakeResponse(none) EXCEPT !.allow = allowed]
    <3>1. Finish(response, 0, {}, none, Null, Null)
      BY <2>3 DEF Handle
    <3>2. request.method # "GET"
      BY <2>3 DEF MethodOf, Methods
    <3>3. response.status = 200
      <4> HIDE DEF allowed, none
      <4> QED
        BY DEF MakeResponse
    <3> HIDE DEF response, none
    <3>4. Outcome(response, none)
      BY <3>2, <3>3 DEF Outcome
    <3> HIDE DEF view, method, found, r
    <3> QED
      BY <1>1, <3>1, <3>4
  <2>4. CASE /\ view # 0 /\ method \in views[view].methods /\ method # "OPTIONS"
             /\ views[view].endpoint = "static"
    <3>1. PICK values :
            Finish(ResourceView(values, request.ifNoneMatch), view, values, bundle, Null, Null)
      BY <2>4 DEF Handle
    <3> HIDE DEF view, method, found, r
    <3>2. Outcome(ResourceView(values, request.ifNoneMatch), bundle)
      BY DEF Outcome, ResourceView
    <3> QED
      BY <1>1, <3>1, <3>2
  <2>5. CASE /\ view # 0 /\ method \in views[view].methods /\ method # "OPTIONS"
             /\ views[view].endpoint # "static"
    <3>1. PICK response \in Pages(request.ifNoneMatch) :
            \E values, newLink, cookie :
                Finish(response, view, values, content, newLink, cookie)
      BY <2>5 DEF Handle
    <3> HIDE DEF view, method, found, r
    <3>2. Outcome(response, content)
      BY DEF Outcome
    <3> QED
      BY <1>1, <3>1, <3>2
  <2> QED
    BY <2>1, <2>2, <2>3, <2>4, <2>5
<1>4. request # Null /\ answer = Null
  BY DEF Handle
<1> QED
  BY <1>3, <1>4 DEF Gives, server

-----------------------------------------------------------------------------
(* The steps.                                                              *)

LEMMA InitPages == Init => PagesInv
BY DEF Init, PagesInv, CacheInv, RequestInv, AnswerInv, FreshPages

LEMMA SendKeeps ==
    ASSUME PagesInv, NEW url, NEW method, NEW target, NEW form,
           Send(url, method, target, form)
    PROVE  PagesInv'
<1>1. /\ answer = Null /\ shown' = Null
      /\ UNCHANGED <<content, bundle, answer, handled>>
      /\ cache' = IF cache # Null /\ cache.url = url /\ method = "GET" THEN cache ELSE Null
      /\ request'.ifNoneMatch = IF method = "GET" /\ cache # Null /\ cache.url = url
                                THEN cache.etag ELSE Null
  BY DEF Send, Idle, server
<1>2. CacheInv'
  BY <1>1 DEF PagesInv, CacheInv
<1>3. RequestInv'
  BY <1>1 DEF RequestInv
<1>4. AnswerInv' /\ FreshPages'
  BY <1>1 DEF AnswerInv, FreshPages
<1> QED
  BY <1>1, <1>2, <1>3, <1>4 DEF PagesInv

LEMMA RenderedFields ==
    ASSUME NEW response, NEW method
    PROVE  LET a == Rendered(response, method) IN
           /\ a.status = response.status /\ a.etag = response.etag
           /\ method = "GET" => a.body = response.body
<1> DEFINE body == IF method = "HEAD" THEN "" ELSE response.body
<1>1. method = "GET" => body = response.body
  OBVIOUS
<1> HIDE DEF body
<1>2. Rendered(response, method) =
        [status |-> response.status, etag |-> response.etag, allow |-> response.allow,
         length |-> response.body, body |-> body]
  BY DEF Rendered, body
<1> QED
  BY <1>1, <1>2

LEMMA HandleKeeps ==
    ASSUME PagesInv, Handle
    PROVE  PagesInv'
<1>1. /\ request # Null /\ UNCHANGED <<content, bundle, cache, shown, request>>
      /\ content \in Contents /\ bundle \in Bundles
  BY HandleGives DEF PagesInv
<1>2. PICK response, truth :
        /\ Outcome(response, truth)
        /\ answer'.rendered = Rendered(response, request.method)
        /\ handled'.truth = truth
  BY HandleGives
<1> DEFINE a == answer'.rendered
           inm == request.ifNoneMatch
<1>3. /\ a.status = response.status /\ a.etag = response.etag
      /\ request.method = "GET" => a.body = response.body
  BY <1>2, RenderedFields
<1>4. inm # Null => cache # Null /\ inm = cache.etag /\ Tagged(inm, cache.body)
  BY <1>1 DEF PagesInv, RequestInv, CacheInv
<1> DEFINE Right ==
      /\ request.method = "GET" /\ a.status = 200 =>
            /\ a.body = truth /\ a.body \in Contents \cup Bundles
            /\ a.etag # Null => Tagged(a.etag, a.body)
      /\ a.status = 304 =>
            /\ cache # Null /\ (a.etag # Null => Tagged(a.etag, cache.body))
            /\ cache.body = truth \/ Unsure(truth, a.etag)
<1>5. Right
  <2> HIDE DEF a, inm
  <2>1. CASE response.status \in {404, 405}
    BY <1>3, <2>1
  <2>2. CASE request.method # "GET" /\ response.status = 200
    BY <1>3, <2>2
  <2>3. ASSUME NEW c \in Contents \cup Bundles, truth = c,
               response.status \in {200, 304, 404},
               response.status = 200 =>
                 response.body = c /\ (response.etag # Null => Tagged(response.etag, c)),
               response.status = 304 =>
                 /\ cache # Null /\ (response.etag # Null => Tagged(response.etag, cache.body))
                 /\ cache.body = c \/ Unsure(c, response.etag)
        PROVE  Right
    BY <1>3, <2>3
  <2>4. CASE /\ \E name : response = ResourceResponse(name, inm)
             /\ truth = bundle
    <3>1. PICK name : response = ResourceResponse(name, inm)
      BY <2>4
    <3>2. /\ response.status \in {200, 304, 404}
          /\ response.status = 200 => response.body = bundle /\ Tagged(response.etag, bundle)
          /\ response.status = 304 => /\ inm # Null /\ inm.tag = <<name, bundle>>
                                      /\ Tagged(response.etag, bundle)
      <4>1. bundle \in Bundles
        BY <1>1
      <4> QED
        BY <3>1, <4>1, ResourceAnswers
    <3>3. response.status = 304 => cache # Null /\ cache.body = bundle
      <4>1. \A e : Tagged(e, cache.body) /\ e.tag = <<name, bundle>> => cache.body = bundle
        BY <1>1, TagsTell
      <4> QED
        BY <1>4, <3>2, <4>1
    <3>4. bundle \in Contents \cup Bundles /\ truth = bundle
      BY <1>1, <2>4
    <3> HIDE DEF Right
    <3> QED
      BY <2>3, <3>2, <3>3, <3>4
  <2>5. CASE response \in Pages(inm) /\ truth = content
    <3>1. /\ response.status \in {200, 304}
          /\ response.status = 200 => response.body = content
          /\ response.status = 304 => inm # Null /\ inm.tag = <<content>>
          /\ response.etag # Null => Paged(response.etag, content)
      BY <1>1, <2>5, PageAnswers
    <3>2. ASSUME response.status = 304
          PROVE  /\ cache # Null /\ (response.etag # Null => Tagged(response.etag, cache.body))
                 /\ cache.body = content \/ Unsure(content, response.etag)
      <4>1. /\ cache # Null /\ cache.etag.tag = <<content>>
            /\ Tagged(inm, cache.body) /\ inm.tag = <<content>>
        BY <1>4, <3>1, <3>2
      <4>2. cache.body = content \/ content = ""
        <5>1. \A e : Tagged(e, cache.body) /\ e.tag = <<content>>
                       => cache.body = content \/ content = ""
          BY TagsTell
        <5> QED
          BY <4>1, <5>1
      <4>3. response.etag # Null => Tagged(response.etag, cache.body)
        <5>1. response.etag # Null => Paged(response.etag, content)
          BY <3>1, Zenon
        <5>2. CASE cache.body = content
          BY <5>1, <5>2, PagedIsTagged, Zenon
        <5>3. CASE content = ""
          <6>1. response.etag # Null => response.etag \in Etag /\ EmptyTag(response.etag)
            BY <5>1, <5>3, PagedIsTagged, Zenon DEF Paged
          <6> QED
            BY <6>1, Zenon DEF Tagged
        <5> QED
          BY <4>2, <5>2, <5>3
      <4>4. content = "" => Unsure(content, response.etag)
        BY <3>1, <4>1, PagedIsTagged DEF Unsure, EmptyTag
      <4> QED
        BY <4>1, <4>2, <4>3, <4>4
    <3>3. content \in Contents \cup Bundles /\ truth = content
      BY <1>1, <2>5
    <3>4. response.etag # Null => Tagged(response.etag, content)
      <4>1. response.etag # Null => Paged(response.etag, content)
        BY <3>1, Zenon
      <4> QED
        BY <4>1, PagedIsTagged, Zenon
    <3> HIDE DEF Right
    <3> QED
      BY <2>3, <3>1, <3>2, <3>3, <3>4
  <2> QED
    BY <1>2, <2>1, <2>2, <2>4, <2>5 DEF Outcome, inm
<1>6. AnswerInv'
  BY <1>1, <1>2, <1>5 DEF AnswerInv, Unsure
<1>7. CacheInv' /\ RequestInv' /\ FreshPages' /\ content' \in Contents /\ bundle' \in Bundles
  <2>1. handled'.truth = truth
    BY <1>2
  <2> QED
    BY <1>1 DEF PagesInv, CacheInv, RequestInv, FreshPages
<1> QED
  BY <1>6, <1>7 DEF PagesInv

\* An answer to an error is neither a page nor a 304.
LEMMA ErrorKeeps ==
    ASSUME PagesInv, HandleError
    PROVE  PagesInv'
<1>1. UNCHANGED <<content, bundle, cache, shown, request, handled>>
  BY DEF HandleError
<1>2. PICK method : answer'.rendered = Rendered(Abort(500), method)
  BY DEF HandleError
<1>3. Abort(500).status = 500
  BY DEF Abort, MakeResponse
<1>4. answer'.rendered.status = 500
  BY <1>2, <1>3, RenderedFields
<1>5. AnswerInv'
  BY <1>4 DEF AnswerInv
<1> QED
  BY <1>1, <1>5 DEF PagesInv, CacheInv, RequestInv, FreshPages

LEMMA ReceiveKeeps ==
    ASSUME PagesInv, Receive
    PROVE  PagesInv'
<1> DEFINE a == answer.rendered
<1>1. /\ answer # Null /\ request' = Null /\ answer' = Null
      /\ UNCHANGED <<content, bundle>>
  BY DEF Receive, server
<1>2. CacheInv' /\ FreshPages'
  <2>1. CASE request.method = "GET" /\ a.status = 200
    <3>1. /\ shown' = [body |-> a.body, truth |-> handled.truth]
          /\ cache' = IF a.etag = Null THEN Null
                      ELSE [url |-> request.url, etag |-> a.etag, body |-> a.body]
      BY <2>1 DEF Receive
    <3>2. /\ a.body = handled.truth /\ a.body \in Contents \cup Bundles
          /\ a.etag # Null => Tagged(a.etag, a.body)
      BY <1>1, <2>1 DEF PagesInv, AnswerInv
    <3>3. cache' # Null =>
            /\ cache'.body = a.body /\ cache'.etag = a.etag /\ a.etag # Null
            /\ cache' = [url |-> cache'.url, etag |-> cache'.etag, body |-> cache'.body]
      BY <3>1
    <3>4. shown'.body = shown'.truth
      BY <3>1, <3>2
    <3>5. CacheInv'
      BY <3>2, <3>3 DEF CacheInv, Tagged, EmptyTag, Etag
    <3> QED
      BY <3>4, <3>5 DEF FreshPages
  <2>2. CASE ~(request.method = "GET" /\ a.status = 200) /\ a.status = 304
    <3>1. /\ shown' = [body |-> cache.body, truth |-> handled.truth]
          /\ cache' = IF a.etag = Null THEN cache ELSE [cache EXCEPT !.etag = a.etag]
      BY <2>2 DEF Receive
    <3>2. /\ cache # Null /\ (a.etag # Null => Tagged(a.etag, cache.body))
          /\ cache.body = handled.truth \/ Unsure(handled.truth, a.etag)
          /\ CacheInv
      BY <1>1, <2>2 DEF PagesInv, AnswerInv
    <3>3. ASSUME Unsure(handled.truth, a.etag) => EmptyTag(cache'.etag)
          PROVE  FreshPages'
      <4>1. shown'.body = cache.body /\ shown'.truth = handled.truth
        BY <3>1
      <4>2. shown'.body = shown'.truth \/ (shown'.truth = "" /\ EmptyTag(cache'.etag))
        BY <3>2, <3>3, <4>1 DEF Unsure
      <4>3. EmptyTag(cache.etag)' <=> EmptyTag(cache'.etag)
        BY DEF EmptyTag
      <4> QED
        BY <4>2, <4>3 DEF FreshPages
    <3>4. CASE a.etag = Null
      <4>1. cache' = cache
        BY <3>1, <3>4
      <4> QED
        BY <3>2, <3>3, <4>1 DEF CacheInv, Unsure
    <3>5. CASE a.etag # Null
      <4>1. cache' = [cache EXCEPT !.etag = a.etag]
        BY <3>1, <3>5
      <4>2. cache = [url |-> cache.url, etag |-> cache.etag, body |-> cache.body]
        BY <3>2 DEF CacheInv
      <4> DEFINE u == cache.url
                 b == cache.body
                 e == cache.etag
      <4>3. cache = [url |-> u, etag |-> e, body |-> b]
        BY <4>2
      <4>4. b \in Contents \cup Bundles /\ Tagged(a.etag, b)
        BY <3>2, <3>5 DEF CacheInv
      <4> HIDE DEF u, b, e
      <4>5. cache' = [url |-> u, etag |-> a.etag, body |-> b]
        BY <4>1, <4>3, Z3
      <4>6. cache'.url = u /\ cache'.etag = a.etag /\ cache'.body = b
        BY <4>5
      <4>7. cache' = [url |-> cache'.url, etag |-> cache'.etag, body |-> cache'.body]
        BY <4>5, <4>6
      <4>8. FreshPages'
        BY <3>3, <3>5, <4>6 DEF Unsure
      <4> QED
        BY <4>4, <4>6, <4>7, <4>8 DEF CacheInv, Tagged, EmptyTag, Etag
    <3> QED
      BY <3>4, <3>5
  <2>3. CASE ~(request.method = "GET" /\ a.status = 200) /\ a.status # 304
    <3>1. shown' = Null /\ UNCHANGED cache
      BY <2>3 DEF Receive
    <3> QED
      BY <3>1 DEF PagesInv, CacheInv, FreshPages
  <2> QED
    BY <2>1, <2>2, <2>3
<1>3. RequestInv' /\ AnswerInv'
  BY <1>1 DEF RequestInv, AnswerInv
<1> QED
  BY <1>1, <1>2, <1>3 DEF PagesInv

\* Every step, whoever takes it.
LEMMA PagesStep == PagesInv /\ [Next]_vars => PagesInv'
<1> SUFFICES ASSUME PagesInv, [Next]_vars
             PROVE  PagesInv'
  OBVIOUS
<1> DEFINE Others == UNCHANGED <<cache, shown, request, answer, handled>>
<1>1. ASSUME Others, content' \in Contents, bundle' \in Bundles
      PROVE  PagesInv'
  <2>1. CacheInv' /\ RequestInv'
    BY <1>1 DEF PagesInv, CacheInv, RequestInv
  <2>2. AnswerInv'
    BY <1>1 DEF PagesInv, AnswerInv, Unsure
  <2>3. FreshPages'
    BY <1>1 DEF PagesInv, FreshPages
  <2> QED
    BY <1>1, <2>1, <2>2, <2>3 DEF PagesInv
<1>2. content \in Contents /\ bundle \in Bundles
  BY DEF PagesInv
<1>3. CASE Register
  <2>1. Others /\ UNCHANGED <<content, bundle>>
    BY <1>3 DEF Register, browser
  <2> QED
    BY <1>1, <1>2, <2>1
<1>4. CASE Publish
  <2>1. Others /\ content' \in Contents /\ UNCHANGED bundle
    BY <1>4 DEF Publish, browser
  <2> QED
    BY <1>1, <1>2, <2>1
<1>5. CASE Restart
  <2>1. Others /\ bundle' \in Bundles /\ UNCHANGED content
    BY <1>5 DEF Restart, browser
  <2> QED
    BY <1>1, <1>2, <2>1
<1>6. CASE Follow \/ Reload \/ Open \/ Submit
  BY <1>6, SendKeeps DEF Follow, Reload, Open, Submit
<1>7. CASE Handle
  BY <1>7, HandleKeeps
<1>8. CASE Receive
  BY <1>8, ReceiveKeeps
<1>9. CASE UNCHANGED vars
  <2>1. Others /\ UNCHANGED <<content, bundle>>
    BY <1>9 DEF vars, browser, server
  <2> QED
    BY <1>1, <1>2, <2>1
<1>10. CASE HandleError
  BY <1>10, ErrorKeeps
<1> QED
  BY <1>3, <1>4, <1>5, <1>6, <1>7, <1>8, <1>9, <1>10 DEF Next

-----------------------------------------------------------------------------
\* The browser's copy always has a tag of its own body or the tag of nothing, a
\* request asks with that tag, and an answer has the truth or says that the
\* browser has it, unless the page is empty and the tag is of nothing.
THEOREM TagsAreTrue == Spec => []PagesInv
<1> QED
  BY InitPages, PagesStep, PTL DEF Spec

\* What the browser shows is what the view had made when it was asked, also
\* when balde_response_etag_matching or balde_make_response_from_static_resource
\* answered 304: for every site, empty pages too, and every order of its
\* functions.  The exception is in FreshPages: a page that became empty.
THEOREM PagesAreFresh == Spec => []FreshPages
<1>1. PagesInv => FreshPages
  BY DEF PagesInv
<1> QED
  BY <1>1, TagsAreTrue, PTL

-----------------------------------------------------------------------------
(* Rules that are added take nothing away.                                 *)

IsSeq(s) == s \in Seq(ToSet(s))

RoutesInv == IsSeq(views) /\ late \in Nat /\ application \in Applications

LEMMA LeastOf ==
    ASSUME NEW S, S \subseteq Nat, S # {}
    PROVE  Least(S) \in S /\ \A j \in S : Least(S) <= j
<1> DEFINE R == OpToRel(<, Nat)
<1>1. IsWellFoundedOn(R, Nat)
  BY NatLessThanWellFounded
<1>2. \A m, n \in Nat : m < n => <<m, n>> \in R
  BY DEF OpToRel
<1> HIDE DEF R
<1>3. PICK n \in S : \A m \in S : <<m, n>> \notin R
  BY <1>1, WFMin
<1>4. n \in Nat /\ \A m \in S : m \in Nat /\ ~(m < n)
  BY <1>2, <1>3
<1>5. \A m \in S : n <= m
  BY <1>4
<1> QED
  BY <1>5 DEF Least

\* Numbers that come after the least of a set do not change the least.
LEMMA LeastStays ==
    ASSUME NEW S, NEW T, S \subseteq T, T \subseteq Nat, S # {},
           \A i \in S, j \in T \ S : i < j
    PROVE  Least(T) = Least(S)
<1>1. Least(S) \in S /\ \A j \in S : Least(S) <= j
  BY LeastOf
<1>2. Least(T) \in T /\ \A j \in T : Least(T) <= j
  BY LeastOf
<1>3. PICK m \in S, n \in T : m = Least(S) /\ n = Least(T)
  BY <1>1, <1>2
<1>4. m \in Nat /\ n \in Nat /\ n <= m
  BY <1>2, <1>3
<1>5. n \in S
  BY <1>3, <1>4
<1>6. m <= n
  BY <1>1, <1>3, <1>5
<1>7. m = n
  BY <1>4, <1>6
<1> QED
  BY <1>3, <1>7

\* What is registered is a sequence, whatever was refused.
LEMMA RegisteredIsSeq ==
    ASSUME NEW rules, IsSeq(rules)
    PROVE  IsSeq(Registered(rules))
<1> DEFINE A == Indexes(rules, LAMBDA r : ~Refused(r))
           c == Cardinality(A)
           v == Registered(rules)
<1>1. Len(rules) \in Nat /\ DOMAIN rules = 1..Len(rules)
  BY DEF IsSeq
<1>2. A \subseteq 1..Len(rules)
  BY <1>1 DEF Indexes
<1>3. c \in Nat
  <2> HIDE DEF A
  <2>1. IsFiniteSet(1..Len(rules))
    BY <1>1, FS_Interval
  <2>2. IsFiniteSet(A)
    BY <1>2, <2>1, FS_Subset
  <2> QED
    BY <2>2, FS_CardinalityType
<1>5. DOMAIN Accepted(rules) = 1..c
  BY DEF Accepted
<1> HIDE DEF c
<1>6. DOMAIN v = 1..c /\ v = [i \in DOMAIN v |-> v[i]]
  BY <1>5 DEF Registered
<1> HIDE DEF v
<1>7. v \in [1..c -> ToSet(v)]
  BY <1>6 DEF ToSet
<1> QED
  BY <1>3, <1>7 DEF IsSeq, v

\* A sequence that is longer has the same views at the same places.
LEMMA LongerViews ==
    ASSUME NEW a, NEW b, IsSeq(a), IsSeq(b)
    PROVE  /\ IsSeq(a \o b) /\ Len(a) \in Nat /\ DOMAIN a = 1..Len(a)
           /\ \E n \in Nat : n >= Len(a) /\ DOMAIN (a \o b) = 1..n
           /\ \A i \in DOMAIN a : (a \o b)[i] = a[i]
<1> DEFINE S == ToSet(a) \cup ToSet(b)
           ab == a \o b
<1>1. a \in Seq(S) /\ b \in Seq(S)
  BY SeqMonotonic DEF IsSeq
<1>2. Len(a) \in Nat /\ Len(b) \in Nat /\ DOMAIN a = 1..Len(a)
  BY DEF IsSeq
<1> HIDE DEF S
<1>3. /\ ab \in Seq(S) /\ Len(ab) = Len(a) + Len(b)
      /\ \A i \in 1..Len(a) + Len(b) :
            ab[i] = IF i <= Len(a) THEN a[i] ELSE b[i - Len(a)]
  BY <1>1, ConcatProperties
<1> HIDE DEF ab
<1>4. DOMAIN ab = 1..(Len(a) + Len(b))
  BY <1>2, <1>3
<1>5. \A i \in DOMAIN a : ab[i] = a[i]
  BY <1>2, <1>3
<1>6. ab \in [1..(Len(a) + Len(b)) -> ToSet(ab)]
  <2>1. \A i \in DOMAIN ab : ab[i] \in ToSet(ab)
    BY DEF ToSet
  <2>2. ab = [i \in DOMAIN ab |-> ab[i]]
    BY <1>3, <1>4
  <2> QED
    BY <1>4, <2>1, <2>2
<1>7. IsSeq(ab)
  <2>1. PICK n \in Nat : n = Len(a) + Len(b)
    BY <1>2
  <2>2. ab \in [1..n -> ToSet(ab)]
    BY <1>6, <2>1
  <2> QED
    BY <2>1, <2>2 DEF IsSeq
<1>8. \E n \in Nat : n >= Len(a) /\ DOMAIN ab = 1..n
  <2>1. Len(a) + Len(b) \in Nat /\ Len(a) + Len(b) >= Len(a)
    BY <1>2
  <2> QED
    BY <1>4, <2>1
<1> QED
  BY <1>2, <1>5, <1>7, <1>8 DEF ab

\* balde_dispatch_from_path finds the view it found before.
LEMMA DispatchStays ==
    ASSUME NEW a, NEW b, IsSeq(a), IsSeq(b), NEW url, Dispatch(a, url, Null) # 0
    PROVE  LET v == Dispatch(a, url, Null) IN
           Dispatch(a \o b, url, Null) = v /\ (a \o b)[v] = a[v]
<1> DEFINE M == Matching(a, url, Null)
           N == Matching(a \o b, url, Null)
<1>1. M # {} /\ Dispatch(a, url, Null) = Least(M)
  BY DEF Dispatch
<1>2. PICK n \in Nat : n >= Len(a) /\ DOMAIN (a \o b) = 1..n
  BY LongerViews
<1>3. /\ Len(a) \in Nat /\ DOMAIN a = 1..Len(a)
      /\ \A i \in DOMAIN a : (a \o b)[i] = a[i]
  BY LongerViews
<1>4. PICK ab : ab = a \o b
  OBVIOUS
<1>5. M \subseteq 1..Len(a) /\ N \subseteq 1..n /\ M \subseteq N
  <2>1. 1..Len(a) \subseteq 1..n
    BY <1>2, <1>3
  <2> QED
    BY <1>2, <1>3, <2>1 DEF Matching
<1>6. \A i \in M, j \in N \ M : i < j
  <2> TAKE i \in M, j \in N \ M
  <2>1. j \notin DOMAIN a
    BY <1>3 DEF Matching
  <2> HIDE DEF M, N
  <2> QED
    BY <1>2, <1>3, <1>5, <2>1
<1> HIDE DEF M
<1>7. N # {} /\ Dispatch(a \o b, url, Null) = Least(N)
  BY <1>1, <1>5 DEF Dispatch
<1> HIDE DEF N
<1>8. M \subseteq Nat /\ N \subseteq Nat
  BY <1>2, <1>3, <1>5
<1>9. Least(N) = Least(M)
  BY <1>1, <1>5, <1>6, <1>8, LeastStays
<1>10. Least(M) \in M
  BY <1>1, <1>8, LeastOf
<1> QED
  BY <1>1, <1>3, <1>5, <1>7, <1>9, <1>10

LEMMA OneIsSeq == \A x : IsSeq(<<x>>)
<1> TAKE x
<1>1. <<x>> \in Seq({x}) /\ ToSet(<<x>>) = {x}
  BY DEF ToSet
<1> QED
  BY <1>1 DEF IsSeq

LEMMA InitRoutes ==
    ASSUME application \in Applications
    PROVE  IsSeq(Registered(<<Static>> \o application))
<1>1. IsSeq(application)
  BY RulesAssumption DEF IsSeq
<1>2. IsSeq(<<Static>> \o application)
  BY <1>1, OneIsSeq, LongerViews
<1> QED
  BY <1>2, RegisteredIsSeq

\* A step keeps the views, adds some, or starts again with none added.
LEMMA RoutesStep ==
    ASSUME RoutesInv, [Next]_vars
    PROVE  /\ RoutesInv'
           /\ late' > late => \E b : IsSeq(b) /\ views' = views \o b
<1>0. application' = application /\ application \in Applications
  <2>1. \A url, method, target, form : Send(url, method, target, form) => application' = application
    BY DEF Send, server
  <2>2. Follow \/ Reload \/ Open \/ Submit => application' = application
    BY <2>1 DEF Follow, Reload, Open, Submit
  <2>3. Handle => application' = application
    BY HandleGives
  <2>4. Register \/ Publish \/ Restart \/ HandleError => application' = application
    BY DEF Register, Publish, Restart, HandleError
  <2>5. Receive \/ UNCHANGED vars => application' = application
    BY DEF Receive, vars, server
  <2> QED
    BY <2>2, <2>3, <2>4, <2>5 DEF Next, RoutesInv
<1>1. CASE Register
  <2> DEFINE b == Registered(<<LateRules[late + 1]>>)
  <2>1. IsSeq(b)
    BY OneIsSeq, RegisteredIsSeq
  <2>2. views' = views \o b /\ late' = late + 1
    BY <1>1 DEF Register
  <2> HIDE DEF b
  <2>3. IsSeq(views \o b)
    BY <2>1, LongerViews DEF RoutesInv
  <2> QED
    BY <1>0, <2>1, <2>2, <2>3 DEF RoutesInv
<1>2. CASE Restart
  <2>1. views' = Registered(<<Static>> \o application) /\ late' = 0
    BY <1>2 DEF Restart
  <2> QED
    BY <1>0, <2>1, InitRoutes DEF RoutesInv
<1>3. CASE ~Register /\ ~Restart
  <2>1. UNCHANGED <<views, late>>
    <3>1. CASE Publish
      BY <3>1 DEF Publish
    <3>2. CASE Follow \/ Reload \/ Open \/ Submit
      <4>1. \A url, method, target, form :
              Send(url, method, target, form) => UNCHANGED <<views, late>>
        BY DEF Send, server
      <4> QED
        BY <3>2, <4>1 DEF Follow, Reload, Open, Submit
    <3>3. CASE Handle
      BY <3>3, HandleGives
    <3>4. CASE Receive
      BY <3>4 DEF Receive, server
    <3>5. CASE UNCHANGED vars
      BY <3>5 DEF vars, server
    <3>6. CASE HandleError
      BY <3>6 DEF HandleError
    <3> QED
      BY <1>3, <3>1, <3>2, <3>3, <3>4, <3>5, <3>6 DEF Next
  <2> QED
    BY <1>0, <2>1 DEF RoutesInv
<1> QED
  BY <1>1, <1>2, <1>3

\* A rule registered by a hook takes no URL from the view that had it: the
\* URL is dispatched to the same view, whatever was registered, refused and
\* started again before.
THEOREM RoutesStay == Spec => StableRoutes
<1> DEFINE Stays(url) ==
             LET v == Dispatch(views, url, Null) IN
             v # 0 => /\ Dispatch(views', url, Null) # 0
                      /\ views'[Dispatch(views', url, Null)] = views[v]
<1>1. Init => RoutesInv
  BY InitRoutes DEF Init, RoutesInv
<1>2. RoutesInv /\ [Next]_vars => RoutesInv'
  BY RoutesStep
<1>3. ASSUME RoutesInv, [Next]_vars, late' > late, NEW url
      PROVE  Stays(url)
  <2>1. PICK b : IsSeq(b) /\ views' = views \o b
    BY <1>3, RoutesStep
  <2> SUFFICES ASSUME Dispatch(views, url, Null) # 0
               PROVE  Stays(url)
    OBVIOUS
  <2>2. PICK a : a = views
    OBVIOUS
  <2>3. /\ Dispatch(a \o b, url, Null) = Dispatch(a, url, Null)
        /\ (a \o b)[Dispatch(a, url, Null)] = a[Dispatch(a, url, Null)]
    BY <1>3, <2>1, <2>2, DispatchStays DEF RoutesInv
  <2> QED
    BY <2>1, <2>2, <2>3
<1>4. RoutesInv /\ [Next]_vars =>
        [late' > late => \A url \in Bookmarks : Stays(url)]_vars
  BY <1>3
<1> QED
  BY <1>1, <1>2, <1>4, PTL DEF Spec, StableRoutes

-----------------------------------------------------------------------------
(* Induction, of a set instead of a predicate, and what it says of folds:  *)
(* FlattenSeq, Split and the tables of the parsers are folds.              *)

\* A set of natural numbers has a least one.
LEMMA LeastNat ==
    ASSUME NEW S, S \subseteq Nat, S # {}
    PROVE  \E n \in S : \A m \in S : n <= m
<1> DEFINE R == OpToRel(<, Nat)
<1>1. IsWellFoundedOn(R, Nat)
  BY NatLessThanWellFounded
<1>2. \A m, n \in Nat : m < n => <<m, n>> \in R
  BY DEF OpToRel
<1> HIDE DEF R
<1>3. PICK n \in S : \A m \in S : <<m, n>> \notin R
  BY <1>1, WFMin
<1>4. n \in Nat /\ \A m \in S : m \in Nat /\ ~(m < n)
  BY <1>2, <1>3
<1>5. \A m \in S : n <= m
  BY <1>4
<1> QED
  BY <1>5

\* Induction over the natural numbers, of a set instead of a predicate.
LEMMA Induct ==
    ASSUME NEW T, 0 \in T, \A n \in Nat : n \in T => n + 1 \in T
    PROVE  Nat \subseteq T
<1> SUFFICES ASSUME Nat \ T # {}
             PROVE  FALSE
  OBVIOUS
<1>1. PICK n \in Nat \ T : \A m \in Nat \ T : n <= m
  BY LeastNat
<1>2. n # 0
  BY <1>1
<1>3. n - 1 \in Nat /\ ~(n <= n - 1) /\ (n - 1) + 1 = n
  BY <1>1, <1>2
<1>4. n - 1 \in T
  BY <1>1, <1>3
<1> QED
  BY <1>1, <1>3, <1>4

\* The maximum of positions is one of them, and none is after it.
LEMMA MaxOf ==
    ASSUME NEW L \in Nat, NEW S, S \subseteq 1..L, S # {}
    PROVE  Max(S) \in S /\ \A j \in S : j <= Max(S)
<1> DEFINE T == {L - i : i \in S}
<1>1. T \subseteq Nat /\ T # {}
  <2>1. \A i \in 1..L : L - i \in Nat
    OBVIOUS
  <2>2. \A i \in S : L - i \in Nat
    BY <2>1
  <2>3. \E i \in S : TRUE
    OBVIOUS
  <2> QED
    BY <2>2, <2>3
<1>2. PICK n \in T : \A m \in T : n <= m
  <2> HIDE DEF T
  <2> QED
    BY <1>1, LeastNat
<1>3. PICK k \in S : n = L - k
  BY <1>2
<1>4. \A j \in S : j <= k
  <2> TAKE j \in S
  <2>1. L - j \in T /\ j \in Nat /\ k \in Nat
    OBVIOUS
  <2>2. L - k <= L - j
    BY <1>2, <1>3, <2>1
  <2> QED
    BY <2>1, <2>2
<1> QED
  BY <1>4 DEF Max

\* The function that joins texts one after the other is there.
LEMMA Joins ==
    ASSUME NEW s, NEW n \in Nat
    PROVE  \E f : f = [i \in 1..n |-> IF i = 1 THEN s[1] ELSE f[i - 1] \o s[i]]
<1> DEFINE Is(f, m) == f = [i \in 1..m |-> IF i = 1 THEN s[1] ELSE f[i - 1] \o s[i]]
           T == {m \in Nat : \E f : Is(f, m)}
<1>1. 0 \in T
  <2> DEFINE f == [i \in 1..0 |-> 0]
  <2>1. Is(f, 0)
    OBVIOUS
  <2> QED
    BY <2>1
<1>2. ASSUME NEW m \in Nat, m \in T
      PROVE  m + 1 \in T
  <2>1. PICK f : Is(f, m)
    BY <1>2
  <2> DEFINE last == IF m = 0 THEN s[1] ELSE f[m] \o s[m + 1]
             g == [i \in 1..(m + 1) |-> IF i = m + 1 THEN last ELSE f[i]]
  <2>2. \A i \in 1..m : f[i] = IF i = 1 THEN s[1] ELSE f[i - 1] \o s[i]
    BY <2>1
  <2>3. ASSUME NEW i \in 1..(m + 1)
        PROVE  g[i] = IF i = 1 THEN s[1] ELSE g[i - 1] \o s[i]
    <3>1. CASE i = m + 1
      <4>1. g[i] = last /\ (m = 0 <=> i = 1)
        BY <3>1
      <4>2. CASE m = 0
        BY <4>1, <4>2
      <4>3. CASE m # 0
        <5>1. i - 1 = m /\ m \in 1..(m + 1) /\ m # m + 1
          BY <3>1, <4>3
        <5>2. g[i - 1] = f[m]
          BY <5>1
        <5> HIDE DEF g
        <5> QED
          BY <3>1, <4>1, <4>3, <5>2
      <4> QED
        BY <4>2, <4>3
    <3>2. CASE i # m + 1
      <4>1. i \in 1..m /\ g[i] = f[i]
        BY <3>2
      <4>2. CASE i = 1
        BY <2>2, <4>1, <4>2
      <4>3. CASE i # 1
        <5>1. i - 1 \in 1..(m + 1) /\ i - 1 # m + 1
          BY <4>1, <4>3
        <5>2. g[i - 1] = f[i - 1]
          BY <5>1
        <5> HIDE DEF g
        <5> QED
          BY <2>2, <4>1, <4>3, <5>2
      <4> QED
        BY <4>2, <4>3
    <3> QED
      BY <3>1, <3>2
  <2>4. Is(g, m + 1)
    <3> DEFINE h == [i \in 1..(m + 1) |-> IF i = 1 THEN s[1] ELSE g[i - 1] \o s[i]]
    <3>1. DOMAIN g = 1..(m + 1) /\ DOMAIN h = 1..(m + 1)
      OBVIOUS
    <3>2. \A i \in 1..(m + 1) : g[i] = h[i]
      BY <2>3
    <3>3. g = [i \in DOMAIN g |-> g[i]] /\ h = [i \in DOMAIN h |-> h[i]]
      OBVIOUS
    <3>4. g = h
      <4> HIDE DEF g, h
      <4> QED
        BY <3>1, <3>2, <3>3
    <3> QED
      BY <3>4
  <2> HIDE DEF g, Is
  <2> QED
    BY <2>4
<1>3. n \in T
  <2> HIDE DEF T
  <2> QED
    BY <1>1, <1>2, Induct
<1> QED
  BY <1>3

Joined(f, s, m) == \A i \in 1..m : f[i] = IF i = 1 THEN s[1] ELSE f[i - 1] \o s[i]

\* Of two such functions of the same texts, the one is a part of the other.
LEMMA SameJoin ==
    ASSUME NEW s, NEW t, NEW f, NEW g, NEW m \in Nat, NEW n \in Nat, n <= m,
           Joined(f, s, m), Joined(g, t, n), \A i \in 1..n : t[i] = s[i]
    PROVE  \A i \in 1..n : g[i] = f[i]
<1> DEFINE T == {i \in Nat : i \in 1..n => g[i] = f[i]}
<1>3. 0 \in T
  OBVIOUS
<1>4. ASSUME NEW i \in Nat, i \in T
      PROVE  i + 1 \in T
  <2> SUFFICES ASSUME i + 1 \in 1..n PROVE g[i + 1] = f[i + 1]
    OBVIOUS
  <2>1. i + 1 \in 1..m /\ t[i + 1] = s[i + 1] /\ (i + 1) - 1 = i
    OBVIOUS
  <2>2. CASE i = 0
    <3>1. i + 1 = 1
      BY <2>2
    <3> QED
      BY <2>1, <3>1 DEF Joined
  <2>3. CASE i # 0
    <3>1. i + 1 # 1 /\ i \in 1..n
      BY <2>3
    <3>2. g[i] = f[i]
      BY <1>4, <3>1
    <3>3. g[i + 1] = g[i] \o t[i + 1] /\ f[i + 1] = f[i] \o s[i + 1]
      BY <2>1, <3>1 DEF Joined
    <3> QED
      BY <2>1, <3>2, <3>3
  <2> QED
    BY <2>2, <2>3
<1>5. Nat \subseteq T
  <2> HIDE DEF T
  <2> QED
    BY <1>3, <1>4, Induct
<1>6. \A i \in 1..n : i \in Nat
  OBVIOUS
<1>7. \A i \in T : i \in 1..n => g[i] = f[i]
  OBVIOUS
<1> QED
  <2> HIDE DEF T
  <2> QED
    BY <1>5, <1>6, <1>7

\* One text more is joined at the end.
LEMMA FlattenOneMore ==
    ASSUME NEW s, NEW t, NEW n \in Nat, Len(s) = n, Len(t) = n + 1,
           \A i \in 1..n : s[i] = t[i], n = 0 => s = <<>>, NEW V, t[n + 1] \in Seq(V)
    PROVE  FlattenSeq(t) = FlattenSeq(s) \o t[n + 1]
<1> DEFINE Is(f, u, m) == f = [i \in 1..m |-> IF i = 1 THEN u[1] ELSE f[i - 1] \o u[i]]
           Join(u, m) == CHOOSE f : Is(f, u, m)
<1>1. FlattenSeq(t) = Join(t, n + 1)[n + 1]
  <2>1. n + 1 # 0
    OBVIOUS
  <2> QED
    BY <2>1 DEF FlattenSeq
<1>2. PICK g : g = Join(t, n + 1)
  OBVIOUS
<1>3. Is(g, t, n + 1)
  <2>1. n + 1 \in Nat
    OBVIOUS
  <2>2. \E f : Is(f, t, n + 1)
    BY <2>1, Joins
  <2> QED
    BY <1>2, <2>2
<1>4. CASE n = 0
  <2>1. FlattenSeq(s) = <<>>
    BY <1>4 DEF FlattenSeq
  <2>2. g[n + 1] = t[n + 1]
    BY <1>3, <1>4
  <2>3. <<>> \o t[n + 1] = t[n + 1]
    BY ConcatEmptySeq
  <2> QED
    BY <1>1, <1>2, <2>1, <2>2, <2>3
<1>5. CASE n # 0
  <2>1. FlattenSeq(s) = Join(s, n)[n]
    BY <1>5 DEF FlattenSeq
  <2>2. PICK f : f = Join(s, n)
    OBVIOUS
  <2>3. Is(f, s, n)
    <3>1. \E h : Is(h, s, n)
      BY Joins
    <3> QED
      BY <2>2, <3>1
  <2>4. f[n] = g[n]
    <3>1. PICK m \in Nat : m = n + 1 /\ n <= m /\ n \in 1..n
      BY <1>5
    <3>2. Joined(g, t, m)
      BY <1>3, <3>1 DEF Joined
    <3>3. Joined(f, s, n)
      BY <2>3 DEF Joined
    <3>4. \A i \in 1..n : f[i] = g[i]
      BY <3>1, <3>2, <3>3, SameJoin
    <3> QED
      BY <3>1, <3>4
  <2>5. g[n + 1] = g[n] \o t[n + 1]
    <3>1. n + 1 \in 1..(n + 1) /\ n + 1 # 1 /\ (n + 1) - 1 = n
      BY <1>5
    <3>2. \A i \in 1..(n + 1) : g[i] = IF i = 1 THEN t[1] ELSE g[i - 1] \o t[i]
      BY <1>3
    <3> QED
      BY <3>1, <3>2
  <2> QED
    BY <1>1, <1>2, <2>1, <2>2, <2>4, <2>5
<1> QED
  BY <1>4, <1>5

\* The last position is the maximum of those with it.
LEMMA MaxIs ==
    ASSUME NEW n \in Nat, NEW s \in SUBSET (1..(n + 1)), n + 1 \in s
    PROVE  Max(s) = n + 1
<1>1. n + 1 \in Nat /\ s # {}
  OBVIOUS
<1>2. PICK m \in s : m = Max(s) /\ \A j \in s : j <= m
  BY <1>1, MaxOf
<1>3. m \in 1..(n + 1) /\ n + 1 <= m
  BY <1>2
<1>4. m = n + 1
  BY <1>3
<1> QED
  BY <1>2, <1>4

\* f folds g, a function of what was made so far and an index.
FoldsBy(f, g, base, A, n) ==
    /\ f \in [SUBSET (1..n) -> A]
    /\ \A s \in SUBSET (1..n) :
         f[s] = IF s = {} THEN base ELSE g[<<f[s \ {Max(s)}], Max(s)>>]

\* There is such a function.
LEMMA FoldExists ==
    ASSUME NEW A, NEW base \in A, NEW n \in Nat, NEW g \in [A \X (1..n) -> A]
    PROVE  \E f : FoldsBy(f, g, base, A, n)
<1> DEFINE T == {m \in Nat : m <= n => \E f : FoldsBy(f, g, base, A, m)}
<1>1. 0 \in T
  <2> DEFINE f == [s \in SUBSET (1..0) |-> base]
  <2>1. f \in [SUBSET (1..0) -> A] /\ \A s \in SUBSET (1..0) : s = {} /\ f[s] = base
    OBVIOUS
  <2> HIDE DEF f
  <2>2. FoldsBy(f, g, base, A, 0)
    BY <2>1 DEF FoldsBy
  <2> QED
    BY <2>2
<1>2. ASSUME NEW m \in Nat, m \in T
      PROVE  m + 1 \in T
  <2> SUFFICES ASSUME m + 1 <= n PROVE \E f : FoldsBy(f, g, base, A, m + 1)
    OBVIOUS
  <2>1. PICK f : FoldsBy(f, g, base, A, m)
    <3>1. m <= n
      OBVIOUS
    <3> QED
      BY <1>2, <3>1
  <2> DEFINE h == [s \in SUBSET (1..(m + 1)) |->
                     IF m + 1 \in s THEN g[<<f[s \ {m + 1}], m + 1>>] ELSE f[s]]
  <2>2. ASSUME NEW s \in SUBSET (1..(m + 1)), m + 1 \notin s
        PROVE  s \in SUBSET (1..m) /\ h[s] = f[s]
    <3>1. \A i \in 1..(m + 1) : i = m + 1 \/ i \in 1..m
      OBVIOUS
    <3>2. s \in SUBSET (1..m)
      BY <2>2, <3>1
    <3> QED
      BY <2>2, <3>2
  <2>3. ASSUME NEW s \in SUBSET (1..(m + 1)), m + 1 \in s
        PROVE  /\ s \ {m + 1} \in SUBSET (1..m) /\ s \ {m + 1} \in SUBSET (1..(m + 1))
               /\ h[s] = g[<<f[s \ {m + 1}], m + 1>>]
               /\ h[s \ {m + 1}] = f[s \ {m + 1}]
    <3>1. s \ {m + 1} \in SUBSET (1..(m + 1)) /\ m + 1 \notin s \ {m + 1}
      OBVIOUS
    <3>2. s \ {m + 1} \in SUBSET (1..m) /\ h[s \ {m + 1}] = f[s \ {m + 1}]
      <4> HIDE DEF h
      <4> QED
        BY <2>2, <3>1
    <3>3. h[s] = g[<<f[s \ {m + 1}], m + 1>>]
      BY <2>3
    <3> QED
      BY <3>1, <3>2, <3>3
  <2>4. m + 1 \in 1..n
    OBVIOUS
  <2>5. h = [s \in SUBSET (1..(m + 1)) |-> h[s]]
    OBVIOUS
  <2> HIDE DEF h
  <2>6. \A s \in SUBSET (1..m) : f[s] \in A
    BY <2>1 DEF FoldsBy
  <2>7. \A s \in SUBSET (1..(m + 1)) : h[s] \in A
    <3> TAKE s \in SUBSET (1..(m + 1))
    <3>1. CASE m + 1 \in s
      <4>1. f[s \ {m + 1}] \in A
        BY <2>3, <2>6, <3>1
      <4>2. <<f[s \ {m + 1}], m + 1>> \in A \X (1..n)
        BY <2>4, <4>1
      <4> QED
        BY <2>3, <3>1, <4>2
    <3>2. CASE m + 1 \notin s
      BY <2>2, <2>6, <3>2
    <3> QED
      BY <3>1, <3>2
  <2>8. \A s \in SUBSET (1..(m + 1)) :
          h[s] = IF s = {} THEN base ELSE g[<<h[s \ {Max(s)}], Max(s)>>]
    <3> TAKE s \in SUBSET (1..(m + 1))
    <3>1. CASE m + 1 \in s
      <4>1. Max(s) = m + 1 /\ s # {}
        BY <3>1, MaxIs
      <4> QED
        BY <2>3, <3>1, <4>1
    <3>2. CASE m + 1 \notin s
      <4>1. s \in SUBSET (1..m) /\ h[s] = f[s]
        BY <2>2, <3>2
      <4>2. s \ {Max(s)} \in SUBSET (1..(m + 1)) /\ m + 1 \notin s \ {Max(s)}
        BY <3>2
      <4>3. h[s \ {Max(s)}] = f[s \ {Max(s)}]
        BY <2>2, <4>2
      <4> QED
        BY <2>1, <4>1, <4>3 DEF FoldsBy
    <3> QED
      BY <3>1, <3>2
  <2>9. FoldsBy(h, g, base, A, m + 1)
    <3>1. h \in [SUBSET (1..(m + 1)) -> A]
      BY <2>5, <2>7
    <3> QED
      BY <2>8, <3>1 DEF FoldsBy
  <2> QED
    BY <2>9
<1>3. n \in T
  <2> HIDE DEF T
  <2> QED
    BY <1>1, <1>2, Induct
<1> QED
  BY <1>3

\* Along the sequence.
LEMMA FoldGoes ==
    ASSUME NEW n \in Nat, NEW m \in Nat, m + 1 <= n
    PROVE  /\ 1..(m + 1) \in SUBSET (1..n) /\ 1..(m + 1) # {} /\ 1..m \in SUBSET (1..n)
           /\ Max(1..(m + 1)) = m + 1 /\ (1..(m + 1)) \ {m + 1} = 1..m
<1>1. Max(1..(m + 1)) = m + 1
  <2>1. PICK s : s = 1..(m + 1)
    OBVIOUS
  <2>2. s \in SUBSET (1..(m + 1)) /\ m + 1 \in s
    BY <2>1
  <2> QED
    BY <2>1, <2>2, MaxIs
<1> QED
  BY <1>1


-----------------------------------------------------------------------------
(* What is escaped comes back.                                             *)

\* An escaped character is none of the separators, and stands for one character.
LEMMA EscapesAre ==
    /\ \A c \in DOMAIN Escaped : /\ Escaped[c] \in Codes
                                 /\ Escaped[c] \notin {"+", "%", "&", "=", ";", " ", "/"}
    /\ \A c, d \in DOMAIN Escaped : Escaped[c] = Escaped[d] => c = d
    /\ DOMAIN Escaped = {" ", "+", "%", "\\", ";", "&", "=", "\"", "<"}
    /\ Escaped[" "] = "%20" /\ "%20" \in Codes
    /\ DOMAIN Escaped \subseteq Characters /\ Codes \subseteq Characters
<1> DEFINE D == {" ", "+", "%", "\\", ";", "&", "=", "\"", "<"}
<1>1. DOMAIN Escaped = D
  BY DEF Escaped
<1>2. /\ Escaped[" "] = "%20" /\ Escaped["+"] = "%2B" /\ Escaped["%"] = "%25"
      /\ Escaped["\\"] = "%5C" /\ Escaped[";"] = "%3B" /\ Escaped["&"] = "%26"
      /\ Escaped["="] = "%3D" /\ Escaped["\""] = "%22" /\ Escaped["<"] = "%3C"
  BY DEF Escaped
<1>3. \A c \in D : Escaped[c] \notin {"+", "%", "&", "=", ";", " ", "/"}
  <2> TAKE c \in D
  <2>1. CASE c \in {" ", "+", "%"}
    BY <1>2, <2>1
  <2>2. CASE c \in {"\\", ";", "&"}
    BY <1>2, <2>2
  <2>3. CASE c \in {"=", "\"", "<"}
    BY <1>2, <2>3
  <2> QED
    BY <2>1, <2>2, <2>3
<1>4. \A c, d \in D : Escaped[c] = Escaped[d] => c = d
  <2>1. \A d \in D : Escaped[d] = Escaped[" "] => d = " "
    BY <1>2
  <2>2. \A d \in D : Escaped[d] = Escaped["+"] => d = "+"
    BY <1>2
  <2>3. \A d \in D : Escaped[d] = Escaped["%"] => d = "%"
    BY <1>2
  <2>4. \A d \in D : Escaped[d] = Escaped["\\"] => d = "\\"
    BY <1>2
  <2>5. \A d \in D : Escaped[d] = Escaped[";"] => d = ";"
    BY <1>2
  <2>6. \A d \in D : Escaped[d] = Escaped["&"] => d = "&"
    BY <1>2
  <2>7. \A d \in D : Escaped[d] = Escaped["="] => d = "="
    BY <1>2
  <2>8. \A d \in D : Escaped[d] = Escaped["\""] => d = "\""
    BY <1>2
  <2>9. \A d \in D : Escaped[d] = Escaped["<"] => d = "<"
    BY <1>2
  <2> QED
    BY <2>1, <2>2, <2>3, <2>4, <2>5, <2>6, <2>7, <2>8, <2>9
<1>5. \A c \in DOMAIN Escaped : Escaped[c] \in Codes
  BY DEF Codes
<1>6. "%20" \in Codes
  BY <1>1, <1>2, <1>5
<1>7. DOMAIN Escaped \subseteq Characters /\ Codes \subseteq Characters
  BY DEF Characters
<1> HIDE DEF D
<1> QED
  BY <1>1, <1>2, <1>3, <1>4, <1>5, <1>6, <1>7 DEF D

\* A text is a sequence of characters, none of which is an escaped one.
LEMMA TextFacts ==
    ASSUME NEW t, IsText(t)
    PROVE  /\ Len(t) \in Nat /\ DOMAIN t = 1..Len(t) /\ t \in Seq(Characters)
           /\ \A i \in 1..Len(t) : t[i] \in Characters
           /\ \A i \in 1..Len(t), c \in DOMAIN Escaped : t[i] # Escaped[c]
<1>1. t \in Seq(Characters) /\ Len(t) \in Nat /\ DOMAIN t = 1..Len(t)
  BY DEF IsText
<1>2. \A i \in 1..Len(t), c \in DOMAIN Escaped : t[i] # Escaped[c]
  <2> TAKE i \in 1..Len(t), c \in DOMAIN Escaped
  <2>1. t[i] \in ToSet(t)
    BY <1>1 DEF ToSet
  <2> QED
    BY <2>1 DEF IsText, Codes
<1> QED
  BY <1>1, <1>2

\* A value that was encoded is a text with none of the separators.
LEMMA EncodedValue ==
    ASSUME NEW t, IsText(t)
    PROVE  /\ EncodeValue(t) \in Seq(Characters) /\ Len(EncodeValue(t)) = Len(t)
           /\ \A i \in 1..Len(t) : EncodeValue(t)[i] \notin {"&", "=", "%"}
<1>1. Len(t) \in Nat /\ DOMAIN t = 1..Len(t) /\ \A i \in 1..Len(t) : t[i] \in Characters
  BY TextFacts
<1> DEFINE e == EncodeValue(t)
<1>2. e = [i \in 1..Len(t) |-> IF t[i] = " " THEN "+"
                               ELSE IF t[i] \in DOMAIN Escaped THEN Escaped[t[i]] ELSE t[i]]
  BY <1>1 DEF EncodeValue
<1> HIDE DEF e
<1>3. ASSUME NEW i \in 1..Len(t)
      PROVE  e[i] \in Characters /\ e[i] \notin {"&", "=", "%"}
  <2>1. e[i] = IF t[i] = " " THEN "+"
               ELSE IF t[i] \in DOMAIN Escaped THEN Escaped[t[i]] ELSE t[i]
    BY <1>2
  <2>2. CASE t[i] = " "
    BY <2>1, <2>2, EscapesAre
  <2>3. CASE t[i] # " " /\ t[i] \in DOMAIN Escaped
    BY <2>1, <2>3, EscapesAre
  <2>4. CASE t[i] \notin DOMAIN Escaped
    <3>1. t[i] \notin {"&", "=", "%", " "}
      BY <2>4, EscapesAre
    <3> QED
      BY <1>1, <2>1, <2>4, <3>1
  <2> QED
    BY <2>2, <2>3, <2>4
<1>4. DOMAIN e = 1..Len(t) /\ e \in [1..Len(t) -> Characters]
  BY <1>2, <1>3
<1>5. e \in Seq(Characters) /\ Len(e) = Len(t)
  BY <1>1, <1>4
<1> QED
  BY <1>3, <1>5 DEF e

\* balde_urldecode gives back what the browser encoded.
LEMMA Decoded ==
    ASSUME NEW t, IsText(t)
    PROVE  UrlDecode(EncodeValue(t), Null) = t
<1>1. /\ Len(t) \in Nat /\ DOMAIN t = 1..Len(t) /\ t \in Seq(Characters)
      /\ \A i \in 1..Len(t) : t[i] \in Characters
      /\ \A i \in 1..Len(t), c \in DOMAIN Escaped : t[i] # Escaped[c]
  BY TextFacts
<1> DEFINE e == EncodeValue(t)
           u == [i \in DOMAIN e |-> IF e[i] = "+" THEN "%20" ELSE e[i]]
           w == [i \in DOMAIN u |->
                    IF \E c \in DOMAIN Escaped : Escaped[c] = u[i]
                    THEN CHOOSE c \in DOMAIN Escaped : Escaped[c] = u[i] ELSE u[i]]
<1>2. UrlDecode(EncodeValue(t), Null) = IF Contains(u, "%") THEN Null ELSE w
  BY DEF UrlDecode, Unescape
<1>3. DOMAIN e = 1..Len(t) /\ Len(e) = Len(t)
  BY <1>1, EncodedValue
<1>4. \A i \in 1..Len(t) : e[i] = IF t[i] = " " THEN "+"
                                 ELSE IF t[i] \in DOMAIN Escaped THEN Escaped[t[i]] ELSE t[i]
  BY <1>1 DEF EncodeValue
<1> HIDE DEF e
<1>5. DOMAIN u = 1..Len(t) /\ \A i \in 1..Len(t) : u[i] = IF e[i] = "+" THEN "%20" ELSE e[i]
  BY <1>3
<1>6. ASSUME NEW i \in 1..Len(t)
      PROVE  u[i] = IF t[i] \in DOMAIN Escaped THEN Escaped[t[i]] ELSE t[i]
  <2>1. CASE t[i] = " "
    BY <1>4, <1>5, <2>1, EscapesAre
  <2>2. CASE t[i] # " " /\ t[i] \in DOMAIN Escaped
    <3>1. e[i] = Escaped[t[i]] /\ e[i] # "+"
      BY <1>4, <2>2, EscapesAre
    <3> QED
      BY <1>5, <2>2, <3>1
  <2>3. CASE t[i] \notin DOMAIN Escaped
    <3>1. t[i] # " " /\ t[i] # "+"
      BY <2>3, EscapesAre
    <3>2. e[i] = t[i]
      BY <1>4, <2>3, <3>1
    <3> QED
      BY <1>5, <2>3, <3>1, <3>2
  <2> QED
    BY <2>1, <2>2, <2>3
<1> HIDE DEF u
<1>7. ~Contains(u, "%")
  <2>1. ASSUME NEW i \in 1..Len(t) PROVE u[i] # "%"
    <3>1. CASE t[i] \in DOMAIN Escaped
      BY <1>6, <3>1, EscapesAre
    <3>2. CASE t[i] \notin DOMAIN Escaped
      BY <1>6, <3>2, EscapesAre
    <3> QED
      BY <3>1, <3>2
  <2>2. Len(u) = Len(t)
    <3>1. u \in [1..Len(t) -> ToSet(u)]
      BY <1>5 DEF u, ToSet
    <3>2. u \in Seq(ToSet(u))
      BY <1>1, <3>1
    <3> QED
      BY <1>1, <1>5, <3>2
  <2> QED
    BY <2>1, <2>2 DEF Contains
<1>8. ASSUME NEW i \in 1..Len(t)
      PROVE  w[i] = t[i]
  <2>1. w[i] = IF \E c \in DOMAIN Escaped : Escaped[c] = u[i]
               THEN CHOOSE c \in DOMAIN Escaped : Escaped[c] = u[i] ELSE u[i]
    BY <1>5
  <2>2. CASE t[i] \in DOMAIN Escaped
    <3>1. u[i] = Escaped[t[i]]
      BY <1>6, <2>2
    <3>2. \A c \in DOMAIN Escaped : Escaped[c] = u[i] => c = t[i]
      BY <2>2, <3>1, EscapesAre
    <3> QED
      BY <2>1, <2>2, <3>1, <3>2
  <2>3. CASE t[i] \notin DOMAIN Escaped
    <3>1. u[i] = t[i]
      BY <1>6, <2>3
    <3> QED
      BY <1>1, <2>1, <3>1
  <2> QED
    BY <2>2, <2>3
<1>9. w = t
  <2>1. DOMAIN w = 1..Len(t) /\ w = [i \in DOMAIN w |-> w[i]]
    BY <1>5
  <2>2. t = [i \in DOMAIN t |-> t[i]]
    BY <1>1
  <2> HIDE DEF w
  <2> QED
    BY <1>1, <1>8, <2>1, <2>2
<1> QED
  BY <1>2, <1>7, <1>9

-----------------------------------------------------------------------------
(* A text that is split.                                                   *)

SplitStep(pieces, c, separator) ==
    IF c = separator THEN Append(pieces, <<>>)
    ELSE [pieces EXCEPT ![Len(pieces)] = Append(@, c)]

\* A character more leaves texts of texts.
LEMMA StepIsTyped ==
    ASSUME NEW S, NEW v \in Seq(Seq(S)), NEW c \in S, NEW separator
    PROVE  SplitStep(v, c, separator) \in Seq(Seq(S))
<1>1. CASE c = separator
  <2>1. <<>> \in Seq(S)
    OBVIOUS
  <2>2. Append(v, <<>>) \in Seq(Seq(S))
    BY <2>1
  <2> QED
    BY <1>1, <2>2 DEF SplitStep
<1>2. CASE c # separator
  <2>1. PICK n \in Nat : n = Len(v) /\ DOMAIN v = 1..n
    OBVIOUS
  <2> DEFINE w == [v EXCEPT ![n] = Append(@, c)]
  <2>2. \A i \in 1..n : w[i] \in Seq(S)
    <3> TAKE i \in 1..n
    <3>1. v[i] \in Seq(S)
      BY <2>1
    <3>2. Append(v[i], c) \in Seq(S)
      BY <3>1
    <3>3. w[i] = IF i = n THEN Append(v[i], c) ELSE v[i]
      BY <2>1
    <3> QED
      BY <3>1, <3>2, <3>3
  <2>3. DOMAIN w = 1..n /\ w = [i \in DOMAIN w |-> w[i]]
    BY <2>1
  <2>4. w \in Seq(Seq(S))
    <3> HIDE DEF w
    <3>1. w \in [1..n -> Seq(S)]
      BY <2>2, <2>3
    <3> QED
      BY <3>1
  <2> QED
    BY <1>2, <2>1, <2>4 DEF SplitStep
<1> QED
  BY <1>1, <1>2

\* What was split up to each character.
Runs(P, t, separator) ==
    /\ P[0] = << <<>> >>
    /\ \A k \in Nat : k + 1 <= Len(t) => P[k + 1] = SplitStep(P[k], t[k + 1], separator)

\* g_strsplit is its steps, one for each character.
LEMMA SplitRuns ==
    ASSUME NEW S, NEW t \in Seq(S), t # <<>>, NEW separator
    PROVE  \E P : Runs(P, t, separator) /\ Split(t, separator) = P[Len(t)]
<1> DEFINE n == Len(t)
           base == << <<>> >>
           A == Seq(Seq(S))
           g == [q \in A \X (1..n) |-> SplitStep(q[1], t[q[2]], separator)]
           Is(f) == f = [s \in SUBSET (DOMAIN t) |->
                            IF s = {} THEN base
                            ELSE SplitStep(f[s \ {Max(s)}], t[Max(s)], separator)]
<1>1. n \in Nat /\ DOMAIN t = 1..n /\ \A i \in 1..n : t[i] \in S
  OBVIOUS
<1>2. Split(t, separator) = (CHOOSE f : Is(f))[DOMAIN t]
  BY DEF Split, FoldLeft, MapThenFoldSet, SplitStep
<1>3. base \in A
  OBVIOUS
<1>4. \A a \in A, i \in 1..n : SplitStep(a, t[i], separator) \in A
  BY <1>1, StepIsTyped
<1> HIDE DEF A, n, base
<1>5. g \in [A \X (1..n) -> A] /\ \A a \in A, i \in 1..n : g[<<a, i>>] = SplitStep(a, t[i], separator)
  BY <1>4
<1> HIDE DEF g
<1>6. PICK f : FoldsBy(f, g, base, A, n)
  BY <1>1, <1>3, <1>5, FoldExists
<1>7. \A s \in SUBSET (1..n) : s # {} => Max(s) \in 1..n
  <2> TAKE s \in SUBSET (1..n)
  <2> SUFFICES ASSUME s # {} PROVE Max(s) \in 1..n
    OBVIOUS
  <2>1. Max(s) \in s
    BY <1>1, MaxOf
  <2> QED
    BY <2>1
<1>8. Is(f)
  <2> DEFINE h == [s \in SUBSET (DOMAIN t) |->
                    IF s = {} THEN base
                    ELSE SplitStep(f[s \ {Max(s)}], t[Max(s)], separator)]
  <2>1. ASSUME NEW s \in SUBSET (1..n)
        PROVE  f[s] = h[s]
    <3>1. h[s] = IF s = {} THEN base ELSE SplitStep(f[s \ {Max(s)}], t[Max(s)], separator)
      BY <1>1
    <3> HIDE DEF h
    <3>2. CASE s = {}
      BY <1>6, <3>1, <3>2 DEF FoldsBy
    <3>3. CASE s # {}
      <4>1. PICK i \in 1..n : i = Max(s)
        BY <1>7, <3>3
      <4>2. s \ {i} \in SUBSET (1..n)
        OBVIOUS
      <4>3. f[s \ {i}] \in A
        BY <1>6, <4>2 DEF FoldsBy
      <4>4. f[s] = g[<<f[s \ {i}], i>>]
        BY <1>6, <3>3, <4>1 DEF FoldsBy
      <4>5. f[s] = SplitStep(f[s \ {i}], t[i], separator)
        BY <1>5, <4>3, <4>4
      <4> QED
        BY <3>1, <3>3, <4>1, <4>5
    <3> QED
      BY <3>2, <3>3
  <2>2. DOMAIN f = SUBSET (1..n) /\ f = [s \in DOMAIN f |-> f[s]]
    BY <1>6 DEF FoldsBy
  <2>3. DOMAIN h = SUBSET (1..n) /\ h = [s \in DOMAIN h |-> h[s]]
    BY <1>1
  <2>4. f = h
    <3> HIDE DEF h
    <3> QED
      BY <2>1, <2>2, <2>3
  <2> QED
    BY <2>4
<1> HIDE DEF Is
<1>9. PICK h : h = CHOOSE k : Is(k)
  OBVIOUS
<1>10. Is(h)
  BY <1>8, <1>9
<1>11. \A s \in SUBSET (1..n) :
         h[s] = IF s = {} THEN base ELSE SplitStep(h[s \ {Max(s)}], t[Max(s)], separator)
  BY <1>1, <1>10 DEF Is
<1> DEFINE P == [k \in 0..n |-> h[1..k]]
<1>12. P[0] = base
  <2>1. 1..0 \in SUBSET (1..n) /\ 1..0 = {} /\ 0 \in 0..n
    BY <1>1
  <2> QED
    BY <1>11, <2>1
<1>13. ASSUME NEW k \in Nat, k + 1 <= n
       PROVE  P[k + 1] = SplitStep(P[k], t[k + 1], separator)
  <2>1. PICK s : s = 1..(k + 1)
    OBVIOUS
  <2>2. s \in SUBSET (1..n) /\ s # {} /\ Max(s) = k + 1 /\ s \ {k + 1} = 1..k
    BY <1>1, <1>13, <2>1, FoldGoes
  <2>3. h[s] = SplitStep(h[1..k], t[k + 1], separator)
    <3>1. h[s] = SplitStep(h[s \ {Max(s)}], t[Max(s)], separator)
      BY <1>11, <2>2
    <3> QED
      BY <2>2, <3>1
  <2>4. k \in 0..n /\ k + 1 \in 0..n
    BY <1>1, <1>13
  <2> QED
    BY <2>1, <2>3, <2>4
<1>14. P[n] = h[1..n]
  BY <1>1
<1>15. Split(t, separator) = P[n]
  BY <1>1, <1>2, <1>9, <1>14
<1> HIDE DEF P
<1>16. Runs(P, t, separator)
  BY <1>12, <1>13 DEF Runs, base, n
<1> QED
  BY <1>15, <1>16 DEF n

\* A step with a character that is no separator adds it to the last piece.
LEMMA PieceGrows ==
    ASSUME NEW S, NEW Q \in Seq(Seq(S)), NEW x \in Seq(S), NEW c \in S, NEW separator, c # separator
    PROVE  SplitStep(Append(Q, x), c, separator) = Append(Q, Append(x, c))
<1>1. PICK n \in Nat : n = Len(Q)
  OBVIOUS
<1>2. PICK v \in Seq(Seq(S)) : v = Append(Q, x)
  BY AppendProperties
<1>3. Len(v) = n + 1 /\ \A i \in 1..n : v[i] = Q[i]
  BY <1>1, <1>2, AppendProperties
<1>4. v[n + 1] = x
  BY <1>1, <1>2, AppendProperties
<1>5. PICK y \in Seq(S) : y = Append(x, c)
  BY AppendProperties
<1>6. PICK w \in Seq(Seq(S)) : w = Append(Q, y)
  BY AppendProperties
<1>7. Len(w) = n + 1 /\ w[n + 1] = y /\ \A i \in 1..n : w[i] = Q[i]
  BY <1>1, <1>6, AppendProperties
<1>8. SplitStep(v, c, separator) = [v EXCEPT ![n + 1] = y]
  BY <1>3, <1>4, <1>5 DEF SplitStep
<1>9. n + 1 \in 1..Len(v)
  BY <1>3
<1>10. PICK z : z = [v EXCEPT ![n + 1] = y]
  OBVIOUS
<1>11. PICK A, p : A = Seq(S) /\ p = n + 1
  OBVIOUS
<1>12. v \in Seq(A) /\ p \in 1..Len(v) /\ y \in A /\ w \in Seq(A) /\ z = [v EXCEPT ![p] = y]
  BY <1>9, <1>10, <1>11
<1>13. z \in Seq(A) /\ Len(z) = Len(v) /\ \A j \in 1..Len(v) : z[j] = IF j = p THEN y ELSE v[j]
  <2>1. /\ [v EXCEPT ![p] = y] \in Seq(A) /\ Len([v EXCEPT ![p] = y]) = Len(v)
        /\ \A j \in 1..Len(v) : [v EXCEPT ![p] = y][j] = IF j = p THEN y ELSE v[j]
    BY <1>12, ExceptSeq
  <2> QED
    BY <1>12, <2>1
<1>14. PICK m \in Nat : m = n + 1 /\ m = Len(v) /\ m = Len(w) /\ m = Len(z) /\ m = p
  BY <1>3, <1>7, <1>11, <1>13
<1>15. \A j \in 1..m : z[j] = w[j]
  <2> TAKE j \in 1..m
  <2>1. CASE j = m
    BY <1>7, <1>13, <1>14, <2>1
  <2>2. CASE j # m
    <3>1. j \in 1..n
      BY <1>14, <2>2
    <3> QED
      BY <1>3, <1>7, <1>13, <1>14, <2>2, <3>1
  <2> QED
    BY <2>1, <2>2
<1>16. z = w
  BY <1>12, <1>13, <1>14, <1>15, SeqEqual
<1> QED
  BY <1>2, <1>5, <1>6, <1>8, <1>10, <1>16

\* w, with no separator in it, stands in t behind k.
Stands(t, k, w) == k + Len(w) <= Len(t) /\ \A i \in 1..Len(w) : t[k + i] = w[i]
NoneIn(w, separator) == \A i \in 1..Len(w) : w[i] # separator

\* A word with no separator grows the last piece.
LEMMA RunsAlong ==
    ASSUME NEW S, NEW t \in Seq(S), NEW P, NEW separator, Runs(P, t, separator), NEW k \in Nat,
           NEW w \in Seq(S), Stands(t, k, w), NoneIn(w, separator),
           NEW Q \in Seq(Seq(S)), NEW u \in Seq(S), P[k] = Append(Q, u)
    PROVE  P[k + Len(w)] = Append(Q, u \o w)
<1>1. PICK n \in Nat, L \in Nat : n = Len(w) /\ L = Len(t) /\ k + n <= L
  BY DEF Stands
<1> DEFINE T == {m \in Nat : m <= n => P[k + m] = Append(Q, u \o SubSeq(w, 1, m))}
<1>2. 0 \in T
  <2>1. SubSeq(w, 1, 0) = <<>>
    BY SubSeqEmpty
  <2>2. u \o <<>> = u
    BY ConcatEmptySeq
  <2> QED
    BY <2>1, <2>2
<1>3. ASSUME NEW m \in Nat, m \in T
      PROVE  m + 1 \in T
  <2> SUFFICES ASSUME m + 1 <= n
               PROVE  P[k + (m + 1)] = Append(Q, u \o SubSeq(w, 1, m + 1))
    OBVIOUS
  <2>1. PICK j \in Nat : j = k + m /\ j + 1 = k + (m + 1) /\ j + 1 <= L
    BY <1>1
  <2>2. P[j] = Append(Q, u \o SubSeq(w, 1, m))
    BY <1>3, <2>1
  <2>3. m + 1 \in 1..n
    OBVIOUS
  <2>4. PICK c \in S : c = w[m + 1] /\ c # separator
    BY <1>1, <2>3 DEF NoneIn
  <2>5. t[j + 1] = c
    BY <1>1, <2>1, <2>3, <2>4 DEF Stands
  <2>6. P[j + 1] = SplitStep(P[j], c, separator)
    BY <1>1, <2>1, <2>5 DEF Runs
  <2>7. PICK s : s = SubSeq(w, 1, m)
    OBVIOUS
  <2>8. s \in Seq(S)
    <3>1. \A i \in 1..m : w[i] \in S
      BY <1>1, <2>3
    <3> QED
      BY <2>7, <3>1, SubSeqProperties
  <2>9. PICK x \in Seq(S) : x = u \o s
    BY <2>8, ConcatProperties
  <2>10. P[j + 1] = Append(Q, Append(x, c))
    <3>1. P[j + 1] = SplitStep(Append(Q, x), c, separator)
      BY <2>2, <2>6, <2>7, <2>9
    <3> QED
      BY <2>4, <3>1, PieceGrows
  <2>11. SubSeq(w, 1, m + 1) = s \o <<c>>
    <3>1. (m + 1) - 1 = m /\ 1 \in 1..n /\ m + 1 \in 1..n
      BY <2>3
    <3> QED
      BY <1>1, <2>4, <2>7, <3>1, SubSeqRecursiveSecond
  <2>12. <<c>> \in Seq(S)
    OBVIOUS
  <2>13. u \o (s \o <<c>>) = (u \o s) \o <<c>>
    BY <2>8, <2>12, ConcatAssociative
  <2>14. Append(x, c) = x \o <<c>>
    BY AppendIsConcat
  <2> QED
    BY <2>1, <2>9, <2>10, <2>11, <2>13, <2>14
<1>4. n \in T
  <2> HIDE DEF T
  <2> QED
    BY <1>2, <1>3, Induct
<1>5. SubSeq(w, 1, n) = w
  BY <1>1, SubSeqFull
<1>6. P[k + n] = Append(Q, u \o SubSeq(w, 1, n))
  BY <1>4
<1> QED
  BY <1>1, <1>5, <1>6

\* The last piece is u when w begins, and has w at its end when w ends.
Reads(S, t, P, separator, k, w, Q, u, e) ==
    /\ t \in Seq(S) /\ Runs(P, t, separator) /\ k \in Nat
    /\ w \in Seq(S) /\ Stands(t, k, w) /\ NoneIn(w, separator)
    /\ Q \in Seq(Seq(S)) /\ u \in Seq(S) /\ P[k] = Append(Q, u) /\ e = k + Len(w)
LastGrew(P, e, Q, u, w) == P[e] = Append(Q, u \o w)

\* The same, of named facts.
LEMMA RunsOn ==
    ASSUME NEW S, NEW text, NEW P, NEW separator, NEW from, NEW word, NEW before, NEW last, NEW e,
           Reads(S, text, P, separator, from, word, before, last, e)
    PROVE  LastGrew(P, e, before, last, word)
<1>0. PICK t \in Seq(S), k \in Nat, w \in Seq(S), Q \in Seq(Seq(S)), u \in Seq(S) :
          /\ t = text /\ k = from /\ w = word /\ Q = before /\ u = last
          /\ Runs(P, t, separator) /\ Stands(t, k, w) /\ NoneIn(w, separator)
          /\ P[k] = Append(Q, u) /\ e = k + Len(w)
  BY DEF Reads
<1>1. PICK n \in Nat, L \in Nat : n = Len(w) /\ L = Len(t) /\ k + n <= L
  BY <1>0 DEF Stands
<1> DEFINE T == {m \in Nat : m <= n => P[k + m] = Append(Q, u \o SubSeq(w, 1, m))}
<1>2. 0 \in T
  <2>1. SubSeq(w, 1, 0) = <<>>
    BY SubSeqEmpty
  <2>2. u \o <<>> = u
    BY ConcatEmptySeq
  <2> QED
    BY <1>0, <2>1, <2>2
<1>3. ASSUME NEW m \in Nat, m \in T
      PROVE  m + 1 \in T
  <2> SUFFICES ASSUME m + 1 <= n
               PROVE  P[k + (m + 1)] = Append(Q, u \o SubSeq(w, 1, m + 1))
    OBVIOUS
  <2>1. PICK j \in Nat : j = k + m /\ j + 1 = k + (m + 1) /\ j + 1 <= L
    BY <1>1
  <2>2. P[j] = Append(Q, u \o SubSeq(w, 1, m))
    BY <1>3, <2>1
  <2>3. m + 1 \in 1..n
    OBVIOUS
  <2>4. PICK c \in S : c = w[m + 1] /\ c # separator
    BY <1>0, <1>1, <2>3 DEF NoneIn
  <2>5. t[j + 1] = c
    BY <1>1, <2>1, <2>3, <2>4, <1>0 DEF Stands
  <2>6. P[j + 1] = SplitStep(P[j], c, separator)
    BY <1>1, <2>1, <2>5, <1>0 DEF Runs
  <2>7. PICK s : s = SubSeq(w, 1, m)
    OBVIOUS
  <2>8. s \in Seq(S)
    <3>1. \A i \in 1..m : w[i] \in S
      BY <1>1, <2>3
    <3> QED
      BY <2>7, <3>1, SubSeqProperties
  <2>9. PICK x \in Seq(S) : x = u \o s
    BY <2>8, ConcatProperties
  <2>10. P[j + 1] = Append(Q, Append(x, c))
    <3>1. P[j + 1] = SplitStep(Append(Q, x), c, separator)
      BY <2>2, <2>6, <2>7, <2>9
    <3> QED
      BY <2>4, <3>1, PieceGrows
  <2>11. SubSeq(w, 1, m + 1) = s \o <<c>>
    <3>1. (m + 1) - 1 = m /\ 1 \in 1..n /\ m + 1 \in 1..n
      BY <2>3
    <3> QED
      BY <1>1, <2>4, <2>7, <3>1, SubSeqRecursiveSecond
  <2>12. <<c>> \in Seq(S)
    OBVIOUS
  <2>13. u \o (s \o <<c>>) = (u \o s) \o <<c>>
    BY <2>8, <2>12, ConcatAssociative
  <2>14. Append(x, c) = x \o <<c>>
    BY AppendIsConcat
  <2> QED
    BY <2>1, <2>9, <2>10, <2>11, <2>13, <2>14
<1>4. n \in T
  <2> HIDE DEF T
  <2> QED
    BY <1>2, <1>3, Induct
<1>5. SubSeq(w, 1, n) = w
  BY <1>1, SubSeqFull
<1>6. P[k + n] = Append(Q, u \o SubSeq(w, 1, n))
  BY <1>4
<1> QED
  BY <1>0, <1>1, <1>5, <1>6 DEF LastGrew

\* A separator begins a piece.
LEMMA RunsPast ==
    ASSUME NEW S, NEW t \in Seq(S), NEW P, NEW separator, Runs(P, t, separator), NEW k \in Nat,
           k + 1 <= Len(t), t[k + 1] = separator
    PROVE  P[k + 1] = Append(P[k], <<>>)
BY DEF Runs, SplitStep

\* The first piece stays when there is another.
LEMMA FirstStays ==
    ASSUME NEW S, NEW t \in Seq(S), NEW P, NEW separator, Runs(P, t, separator), NEW k \in Nat,
           NEW u, P[k] \in Seq(Seq(S)), Len(P[k]) > 1, P[k][1] = u, k <= Len(t)
    PROVE  P[Len(t)][1] = u
<1>1. PICK L \in Nat : L = Len(t)
  OBVIOUS
<1> DEFINE T == {m \in Nat : k + m <= L => /\ P[k + m] \in Seq(Seq(S)) /\ Len(P[k + m]) > 1
                                           /\ P[k + m][1] = u}
<1>2. 0 \in T
  OBVIOUS
<1>3. ASSUME NEW m \in Nat, m \in T
      PROVE  m + 1 \in T
  <2> SUFFICES ASSUME k + (m + 1) <= L
               PROVE  /\ P[k + (m + 1)] \in Seq(Seq(S)) /\ Len(P[k + (m + 1)]) > 1
                      /\ P[k + (m + 1)][1] = u
    OBVIOUS
  <2>1. PICK j \in Nat : j = k + m /\ j + 1 = k + (m + 1) /\ j + 1 <= L
    OBVIOUS
  <2>2. PICK v \in Seq(Seq(S)) : v = P[j] /\ Len(v) > 1 /\ v[1] = u
    BY <1>3, <2>1
  <2>3. PICK c \in S : c = t[j + 1]
    BY <1>1, <2>1
  <2>4. P[j + 1] = SplitStep(v, c, separator)
    BY <1>1, <2>1, <2>2, <2>3 DEF Runs
  <2>5. P[j + 1] \in Seq(Seq(S))
    BY <2>4, StepIsTyped
  <2>6. CASE c = separator
    <3>1. <<>> \in Seq(S)
      OBVIOUS
    <3>2. PICK e \in Seq(S) : e = <<>>
      BY <3>1, Zenon
    <3>3. P[j + 1] = Append(v, e)
      BY <2>4, <2>6, <3>2 DEF SplitStep
    <3>4. PICK n \in Nat : n = Len(v) /\ n > 1 /\ 1 \in 1..n
      BY <2>2
    <3>5. Len(P[j + 1]) = Len(v) + 1 /\ \A i \in 1..Len(v) : P[j + 1][i] = v[i]
      BY <3>3, AppendProperties
    <3>6. PICK y : y = P[j + 1]
      OBVIOUS
    <3>7. Len(y) = n + 1 /\ \A i \in 1..n : y[i] = v[i]
      BY <3>4, <3>5, <3>6
    <3>8. Len(y) > 1
      BY <3>4, <3>7
    <3>9. y[1] = u
      BY <2>2, <3>4, <3>7
    <3> QED
      BY <2>1, <2>5, <3>6, <3>8, <3>9
  <2>7. CASE c # separator
    <3>1. PICK n \in Nat : n = Len(v) /\ n \in 1..n /\ 1 \in 1..n /\ n # 1
      BY <2>2
    <3>2. PICK e \in Seq(S) : e = Append(v[n], c)
      <4>1. PICK x \in Seq(S) : x = v[n]
        BY <3>1
      <4> QED
        BY <4>1, AppendProperties
    <3>3. P[j + 1] = [v EXCEPT ![n] = e]
      BY <2>4, <2>7, <3>1, <3>2 DEF SplitStep
    <3>4. Len(P[j + 1]) = n /\ P[j + 1][1] = v[1]
      BY <3>1, <3>3, ExceptSeq
    <3> QED
      BY <2>1, <2>2, <2>5, <3>1, <3>4
  <2> QED
    BY <2>6, <2>7
<1>4. PICK m \in Nat : k + m = L
  <2>1. L - k \in Nat /\ k + (L - k) = L
    BY <1>1
  <2> QED
    BY <2>1
<1>5. m \in T
  <2> HIDE DEF T
  <2> QED
    BY <1>2, <1>3, Induct
<1> QED
  BY <1>1, <1>4, <1>5

\* Two texts with a separator between them, the first of which has none.
LEMMA Parted ==
    ASSUME NEW S, NEW a \in Seq(S), NEW b \in Seq(S), NEW c \in S
    PROVE  /\ a \o <<c>> \o b \in Seq(S) /\ Len(a \o <<c>> \o b) = Len(a) + 1 + Len(b)
           /\ \A i \in 1..Len(a) : (a \o <<c>> \o b)[i] = a[i]
           /\ (a \o <<c>> \o b)[Len(a) + 1] = c
           /\ \A i \in 1..Len(b) : (a \o <<c>> \o b)[Len(a) + 1 + i] = b[i]
<1>1. <<c>> \in Seq(S) /\ Len(<<c>>) = 1 /\ <<c>>[1] = c
  OBVIOUS
<1>2. PICK n \in Nat, m \in Nat : n = Len(a) /\ m = Len(b)
  OBVIOUS
<1>3. PICK x : x = a \o <<c>>
  OBVIOUS
<1>4. /\ x \in Seq(S) /\ Len(x) = n + 1
      /\ \A i \in 1..(n + 1) : x[i] = IF i <= n THEN a[i] ELSE <<c>>[i - n]
  BY <1>1, <1>2, <1>3, ConcatProperties
<1>5. x[n + 1] = c
  <2>1. n + 1 \in 1..(n + 1) /\ ~(n + 1 <= n) /\ (n + 1) - n = 1
    OBVIOUS
  <2> QED
    BY <1>1, <1>4, <2>1
<1>6. \A i \in 1..n : x[i] = a[i]
  BY <1>4
<1>7. PICK y : y = x \o b
  OBVIOUS
<1>8. /\ y \in Seq(S) /\ Len(y) = n + 1 + m
      /\ \A i \in 1..(n + 1 + m) : y[i] = IF i <= n + 1 THEN x[i] ELSE b[i - (n + 1)]
  <2>1. /\ y \in Seq(S) /\ Len(y) = Len(x) + Len(b)
        /\ \A i \in 1..(Len(x) + Len(b)) : y[i] = IF i <= Len(x) THEN x[i] ELSE b[i - Len(x)]
    BY <1>4, <1>7, ConcatProperties
  <2>2. Len(x) = n + 1 /\ Len(b) = m
    BY <1>2, <1>4
  <2> QED
    BY <2>1, <2>2
<1>9. \A i \in 1..n : y[i] = a[i]
  BY <1>6, <1>8
<1>10. y[n + 1] = c
  BY <1>5, <1>8
<1>11. \A i \in 1..m : y[n + 1 + i] = b[i]
  <2> TAKE i \in 1..m
  <2>1. n + 1 + i \in 1..(n + 1 + m) /\ ~(n + 1 + i <= n + 1) /\ (n + 1 + i) - (n + 1) = i
    OBVIOUS
  <2> QED
    BY <1>8, <2>1
<1> QED
  BY <1>2, <1>3, <1>7, <1>8, <1>9, <1>10, <1>11

\* A limit of two splits at the first separator only.
LEMMA TwoPieces ==
    ASSUME NEW S, NEW a \in Seq(S), NEW b \in Seq(S), NEW c \in S, NoneIn(a, c)
    PROVE  SplitInTwo(a \o <<c>> \o b, c) = <<a, b>>
<1>1. PICK n \in Nat, m \in Nat : n = Len(a) /\ m = Len(b)
  OBVIOUS
<1>2. PICK t : t = a \o <<c>> \o b
  OBVIOUS
<1>3. /\ t \in Seq(S) /\ Len(t) = n + 1 + m /\ t[n + 1] = c
      /\ \A i \in 1..n : t[i] = a[i]
      /\ \A i \in 1..m : t[n + 1 + i] = b[i]
  BY <1>1, <1>2, Parted
<1>4. DOMAIN t = 1..(n + 1 + m) /\ n + 1 \in 1..(n + 1 + m)
  BY <1>3
<1>5. Contains(t, c)
  BY <1>3, <1>4 DEF Contains
<1> DEFINE Is(j) == t[j] = c /\ \A k \in 1..(j - 1) : t[k] # c
<1>6. \A i \in 1..n : t[i] # c
  BY <1>1, <1>3 DEF NoneIn
<1>7. Is(n + 1)
  <2>1. (n + 1) - 1 = n
    OBVIOUS
  <2> QED
    BY <1>3, <1>6, <2>1
<1>8. ASSUME NEW j \in DOMAIN t, Is(j)
      PROVE  j = n + 1
  <2>1. j \in 1..(n + 1 + m) /\ ~(j \in 1..n)
    BY <1>4, <1>6, <1>8
  <2>2. ~(n + 1 \in 1..(j - 1))
    BY <1>3, <1>8
  <2> QED
    BY <2>1, <2>2
<1>9. (CHOOSE j \in DOMAIN t : Is(j)) = n + 1
  <2> HIDE DEF Is
  <2> QED
    BY <1>4, <1>7, <1>8
<1>11. PICK l \in Nat, p \in Nat, q \in Nat : l = n + 1 + m /\ p = n + 1 /\ q = n + 2
  OBVIOUS
<1>10. p = CHOOSE j \in DOMAIN t : t[j] = c /\ \A k \in 1..(j - 1) : t[k] # c
  BY <1>9, <1>11, Zenon
<1>12. SplitInTwo(t, c) = <<SubSeq(t, 1, n), SubSeq(t, q, l)>>
  <2>1. p - 1 = n /\ p + 1 = q /\ Len(t) = l
    BY <1>3, <1>11
  <2>2. SplitInTwo(t, c) = <<SubSeq(t, 1, p - 1), SubSeq(t, p + 1, Len(t))>>
    BY <1>5, <1>10, Zenon DEF SplitInTwo
  <2> QED
    BY <2>1, <2>2
<1>13. SubSeq(t, 1, n) = a
  <2>1. \A i \in 1..n : t[i] \in S
    BY <1>1, <1>3
  <2>2. PICK s : s = SubSeq(t, 1, n)
    OBVIOUS
  <2>3. s \in Seq(S) /\ Len(s) = n /\ \A i \in 1..n : s[i] = t[i]
    <3>1. /\ s \in Seq(S) /\ Len(s) = IF 1 <= n THEN n - 1 + 1 ELSE 0
          /\ \A i \in 1..(n - 1 + 1) : s[i] = t[1 + i - 1]
      BY <2>1, <2>2, SubSeqProperties
    <3>2. (n - 1) + 1 = n /\ \A i \in 1..n : (1 + i) - 1 = i
      OBVIOUS
    <3> QED
      BY <3>1, <3>2
  <2>4. \A i \in 1..n : s[i] = a[i]
    BY <1>3, <2>3
  <2> QED
    BY <1>1, <2>2, <2>3, <2>4, SeqEqual
<1>14. SubSeq(t, q, l) = b
  <2>1. \A i \in q..l : t[i] \in S
    BY <1>3, <1>11
  <2>2. PICK s : s = SubSeq(t, q, l)
    OBVIOUS
  <2>3. s \in Seq(S) /\ Len(s) = m /\ \A i \in 1..m : s[i] = t[n + 1 + i]
    <3>1. /\ s \in Seq(S) /\ Len(s) = IF q <= l THEN l - q + 1 ELSE 0
          /\ \A i \in 1..(l - q + 1) : s[i] = t[q + i - 1]
      BY <2>1, <2>2, SubSeqProperties
    <3>2. (l - q) + 1 = m /\ (q <= l <=> m > 0)
      BY <1>11
    <3>3. s \in Seq(S) /\ Len(s) = m
      BY <3>1, <3>2
    <3>4. ASSUME NEW i \in 1..m
          PROVE  s[i] = t[n + 1 + i]
      <4>1. i \in 1..(l - q + 1)
        BY <3>2
      <4>2. s[i] = t[q + i - 1]
        BY <3>1, <4>1
      <4>3. q + i - 1 = n + 1 + i
        BY <1>11
      <4> QED
        BY <4>2, <4>3
    <3> QED
      BY <3>3, <3>4
  <2>4. \A i \in 1..m : s[i] = b[i]
    BY <1>3, <2>3
  <2> QED
    BY <1>1, <2>2, <2>3, <2>4, SeqEqual
<1> QED
  BY <1>2, <1>12, <1>13, <1>14

-----------------------------------------------------------------------------
(* A form.                                                                 *)

PairText(p) == EncodeValue(p[1]) \o <<"=">> \o EncodeValue(p[2])
IsPair(p) == p = <<p[1], p[2]>> /\ IsText(p[1]) /\ IsText(p[2])

\* A key and a value are read as they were encoded.
LEMMA PairParsed ==
    ASSUME NEW p, IsPair(p), NEW table
    PROVE  ParsePair(table, PairText(p), Null) = Replace(table, p[1], p[2])
<1>1. PICK a \in Seq(Characters), b \in Seq(Characters) : a = EncodeValue(p[1]) /\ b = EncodeValue(p[2])
  BY EncodedValue DEF IsPair
<1>2. NoneIn(a, "=")
  BY <1>1, EncodedValue DEF IsPair, NoneIn
<1>3. "=" \in Characters
  BY EscapesAre
<1>4. SplitInTwo(PairText(p), "=") = <<a, b>>
  BY <1>1, <1>2, <1>3, TwoPieces DEF PairText
<1>5. UrlDecode(a, Null) = p[1] /\ UrlDecode(b, Null) = p[2]
  BY <1>1, Decoded DEF IsPair
<1>6. p[1] # Null /\ p[2] # Null
  BY InputsAssumption DEF IsPair, IsText
<1>7. Len(<<a, b>>) = 2 /\ <<a, b>>[1] = a /\ <<a, b>>[2] = b
  OBVIOUS
<1> QED
  BY <1>4, <1>5, <1>6, <1>7 DEF ParsePair

\* A pair is a text, not an empty one, with no "&".
LEMMA PairTextIs ==
    ASSUME NEW p, IsPair(p)
    PROVE  /\ PairText(p) \in Seq(Characters) /\ NoneIn(PairText(p), "&")
           /\ Len(PairText(p)) > 0
<1>1. PICK a \in Seq(Characters), b \in Seq(Characters) : a = EncodeValue(p[1]) /\ b = EncodeValue(p[2])
  BY EncodedValue DEF IsPair
<1>2. PICK n \in Nat, m \in Nat : n = Len(a) /\ m = Len(b)
  OBVIOUS
<1>3. PICK t : t = PairText(p)
  OBVIOUS
<1>4. /\ t \in Seq(Characters) /\ Len(t) = n + 1 + m /\ t[n + 1] = "="
      /\ \A i \in 1..n : t[i] = a[i]
      /\ \A i \in 1..m : t[n + 1 + i] = b[i]
  <2>1. PICK c \in Characters : c = "="
    BY EscapesAre
  <2>2. t = a \o <<c>> \o b
    BY <1>1, <1>3, <2>1 DEF PairText
  <2> QED
    BY <1>2, <2>1, <2>2, Parted
<1>5. (\A i \in 1..n : a[i] # "&") /\ (\A i \in 1..m : b[i] # "&")
  BY <1>1, <1>2, EncodedValue DEF IsPair
<1>6. ASSUME NEW i \in 1..Len(t)
      PROVE  t[i] # "&"
  <2>1. CASE i <= n
    <3>1. i \in 1..n
      BY <1>4, <2>1
    <3> QED
      BY <1>4, <1>5, <3>1
  <2>2. CASE i = n + 1
    BY <1>4, <2>2
  <2>3. CASE i > n + 1
    <3>1. PICK k \in 1..m : i = n + 1 + k
      <4>1. i - (n + 1) \in 1..m /\ i = n + 1 + (i - (n + 1))
        BY <1>4, <2>3
      <4> QED
        BY <4>1
    <3> QED
      BY <1>4, <1>5, <3>1
  <2> QED
    BY <1>4, <2>1, <2>2, <2>3
<1> QED
  BY <1>3, <1>4, <1>6 DEF NoneIn
-----------------------------------------------------------------------------
(* The pieces of a text.                                                   *)

\* The pieces are texts at each step.
LEMMA RunsTyped ==
    ASSUME NEW S, NEW t \in Seq(S), NEW P, NEW separator, Runs(P, t, separator),
           NEW k \in Nat, k <= Len(t)
    PROVE  P[k] \in Seq(Seq(S))
<1> DEFINE T == {n \in Nat : n <= Len(t) => P[n] \in Seq(Seq(S))}
<1>1. 0 \in T
  <2>1. P[0] = << <<>> >>
    BY DEF Runs
  <2>2. << <<>> >> \in Seq(Seq(S))
    OBVIOUS
  <2>3. 0 \in Nat /\ P[0] \in Seq(Seq(S))
    BY <2>1, <2>2
  <2> QED
    BY <2>3
<1>2. ASSUME NEW n \in Nat, n \in T
      PROVE  n + 1 \in T
  <2> SUFFICES ASSUME n + 1 <= Len(t) PROVE P[n + 1] \in Seq(Seq(S))
    OBVIOUS
  <2>1. P[n] \in Seq(Seq(S)) /\ n + 1 \in 1..Len(t)
    BY <1>2
  <2>2. PICK c \in S : c = t[n + 1]
    BY <2>1
  <2>3. P[n + 1] = SplitStep(P[n], c, separator)
    BY <2>2 DEF Runs
  <2> QED
    BY <2>1, <2>3, StepIsTyped
<1>3. k \in T
  <2> HIDE DEF T
  <2> QED
    BY <1>1, <1>2, Induct
<1> QED
  BY <1>3

\* A text with no separator is its only piece.
LEMMA SplitOne ==
    ASSUME NEW S, NEW w \in Seq(S), w # <<>>, NEW separator, NoneIn(w, separator)
    PROVE  Split(w, separator) = <<w>>
<1>1. PICK P : Runs(P, w, separator) /\ Split(w, separator) = P[Len(w)]
  BY SplitRuns
<1>2. PICK Q \in Seq(Seq(S)), u \in Seq(S) : Q = <<>> /\ u = <<>>
  <2>1. <<>> \in Seq(Seq(S)) /\ <<>> \in Seq(S)
    OBVIOUS
  <2> QED
    BY <2>1
<1>3. PICK k \in Nat : k = 0
  OBVIOUS
<1>4. P[k] = Append(Q, u)
  BY <1>1, <1>2, <1>3 DEF Runs
<1>5. Stands(w, k, w)
  BY <1>3 DEF Stands
<1>6. PICK e \in Nat : e = k + Len(w) /\ e = Len(w)
  BY <1>3
<1>7. P[e] = Append(Q, u \o w)
  <2>1. Reads(S, w, P, separator, k, w, Q, u, e)
    BY <1>1, <1>2, <1>3, <1>4, <1>5, <1>6 DEF Reads
  <2> QED
    BY <2>1, RunsOn DEF LastGrew
<1>9. u \o w = w
  BY <1>2, ConcatEmptySeq
<1>8. Append(Q, w) = <<w>>
  BY <1>2
<1> QED
  BY <1>1, <1>6, <1>7, <1>8, <1>9

\* What comes after a last separator is one piece more.
LEMMA SplitMore ==
    ASSUME NEW S, NEW x \in Seq(S), x # <<>>, NEW c \in S, NEW w \in Seq(S), NoneIn(w, c)
    PROVE  /\ Split(x, c) \in Seq(Seq(S))
           /\ Split(x \o <<c>> \o w, c) = Append(Split(x, c), w)
<1>1. PICK n \in Nat, m \in Nat : n = Len(x) /\ m = Len(w)
  OBVIOUS
<1>2. PICK t : t = x \o <<c>> \o w
  OBVIOUS
<1>3. /\ t \in Seq(S) /\ Len(t) = n + 1 + m /\ t[n + 1] = c
      /\ \A i \in 1..n : t[i] = x[i]
      /\ \A i \in 1..m : t[n + 1 + i] = w[i]
  BY <1>1, <1>2, Parted
<1>4. t # <<>>
  BY <1>3
<1>5. PICK P : Runs(P, t, c) /\ Split(t, c) = P[Len(t)]
  BY <1>3, <1>4, SplitRuns
<1>6. PICK R : Runs(R, x, c) /\ Split(x, c) = R[Len(x)]
  BY SplitRuns
<1> DEFINE T == {k \in Nat : k <= n => P[k] = R[k]}
<1>7. 0 \in T
  BY <1>5, <1>6 DEF Runs
<1>8. ASSUME NEW k \in Nat, k \in T
      PROVE  k + 1 \in T
  <2> SUFFICES ASSUME k + 1 <= n PROVE P[k + 1] = R[k + 1]
    OBVIOUS
  <2>1. P[k] = R[k] /\ k + 1 \in 1..n /\ k + 1 <= Len(t)
    BY <1>3, <1>8
  <2>2. t[k + 1] = x[k + 1]
    BY <1>3, <2>1
  <2>3. P[k + 1] = SplitStep(P[k], t[k + 1], c)
    BY <1>5, <2>1 DEF Runs
  <2>4. R[k + 1] = SplitStep(R[k], x[k + 1], c)
    BY <1>1, <1>6 DEF Runs
  <2> QED
    BY <2>1, <2>2, <2>3, <2>4
<1>9. P[n] = R[n]
  <2>1. n \in T
    <3> HIDE DEF T
    <3> QED
      BY <1>7, <1>8, Induct
  <2> QED
    BY <2>1
<1>10. PICK Q \in Seq(Seq(S)) : Q = Split(x, c) /\ Q = P[n]
  <2>1. R[n] \in Seq(Seq(S))
    BY <1>1, <1>6, RunsTyped
  <2> QED
    BY <1>1, <1>6, <1>9, <2>1
<1>11. P[n + 1] = Append(Q, <<>>)
  <2>1. n + 1 <= Len(t)
    BY <1>3
  <2> QED
    BY <1>1, <1>3, <1>5, <1>10, <2>1 DEF Runs, SplitStep
<1>12. PICK u \in Seq(S) : u = <<>>
  <2>1. <<>> \in Seq(S)
    OBVIOUS
  <2> QED
    BY <2>1
<1>13. PICK k \in Nat : k = n + 1
  OBVIOUS
<1>14. Stands(t, k, w)
  BY <1>1, <1>3, <1>13 DEF Stands
<1>15. P[k] = Append(Q, u)
  BY <1>11, <1>12, <1>13
<1>16. PICK e \in Nat : e = k + Len(w) /\ e = Len(t)
  BY <1>1, <1>3, <1>13
<1>17. P[e] = Append(Q, w)
  <2>1. Reads(S, t, P, c, k, w, Q, u, e)
    BY <1>3, <1>5, <1>10, <1>12, <1>13, <1>14, <1>15, <1>16 DEF Reads
  <2>2. u \o w = w
    BY <1>12, ConcatEmptySeq
  <2>3. LastGrew(P, e, Q, u, w)
    BY <2>1, RunsOn
  <2> QED
    BY <2>2, <2>3 DEF LastGrew
<1> QED
  BY <1>2, <1>5, <1>10, <1>16, <1>17

\* The first piece ends at the first separator.
LEMMA SplitFirst ==
    ASSUME NEW S, NEW w \in Seq(S), NEW c \in S, NoneIn(w, c), NEW r \in Seq(S)
    PROVE  Split(w \o <<c>> \o r, c)[1] = w
<1>1. PICK n \in Nat, m \in Nat : n = Len(w) /\ m = Len(r)
  OBVIOUS
<1>2. PICK t : t = w \o <<c>> \o r
  OBVIOUS
<1>3. /\ t \in Seq(S) /\ Len(t) = n + 1 + m /\ t[n + 1] = c
      /\ \A i \in 1..n : t[i] = w[i]
  BY <1>1, <1>2, Parted
<1>4. t # <<>>
  BY <1>3
<1>5. PICK P : Runs(P, t, c) /\ Split(t, c) = P[Len(t)]
  BY <1>3, <1>4, SplitRuns
<1>6. PICK Q \in Seq(Seq(S)), u \in Seq(S) : Q = <<>> /\ u = <<>>
  <2>1. <<>> \in Seq(Seq(S)) /\ <<>> \in Seq(S)
    OBVIOUS
  <2> QED
    BY <2>1
<1>7. PICK k \in Nat : k = 0
  OBVIOUS
<1>8. P[k] = Append(Q, u)
  BY <1>5, <1>6, <1>7 DEF Runs
<1>9. Stands(t, k, w)
  BY <1>1, <1>3, <1>7 DEF Stands
<1>10. n = k + Len(w)
  BY <1>1, <1>7
<1>11. P[n] = <<w>>
  <2>1. u \o w = w
    BY <1>6, ConcatEmptySeq
  <2>2. Append(Q, w) = <<w>>
    BY <1>6
  <2>3. Reads(S, t, P, c, k, w, Q, u, n)
    BY <1>3, <1>5, <1>6, <1>7, <1>8, <1>9, <1>10 DEF Reads
  <2>4. LastGrew(P, n, Q, u, w)
    BY <2>3, RunsOn
  <2> QED
    BY <2>1, <2>2, <2>4 DEF LastGrew
<1>12. P[n + 1] = Append(<<w>>, <<>>)
  <2>1. n + 1 <= Len(t)
    BY <1>3
  <2> QED
    BY <1>3, <1>5, <1>11, <2>1, RunsPast
<1>13. PICK x, y : x = <<w>> /\ y = <<>>
  OBVIOUS
<1>14. PICK l \in Nat : l = n + 1 /\ l <= Len(t)
  BY <1>3
<1>15. P[l] \in Seq(Seq(S)) /\ Len(P[l]) > 1 /\ P[l][1] = w
  <2>1. P[l] \in Seq(Seq(S))
    BY <1>3, <1>5, <1>14, RunsTyped
  <2>2. x \in Seq(Seq(S)) /\ Len(x) = 1 /\ x[1] = w
    BY <1>13
  <2>3. y \in Seq(S)
    BY <1>13
  <2>4. P[l] = Append(x, y)
    BY <1>12, <1>13, <1>14
  <2>5. Len(Append(x, y)) = 2 /\ Append(x, y)[1] = w
    <3>1. PICK V : V = Seq(S)
      OBVIOUS
    <3>2. PICK q \in Seq(V), v \in V : q = x /\ v = y
      BY <2>2, <2>3, <3>1
    <3>3. PICK z : z = Append(q, v)
      OBVIOUS
    <3>4. Len(z) = Len(q) + 1 /\ \A i \in 1..Len(q) : z[i] = q[i]
      BY <3>3, AppendProperties
    <3>5. Len(q) = 1 /\ q[1] = w /\ 1 \in 1..1
      BY <2>2, <3>2
    <3> QED
      BY <3>2, <3>3, <3>4, <3>5
  <2> QED
    BY <2>1, <2>4, <2>5
<1>16. P[Len(t)][1] = w
  BY <1>3, <1>5, <1>14, <1>15, FirstStays
<1> QED
  BY <1>2, <1>5, <1>16

-----------------------------------------------------------------------------
(* The text of a form.                                                     *)

IsForm(f) == f \in Seq(ToSet(f)) /\ \A p \in ToSet(f) : IsPair(p)

\* The text of the i-th pair, with what is before it.
Block(form, i) ==
    (IF i = 1 THEN <<>> ELSE <<"&">>)
        \o EncodeValue(form[i][1]) \o <<"=">> \o EncodeValue(form[i][2])
Blocks(form, m) == [i \in 1..m |-> Block(form, i)]
PairTexts(form, m) == [i \in 1..m |-> PairText(form[i])]

\* A form is pairs, and the browser sends their texts one after the other.
LEMMA FormFacts ==
    ASSUME NEW f, IsForm(f)
    PROVE  /\ Len(f) \in Nat /\ DOMAIN f = 1..Len(f)
           /\ \A i \in 1..Len(f) : IsPair(f[i])
           /\ EncodeForm(f) = FlattenSeq(Blocks(f, Len(f)))
<1>1. PICK V : V = ToSet(f)
  OBVIOUS
<1>2. f \in Seq(V)
  BY <1>1 DEF IsForm
<1>3. PICK n \in Nat : n = Len(f) /\ DOMAIN f = 1..n /\ \A i \in 1..n : f[i] \in V
  BY <1>2
<1>4. \A i \in 1..n : IsPair(f[i])
  BY <1>1, <1>3 DEF IsForm
<1>5. EncodeForm(f) = FlattenSeq(Blocks(f, n))
  BY <1>3 DEF EncodeForm, Blocks, Block
<1> QED
  BY <1>3, <1>4, <1>5

EitherWay(x, y, z) == (x \o y) \o z = x \o (y \o z)
\* What is joined first does not matter.
LEMMA JoinsEitherWay ==
    ASSUME NEW S, NEW x \in Seq(S), NEW y \in Seq(S), NEW z \in Seq(S)
    PROVE  EitherWay(x, y, z)
BY ConcatAssociative DEF EitherWay

\* A pair has an "&" before it, except the first.
LEMMA BlockIs ==
    ASSUME NEW form, IsForm(form), NEW i \in 1..Len(form)
    PROVE  Block(form, i) = IF i = 1 THEN PairText(form[i]) ELSE <<"&">> \o PairText(form[i])
<1>1. IsPair(form[i])
  BY FormFacts
<1>2. PICK a \in Seq(Characters), b \in Seq(Characters) :
         a = EncodeValue(form[i][1]) /\ b = EncodeValue(form[i][2])
  BY <1>1, EncodedValue DEF IsPair
<1>3. PICK amp \in Seq(Characters), eq \in Seq(Characters) : amp = <<"&">> /\ eq = <<"=">>
  <2>1. PICK c \in Characters, d \in Characters : c = "&" /\ d = "="
    BY EscapesAre
  <2>2. <<c>> \in Seq(Characters) /\ <<d>> \in Seq(Characters)
    OBVIOUS
  <2> QED
    BY <2>1, <2>2
<1>4. PICK w \in Seq(Characters) : w = a \o eq
  BY ConcatProperties
<1>5. PairText(form[i]) = w \o b
  BY <1>2, <1>3, <1>4 DEF PairText
<1>6. CASE i = 1
  <2>1. PICK e \in Seq(Characters) : e = <<>>
    <3>1. <<>> \in Seq(Characters)
      OBVIOUS
    <3> QED
      BY <3>1
  <2>2. Block(form, i) = ((e \o a) \o eq) \o b
    BY <1>2, <1>3, <1>6, <2>1 DEF Block
  <2>3. e \o a = a
    BY <2>1, ConcatEmptySeq
  <2> QED
    BY <1>4, <1>5, <1>6, <2>2, <2>3
<1>7. CASE i # 1
  <2>1. Block(form, i) = ((amp \o a) \o eq) \o b
    BY <1>2, <1>3, <1>7 DEF Block
  <2>2. (amp \o a) \o eq = amp \o w
    BY <1>4, ConcatAssociative
  <2>3. (amp \o w) \o b = amp \o (w \o b)
    <3>1. EitherWay(amp, w, b)
      BY JoinsEitherWay
    <3> QED
      BY <3>1 DEF EitherWay
  <2> QED
    BY <1>3, <1>5, <1>7, <2>1, <2>2, <2>3
<1> QED
  BY <1>6, <1>7

\* One piece more at the end.
LEMMA PiecesGrow ==
    ASSUME NEW form, IsForm(form), NEW m \in Nat, m + 1 <= Len(form)
    PROVE  /\ PairTexts(form, m) \in Seq(Seq(Characters))
           /\ PairTexts(form, m + 1) \in Seq(Seq(Characters))
           /\ PairTexts(form, m + 1) = Append(PairTexts(form, m), PairText(form[m + 1]))
<1>1. PICK V : V = Seq(Characters)
  OBVIOUS
<1>2. PICK n \in Nat : n = Len(form) /\ m + 1 <= n
  BY FormFacts
<1>3. \A i \in 1..n : PairText(form[i]) \in V
  BY <1>1, <1>2, FormFacts, PairTextIs
<1>4. PICK p \in Seq(V) : p = PairTexts(form, m) /\ Len(p) = m /\ \A i \in 1..m : p[i] = PairText(form[i])
  <2>1. PairTexts(form, m) \in [1..m -> V]
    BY <1>2, <1>3 DEF PairTexts
  <2>2. PairTexts(form, m) \in Seq(V) /\ Len(PairTexts(form, m)) = m
    BY <2>1
  <2>3. \A i \in 1..m : PairTexts(form, m)[i] = PairText(form[i])
    BY DEF PairTexts
  <2> QED
    BY <2>2, <2>3
<1>5. PICK k \in Nat : k = m + 1 /\ k <= n /\ k \in 1..n
  BY <1>2
<1>6. PICK q \in Seq(V) : q = PairTexts(form, k) /\ Len(q) = k /\ \A i \in 1..k : q[i] = PairText(form[i])
  <2>1. PairTexts(form, k) \in [1..k -> V]
    BY <1>3, <1>5 DEF PairTexts
  <2>2. PairTexts(form, k) \in Seq(V) /\ Len(PairTexts(form, k)) = k
    BY <2>1
  <2>3. \A i \in 1..k : PairTexts(form, k)[i] = PairText(form[i])
    BY DEF PairTexts
  <2> QED
    BY <2>2, <2>3
<1>7. PICK x \in V : x = PairText(form[k])
  BY <1>3, <1>5
<1>8. PICK s \in Seq(V) : /\ s = Append(p, x) /\ Len(s) = k /\ s[k] = x
                          /\ \A i \in 1..m : s[i] = p[i]
  <2>1. PICK s : s = Append(p, x)
    OBVIOUS
  <2>2. s \in Seq(V) /\ Len(s) = Len(p) + 1 /\ s[Len(p) + 1] = x /\ \A i \in 1..Len(p) : s[i] = p[i]
    BY <2>1, AppendProperties
  <2> QED
    BY <1>4, <1>5, <2>1, <2>2
<1>9. \A i \in 1..k : s[i] = q[i]
  <2> TAKE i \in 1..k
  <2>1. CASE i = k
    BY <1>6, <1>7, <1>8, <2>1
  <2>2. CASE i # k
    <3>1. i \in 1..m
      BY <1>5, <2>2
    <3> QED
      BY <1>4, <1>6, <1>8, <3>1
  <2> QED
    BY <2>1, <2>2
<1>10. s = q
  BY <1>6, <1>8, <1>9, SeqEqual
<1> QED
  BY <1>1, <1>4, <1>5, <1>6, <1>7, <1>8, <1>10

\* The text of a form is its pairs with an "&" between them.
LEMMA BlockJoins ==
    ASSUME NEW form, IsForm(form), NEW m \in Nat, m + 1 <= Len(form)
    PROVE  FlattenSeq(Blocks(form, m + 1)) = FlattenSeq(Blocks(form, m)) \o Block(form, m + 1)
<1>1. PICK n \in Nat : n = Len(form) /\ m + 1 <= n
  BY FormFacts
<1>2. PICK k \in Nat : k = m + 1 /\ k \in 1..n
  BY <1>1
<1>3. PICK s : s = Blocks(form, m)
  OBVIOUS
<1>4. PICK t : t = Blocks(form, k)
  OBVIOUS
<1>5. Len(s) = m /\ \A i \in 1..m : s[i] = Block(form, i)
  BY <1>3 DEF Blocks
<1>6. Len(t) = k /\ \A i \in 1..k : t[i] = Block(form, i)
  BY <1>4 DEF Blocks
<1>7. \A i \in 1..m : s[i] = t[i]
  BY <1>2, <1>5, <1>6
<1>8. m = 0 => s = <<>>
  <2> SUFFICES ASSUME m = 0 PROVE s = <<>>
    OBVIOUS
  <2>1. s = [i \in 1..0 |-> Block(form, i)]
    BY <1>3 DEF Blocks
  <2> QED
    BY <2>1
<1>9. t[k] = Block(form, k)
  BY <1>2, <1>6
<1>10. Block(form, k) \in Seq(Characters)
  <2>1. PICK x \in Seq(Characters) : x = PairText(form[k])
    BY <1>1, <1>2, FormFacts, PairTextIs
  <2>2. PICK amp \in Seq(Characters) : amp = <<"&">>
    <3>1. PICK c \in Characters : c = "&"
      BY EscapesAre
    <3>2. <<c>> \in Seq(Characters)
      OBVIOUS
    <3> QED
      BY <3>1, <3>2
  <2>3. amp \o x \in Seq(Characters)
    BY ConcatProperties
  <2> QED
    BY <1>1, <1>2, <2>1, <2>2, <2>3, BlockIs
<1>11. FlattenSeq(t) = FlattenSeq(s) \o t[m + 1]
  BY <1>2, <1>5, <1>6, <1>7, <1>8, <1>9, <1>10, FlattenOneMore
<1> QED
  BY <1>2, <1>3, <1>4, <1>9, <1>11

SplitsTo(form, k) ==
    /\ FlattenSeq(Blocks(form, k)) \in Seq(Characters) /\ FlattenSeq(Blocks(form, k)) # <<>>
    /\ Split(FlattenSeq(Blocks(form, k)), "&") = PairTexts(form, k)

\* The first pair alone is split into itself.
LEMMA FirstSplits ==
    ASSUME NEW form, IsForm(form), 1 <= Len(form)
    PROVE  SplitsTo(form, 1)
<1>1. PICK x \in Seq(Characters) : x = PairText(form[1]) /\ NoneIn(x, "&") /\ x # <<>>
  <2>1. 1 \in 1..Len(form)
    BY FormFacts
  <2>2. IsPair(form[1])
    BY <2>1, FormFacts
  <2> QED
    BY <2>2, PairTextIs
<1>2. Block(form, 1) = x
  <2>1. 1 \in 1..Len(form)
    BY FormFacts
  <2> QED
    BY <1>1, <2>1, BlockIs
<1>3. PICK z \in Nat : z = 0 /\ z + 1 = 1
  OBVIOUS
<1>4. FlattenSeq(Blocks(form, z)) = <<>>
  <2>1. Blocks(form, z) = <<>>
    BY <1>3 DEF Blocks
  <2>2. FlattenSeq(<<>>) = <<>>
    BY DEF FlattenSeq
  <2> QED
    BY <2>1, <2>2
<1>5. FlattenSeq(Blocks(form, 1)) = x
  <2>1. FlattenSeq(Blocks(form, z + 1)) = FlattenSeq(Blocks(form, z)) \o Block(form, z + 1)
    BY <1>3, BlockJoins
  <2>2. <<>> \o x = x
    BY ConcatEmptySeq
  <2> QED
    BY <1>2, <1>3, <1>4, <2>1, <2>2
<1>6. Split(x, "&") = <<x>>
  BY <1>1, SplitOne
<1>7. PairTexts(form, 1) = <<x>>
  <2>1. PairTexts(form, z) = <<>>
    BY <1>3 DEF PairTexts
  <2>2. PairTexts(form, z + 1) = Append(PairTexts(form, z), PairText(form[z + 1]))
    BY <1>3, PiecesGrow
  <2>3. Append(<<>>, x) = <<x>>
    OBVIOUS
  <2> QED
    BY <1>1, <1>3, <2>1, <2>2, <2>3
<1> QED
  BY <1>1, <1>5, <1>6, <1>7 DEF SplitsTo

\* A pair more is split into a piece more.
LEMMA NextSplits ==
    ASSUME NEW form, IsForm(form), NEW m \in Nat, m > 0, m + 1 <= Len(form), SplitsTo(form, m)
    PROVE  SplitsTo(form, m + 1)
<1>1. PICK k \in Nat : k = m + 1 /\ k \in 1..Len(form) /\ k # 1
  BY FormFacts
<1>2. PICK x \in Seq(Characters) : x = PairText(form[k]) /\ NoneIn(x, "&")
  <2>1. IsPair(form[k])
    BY <1>1, FormFacts
  <2> QED
    BY <2>1, PairTextIs
<1>3. PICK before \in Seq(Characters) :
         before = FlattenSeq(Blocks(form, m)) /\ before # <<>> /\ Split(before, "&") = PairTexts(form, m)
  BY DEF SplitsTo
<1>4. PICK c \in Characters : c = "&"
  BY EscapesAre
<1>5. PICK amp \in Seq(Characters) : amp = <<c>>
  <2>1. <<c>> \in Seq(Characters)
    OBVIOUS
  <2> QED
    BY <2>1
<1>6. FlattenSeq(Blocks(form, k)) = before \o <<c>> \o x
  <2>1. FlattenSeq(Blocks(form, k)) = before \o Block(form, k)
    BY <1>1, <1>3, BlockJoins
  <2>2. Block(form, k) = amp \o x
    BY <1>1, <1>2, <1>4, <1>5, BlockIs
  <2>3. EitherWay(before, amp, x)
    BY JoinsEitherWay
  <2> QED
    BY <1>5, <2>1, <2>2, <2>3 DEF EitherWay
<1>7. PICK t : t = before \o <<c>> \o x
  OBVIOUS
<1>8. t \in Seq(Characters) /\ t # <<>>
  <2>1. t \in Seq(Characters) /\ Len(t) = Len(before) + 1 + Len(x)
    BY <1>7, Parted
  <2>2. PICK i \in Nat, j \in Nat : i = Len(before) /\ j = Len(x)
    OBVIOUS
  <2>3. Len(t) # 0
    BY <2>1, <2>2
  <2> QED
    BY <2>1, <2>3
<1>9. Split(t, c) = Append(Split(before, c), x)
  BY <1>2, <1>3, <1>4, <1>7, SplitMore
<1>10. Split(t, "&") = PairTexts(form, k)
  BY <1>1, <1>2, <1>3, <1>4, <1>9, PiecesGrow
<1>11. FlattenSeq(Blocks(form, k)) = t
  BY <1>6, <1>7
<1>12. SplitsTo(form, k)
  BY <1>8, <1>10, <1>11 DEF SplitsTo
<1> QED
  BY <1>1, <1>12

\* balde_parse_query_string splits a form into its pairs.
LEMMA FormSplits ==
    ASSUME NEW form, IsForm(form), Len(form) > 0
    PROVE  /\ EncodeForm(form) \in Seq(Characters) /\ EncodeForm(form) # <<>>
           /\ Split(EncodeForm(form), "&") = PairTexts(form, Len(form))
<1>1. PICK n \in Nat : n = Len(form) /\ n > 0
  BY FormFacts
<1> DEFINE T == {m \in Nat : m > 0 /\ m <= n => SplitsTo(form, m)}
<1>2. 0 \in T
  OBVIOUS
<1>3. ASSUME NEW m \in Nat, m \in T
      PROVE  m + 1 \in T
  <2> SUFFICES ASSUME m + 1 <= n PROVE SplitsTo(form, m + 1)
    OBVIOUS
  <2>1. CASE m = 0
    BY <1>1, <2>1, FirstSplits
  <2>2. CASE m # 0
    <3>1. m > 0 /\ m <= n
      BY <2>2
    <3>2. SplitsTo(form, m)
      BY <1>3, <3>1
    <3> QED
      BY <1>1, <3>1, <3>2, NextSplits
  <2> QED
    BY <2>1, <2>2
<1>4. n \in T
  <2> HIDE DEF T
  <2> QED
    BY <1>2, <1>3, Induct
<1>5. SplitsTo(form, n)
  BY <1>1, <1>4
<1> QED
  BY <1>1, <1>5, FormFacts DEF SplitsTo

-----------------------------------------------------------------------------
(* The table of a form.                                                    *)

\* The last pair of every key among the first m.
LastPairs(form, m) ==
    {form[i] : i \in {j \in 1..m : \A k \in (j + 1)..m : form[k][1] # form[j][1]}}

\* A pair more replaces the value of its key.
LEMMA LastReplaces ==
    ASSUME NEW form, IsForm(form), NEW m \in Nat, m + 1 <= Len(form)
    PROVE  LastPairs(form, m + 1) = Replace(LastPairs(form, m), form[m + 1][1], form[m + 1][2])
<1>1. PICK n \in Nat : n = Len(form) /\ \A i \in 1..n : IsPair(form[i])
  BY FormFacts
<1>2. PICK l \in Nat : l = m + 1 /\ l \in 1..n /\ m + 1 \in 1..n
  BY <1>1
<1>3. PICK new : new = form[l] /\ new = <<new[1], new[2]>> /\ new = form[m + 1]
  BY <1>1, <1>2 DEF IsPair
<1> DEFINE Final(j, k) == \A i \in (j + 1)..k : form[i][1] # form[j][1]
<1>4. Final(l, l)
  <2>1. (l + 1)..l = {}
    OBVIOUS
  <2> QED
    BY <2>1
<1>5. \A j \in 1..m : Final(j, l) <=> Final(j, m) /\ form[j][1] # new[1]
  <2> TAKE j \in 1..m
  <2>1. (j + 1)..l = (j + 1)..m \cup {l}
    BY <1>2
  <2> QED
    BY <1>3, <2>1
<1>6. \A j \in 1..l : j \in 1..m \/ j = l
  BY <1>2
<1>7. \A j \in 1..m : j \in 1..l
  BY <1>2
<1>8. l \in 1..l
  BY <1>2
<1>9. \A p : p \in LastPairs(form, l) <=> \E j \in 1..l : Final(j, l) /\ p = form[j]
  BY DEF LastPairs
<1>10. \A p : p \in LastPairs(form, m) <=> \E j \in 1..m : Final(j, m) /\ p = form[j]
  BY DEF LastPairs
<1> HIDE DEF Final
<1>11. \A p : p \in LastPairs(form, l) <=> p = new \/ (p \in LastPairs(form, m) /\ p[1] # new[1])
  <2> TAKE p
  <2>1. ASSUME p \in LastPairs(form, l)
        PROVE  p = new \/ (p \in LastPairs(form, m) /\ p[1] # new[1])
    <3>1. PICK j \in 1..l : Final(j, l) /\ p = form[j]
      BY <1>9, <2>1
    <3> QED
      BY <1>3, <1>5, <1>6, <1>10, <3>1
  <2>2. ASSUME p = new
        PROVE  p \in LastPairs(form, l)
    BY <1>3, <1>4, <1>8, <1>9, <2>2
  <2>3. ASSUME p \in LastPairs(form, m), p[1] # new[1]
        PROVE  p \in LastPairs(form, l)
    <3>1. PICK j \in 1..m : Final(j, m) /\ p = form[j]
      BY <1>10, <2>3
    <3> QED
      BY <1>5, <1>7, <1>9, <2>3, <3>1
  <2> QED
    BY <2>1, <2>2, <2>3
<1>12. LastPairs(form, l) = Replace(LastPairs(form, m), new[1], new[2])
  BY <1>3, <1>11 DEF Replace
<1> QED
  BY <1>2, <1>3, <1>12

PairStep(table, kv) == ParsePair(table, kv, Null)
Tables(P, t) ==
    /\ P[0] = {}
    /\ \A k \in Nat : k + 1 <= Len(t) => P[k + 1] = PairStep(P[k], t[k + 1])

\* The table is filled pair by pair.
LEMMA FormTables ==
    ASSUME NEW form, IsForm(form), NEW t, t = PairTexts(form, Len(form))
    PROVE  \E P : /\ Tables(P, t)
                  /\ FoldLeft(LAMBDA table, kv : ParsePair(table, kv, Null), {}, t) = P[Len(t)]
<1> DEFINE n == Len(t)
           base == {}
           A == SUBSET ToSet(form)
           g == [q \in A \X (1..n) |-> PairStep(q[1], t[q[2]])]
           Is(f) == f = [s \in SUBSET (DOMAIN t) |->
                            IF s = {} THEN base
                            ELSE PairStep(f[s \ {Max(s)}], t[Max(s)])]
           Made == FoldLeft(LAMBDA table, kv : ParsePair(table, kv, Null), {}, t)
<1>1. n \in Nat /\ DOMAIN t = 1..n /\ n = Len(form) /\ \A i \in 1..n : t[i] = PairText(form[i])
  BY FormFacts DEF PairTexts
<1>2. Made = (CHOOSE f : Is(f))[DOMAIN t]
  BY DEF FoldLeft, MapThenFoldSet, PairStep
<1>3. base \in A
  OBVIOUS
<1>4. \A a \in A, i \in 1..n : PairStep(a, t[i]) \in A
  <2> TAKE a \in A, i \in 1..n
  <2>1. PICK p : p = form[i] /\ IsPair(p) /\ p \in ToSet(form)
    <3>1. i \in DOMAIN form
      BY <1>1, FormFacts
    <3>2. form[i] \in ToSet(form)
      BY <3>1 DEF ToSet
    <3> QED
      BY <1>1, <3>2, FormFacts
  <2>2. PairStep(a, t[i]) = Replace(a, p[1], p[2])
    BY <1>1, <2>1, PairParsed DEF PairStep
  <2>3. <<p[1], p[2]>> \in ToSet(form)
    BY <2>1 DEF IsPair
  <2>4. \A q \in Replace(a, p[1], p[2]) : q \in a \/ q = <<p[1], p[2]>>
    BY DEF Replace
  <2> QED
    BY <2>2, <2>3, <2>4
<1> HIDE DEF A, n, base, Made
<1>5. g \in [A \X (1..n) -> A] /\ \A a \in A, i \in 1..n : g[<<a, i>>] = PairStep(a, t[i])
  BY <1>4
<1> HIDE DEF g
<1>6. PICK f : FoldsBy(f, g, base, A, n)
  BY <1>1, <1>3, <1>5, FoldExists
<1>7. \A s \in SUBSET (1..n) : s # {} => Max(s) \in 1..n
  <2> TAKE s \in SUBSET (1..n)
  <2> SUFFICES ASSUME s # {} PROVE Max(s) \in 1..n
    OBVIOUS
  <2>1. Max(s) \in s
    BY <1>1, MaxOf
  <2> QED
    BY <2>1
<1>8. Is(f)
  <2> DEFINE h == [s \in SUBSET (DOMAIN t) |->
                    IF s = {} THEN base
                    ELSE PairStep(f[s \ {Max(s)}], t[Max(s)])]
  <2>1. ASSUME NEW s \in SUBSET (1..n)
        PROVE  f[s] = h[s]
    <3>1. h[s] = IF s = {} THEN base ELSE PairStep(f[s \ {Max(s)}], t[Max(s)])
      BY <1>1
    <3> HIDE DEF h
    <3>2. CASE s = {}
      BY <1>6, <3>1, <3>2 DEF FoldsBy
    <3>3. CASE s # {}
      <4>1. PICK i \in 1..n : i = Max(s)
        BY <1>7, <3>3
      <4>2. s \ {i} \in SUBSET (1..n)
        OBVIOUS
      <4>3. f[s \ {i}] \in A
        BY <1>6, <4>2 DEF FoldsBy
      <4>4. f[s] = g[<<f[s \ {i}], i>>]
        BY <1>6, <3>3, <4>1 DEF FoldsBy
      <4>5. f[s] = PairStep(f[s \ {i}], t[i])
        BY <1>5, <4>3, <4>4
      <4> QED
        BY <3>1, <3>3, <4>1, <4>5
    <3> QED
      BY <3>2, <3>3
  <2>2. DOMAIN f = SUBSET (1..n) /\ f = [s \in DOMAIN f |-> f[s]]
    BY <1>6 DEF FoldsBy
  <2>3. DOMAIN h = SUBSET (1..n) /\ h = [s \in DOMAIN h |-> h[s]]
    BY <1>1
  <2>4. f = h
    <3> HIDE DEF h
    <3> QED
      BY <2>1, <2>2, <2>3
  <2> QED
    BY <2>4
<1> HIDE DEF Is
<1>9. PICK h : h = CHOOSE k : Is(k)
  OBVIOUS
<1>10. Is(h)
  BY <1>8, <1>9
<1>11. \A s \in SUBSET (1..n) :
         h[s] = IF s = {} THEN base ELSE PairStep(h[s \ {Max(s)}], t[Max(s)])
  BY <1>1, <1>10 DEF Is
<1> DEFINE P == [k \in 0..n |-> h[1..k]]
<1>12. P[0] = base
  <2>1. 1..0 \in SUBSET (1..n) /\ 1..0 = {} /\ 0 \in 0..n
    BY <1>1
  <2> QED
    BY <1>11, <2>1
<1>13. ASSUME NEW k \in Nat, k + 1 <= n
       PROVE  P[k + 1] = PairStep(P[k], t[k + 1])
  <2>1. PICK s : s = 1..(k + 1)
    OBVIOUS
  <2>2. s \in SUBSET (1..n) /\ s # {} /\ Max(s) = k + 1 /\ s \ {k + 1} = 1..k
    BY <1>1, <1>13, <2>1, FoldGoes
  <2>3. h[s] = PairStep(h[1..k], t[k + 1])
    <3>1. h[s] = PairStep(h[s \ {Max(s)}], t[Max(s)])
      BY <1>11, <2>2
    <3> QED
      BY <2>2, <3>1
  <2>4. k \in 0..n /\ k + 1 \in 0..n
    BY <1>1, <1>13
  <2> QED
    BY <2>1, <2>3, <2>4
<1>14. P[n] = h[1..n]
  BY <1>1
<1>15. Made = P[n]
  BY <1>1, <1>2, <1>9, <1>14
<1> HIDE DEF P
<1>16. Tables(P, t)
  BY <1>12, <1>13 DEF Tables, base, n
<1> QED
  BY <1>15, <1>16 DEF n, Made

\* A form arrives as it was filled in.
LEMMA FormArrives ==
    ASSUME NEW form, IsForm(form)
    PROVE  ParseQueryString(EncodeForm(form), Null) = LastPairs(form, Len(form))
<1>1. PICK n \in Nat : n = Len(form)
  BY FormFacts
<1>2. PICK t : t = PairTexts(form, n)
  OBVIOUS
<1>3. Len(t) = n /\ \A i \in 1..n : t[i] = PairText(form[i])
  BY <1>2 DEF PairTexts
<1>4. EncodeForm(form) # Null /\ Split(EncodeForm(form), "&") = t
  <2>1. CASE n > 0
    <3>1. EncodeForm(form) \in Seq(Characters) /\ Split(EncodeForm(form), "&") = PairTexts(form, n)
      BY <1>1, <2>1, FormSplits
    <3> QED
      BY <1>2, <3>1, InputsAssumption
  <2>2. CASE n = 0
    <3>1. EncodeForm(form) = <<>>
      <4>1. EncodeForm(form) = FlattenSeq(Blocks(form, n))
        BY <1>1, FormFacts
      <4>2. Blocks(form, n) = <<>>
        BY <2>2 DEF Blocks
      <4>3. FlattenSeq(<<>>) = <<>>
        BY DEF FlattenSeq
      <4> QED
        BY <4>1, <4>2, <4>3
    <3>2. <<>> \in Seq(Characters)
      OBVIOUS
    <3>3. t = <<>>
      BY <1>2, <2>2 DEF PairTexts
    <3> QED
      BY <3>1, <3>2, <3>3, InputsAssumption DEF Split
  <2> QED
    BY <2>1, <2>2
<1>5. PICK P : /\ Tables(P, t)
               /\ FoldLeft(LAMBDA table, kv : ParsePair(table, kv, Null), {}, t) = P[Len(t)]
  BY <1>1, <1>2, FormTables
<1>6. ParseQueryString(EncodeForm(form), Null) = P[n]
  BY <1>3, <1>4, <1>5 DEF ParseQueryString
<1> DEFINE T == {m \in Nat : m <= n => P[m] = LastPairs(form, m)}
<1>7. 0 \in T
  <2>1. P[0] = {}
    BY <1>5 DEF Tables
  <2>2. LastPairs(form, 0) = {}
    BY DEF LastPairs
  <2> QED
    BY <2>1, <2>2
<1>8. ASSUME NEW m \in Nat, m \in T
      PROVE  m + 1 \in T
  <2> SUFFICES ASSUME m + 1 <= n PROVE P[m + 1] = LastPairs(form, m + 1)
    OBVIOUS
  <2>1. P[m] = LastPairs(form, m) /\ m + 1 \in 1..n
    BY <1>8
  <2>2. P[m + 1] = PairStep(P[m], t[m + 1])
    BY <1>3, <1>5 DEF Tables
  <2>3. PICK p : p = form[m + 1] /\ IsPair(p) /\ t[m + 1] = PairText(p)
    BY <1>1, <1>3, <2>1, FormFacts
  <2>4. P[m + 1] = Replace(P[m], p[1], p[2])
    BY <2>2, <2>3, PairParsed DEF PairStep
  <2> QED
    BY <1>1, <2>1, <2>3, <2>4, LastReplaces
<1>9. n \in T
  <2> HIDE DEF T
  <2> QED
    BY <1>7, <1>8, Induct
<1> QED
  BY <1>1, <1>6, <1>9

-----------------------------------------------------------------------------
(* The text of a cookie.                                                   *)

\* What is stripped of nothing.
IsInk(t, i) == t[i] # " "

\* g_strstrip leaves a text that begins and ends with no blank.
LEMMA StripKeeps ==
    ASSUME NEW S, NEW t \in Seq(S), NEW n \in Nat, n > 0, n = Len(t), IsInk(t, 1), IsInk(t, n)
    PROVE  Strip(t) = t
<1>1. DOMAIN t = 1..n
  OBVIOUS
<1>2. PICK Ink : Ink = {i \in DOMAIN t : t[i] # " "}
  OBVIOUS
<1>3. Ink \subseteq 1..n
  BY <1>1, <1>2
<1>4. 1 \in Ink /\ n \in Ink
  <2>1. 1 \in 1..n /\ n \in 1..n
    OBVIOUS
  <2> QED
    BY <1>1, <1>2, <2>1 DEF IsInk
<1>5. \A i \in Ink : i \in Nat /\ 1 <= i /\ i <= n
  BY <1>3
<1>6. PICK a : a = CHOOSE i \in Ink : \A j \in Ink : i <= j
  OBVIOUS
<1>7. PICK b : b = CHOOSE i \in Ink : \A j \in Ink : i >= j
  OBVIOUS
<1>8. a \in Ink /\ \A j \in Ink : a <= j
  <2>1. \A j \in Ink : 1 <= j
    BY <1>5
  <2> QED
    BY <1>4, <1>6, <2>1
<1>9. b \in Ink /\ \A j \in Ink : b >= j
  <2>1. \A j \in Ink : n >= j
    BY <1>5
  <2> QED
    BY <1>4, <1>7, <2>1
<1>10. a = 1
  <2>1. a \in Nat /\ a <= 1 /\ 1 <= a
    BY <1>4, <1>5, <1>8
  <2> QED
    BY <2>1
<1>11. b = n
  <2>1. b \in Nat /\ b <= n /\ b >= n
    BY <1>4, <1>5, <1>9
  <2> QED
    BY <2>1
<1>12. Strip(t) = SubSeq(t, a, b)
  BY <1>2, <1>4, <1>6, <1>7, Zenon DEF Strip
<1>13. SubSeq(t, 1, n) = t
  BY SubSeqFull
<1> QED
  BY <1>10, <1>11, <1>12, <1>13

\* An empty text stays empty.
LEMMA StripNothing == Strip(<<>>) = <<>>
<1>1. {i \in DOMAIN <<>> : <<>>[i] # " "} = {}
  OBVIOUS
<1> QED
  BY <1>1 DEF Strip

\* The value with its quotes.
Quoted(value) == <<"\"">> \o value \o <<"\"">>

\* A value in quotes, character by character.
LEMMA QuotedIs ==
    ASSUME NEW value \in Seq(Characters)
    PROVE  /\ Quoted(value) \in Seq(Characters) /\ Len(Quoted(value)) = Len(value) + 2
           /\ Quoted(value)[1] = "\"" /\ Quoted(value)[Len(value) + 2] = "\""
           /\ \A i \in 1..Len(value) : Quoted(value)[1 + i] = value[i]
<1>1. PICK q \in Characters : q = "\""
  BY EscapesAre
<1>2. PICK m \in Nat : m = Len(value)
  OBVIOUS
<1>3. PICK e \in Seq(Characters) : e = <<q>> /\ Len(e) = 1 /\ e[1] = q
  <2>1. <<q>> \in Seq(Characters) /\ Len(<<q>>) = 1 /\ <<q>>[1] = q
    OBVIOUS
  <2> QED
    BY <2>1
<1>4. PICK x : x = e \o value
  OBVIOUS
<1>5. /\ x \in Seq(Characters) /\ Len(x) = 1 + m
      /\ \A i \in 1..(1 + m) : x[i] = IF i <= 1 THEN e[i] ELSE value[i - 1]
  BY <1>2, <1>3, <1>4, ConcatProperties
<1>6. x[1] = q
  BY <1>3, <1>5
<1>7. \A i \in 1..m : x[1 + i] = value[i]
  <2> TAKE i \in 1..m
  <2>1. 1 + i \in 1..(1 + m) /\ ~(1 + i <= 1) /\ (1 + i) - 1 = i
    OBVIOUS
  <2> QED
    BY <1>5, <2>1
<1>8. PICK y : y = x \o e
  OBVIOUS
<1>9. /\ y \in Seq(Characters) /\ Len(y) = (1 + m) + 1
      /\ \A i \in 1..((1 + m) + 1) : y[i] = IF i <= 1 + m THEN x[i] ELSE e[i - (1 + m)]
  BY <1>3, <1>5, <1>8, ConcatProperties
<1>10. y[1] = q /\ \A i \in 1..m : y[1 + i] = value[i]
  BY <1>6, <1>7, <1>9
<1>11. y[m + 2] = q
  <2>1. m + 2 \in 1..((1 + m) + 1) /\ ~(m + 2 <= 1 + m) /\ (m + 2) - (1 + m) = 1
    OBVIOUS
  <2> QED
    BY <1>3, <1>9, <2>1
<1>12. y = Quoted(value)
  BY <1>1, <1>3, <1>4, <1>8 DEF Quoted
<1>13. Len(y) = m + 2
  BY <1>9
<1>14. /\ Quoted(value) \in Seq(Characters) /\ Len(Quoted(value)) = m + 2
       /\ Quoted(value)[1] = "\"" /\ Quoted(value)[m + 2] = "\""
       /\ \A i \in 1..m : Quoted(value)[1 + i] = value[i]
  BY <1>1, <1>9, <1>10, <1>11, <1>12, <1>13
<1> QED
  BY <1>2, <1>14

\* The quotes are taken off, and nothing but the quotes.
LEMMA QuotesComeOff ==
    ASSUME NEW value \in Seq(Characters)
    PROVE  Unquote(Strip(Quoted(value))) = value
<1>1. PICK m \in Nat : m = Len(value)
  OBVIOUS
<1>2. PICK y \in Seq(Characters) :
         /\ y = Quoted(value) /\ Len(y) = m + 2 /\ y[1] = "\"" /\ y[m + 2] = "\""
         /\ \A i \in 1..m : y[1 + i] = value[i]
  BY <1>1, QuotedIs
<1>3. PICK k \in Nat, l \in Nat : k = m + 2 /\ l = m + 1 /\ k = Len(y) /\ k - 1 = l
  <2>1. m + 2 \in Nat /\ m + 1 \in Nat /\ (m + 2) - 1 = m + 1
    OBVIOUS
  <2>2. Len(y) = m + 2
    BY <1>2
  <2> QED
    BY <2>1, <2>2
<1>4. Strip(y) = y
  <2>1. IsInk(y, 1) /\ IsInk(y, k)
    BY <1>2, <1>3 DEF IsInk
  <2> QED
    BY <1>3, <2>1, StripKeeps
<1>5. Unquote(y) = SubSeq(y, 2, l)
  <2>1. Head(y) = y[1] /\ Last(y) = y[k] /\ k > 1
    BY <1>3 DEF Last
  <2>2. Head(y) = "\"" /\ Last(y) = "\""
    BY <1>2, <1>3, <2>1
  <2>3. Unquote(y) = SubSeq(y, 2, Len(y) - 1)
    BY <1>3, <2>1, <2>2 DEF Unquote
  <2> QED
    BY <1>3, <2>3
<1>6. \A i \in 2..l : y[i] \in Characters
  BY <1>3
<1>7. PICK s : s = SubSeq(y, 2, l)
  OBVIOUS
<1>8. s \in Seq(Characters) /\ Len(s) = m /\ \A i \in 1..m : s[i] = y[1 + i]
  <2>1. /\ s \in Seq(Characters) /\ Len(s) = IF 2 <= l THEN l - 2 + 1 ELSE 0
        /\ \A i \in 1..(l - 2 + 1) : s[i] = y[2 + i - 1]
    BY <1>6, <1>7, SubSeqProperties
  <2>2. (l - 2) + 1 = m /\ (2 <= l <=> m > 0)
    BY <1>3
  <2>3. \A i \in 1..m : (2 + i) - 1 = 1 + i
    OBVIOUS
  <2> QED
    BY <2>1, <2>2, <2>3
<1>9. \A i \in 1..m : s[i] = value[i]
  BY <1>2, <1>8
<1>10. s = value
  BY <1>1, <1>8, <1>9, SeqEqual
<1> QED
  BY <1>2, <1>4, <1>5, <1>7, <1>10

\* What the browser keeps of a cookie: its name and its value.
Kept(name, value) == name \o <<"=">> \o Quoted(value)
Semicolon == ";"
Token(name) ==
    \A i \in 1..Len(name) : name[i] # "=" /\ name[i] # " " /\ name[i] # Semicolon

\* A ";" is a character, and no other separator of a cookie.
LEMMA SemicolonIs ==
    /\ Semicolon \in Characters /\ Semicolon # "=" /\ Semicolon # "\""
<1>1. Semicolon # "="
  BY DEF Semicolon
<1>2. Semicolon # "\""
  BY DEF Semicolon
<1>3. Semicolon \in DOMAIN Escaped
  BY EscapesAre, Zenon DEF Semicolon
<1> QED
  BY <1>1, <1>2, <1>3, EscapesAre

\* What is kept is one text with no ";" and no blank at its ends.
LEMMA KeptIs ==
    ASSUME NEW name \in Seq(Characters), Token(name), NEW value \in Seq(Characters),
           NoneIn(value, Semicolon)
    PROVE  /\ Kept(name, value) \in Seq(Characters) /\ Kept(name, value) # <<>>
           /\ NoneIn(Kept(name, value), Semicolon) /\ Strip(Kept(name, value)) = Kept(name, value)
<1>1. PICK n \in Nat, m \in Nat : n = Len(name) /\ m = Len(value)
  OBVIOUS
<1>15. PICK l \in Nat : l = m + 2
  OBVIOUS
<1>2. PICK q \in Seq(Characters) :
         /\ q = Quoted(value) /\ Len(q) = l /\ q[1] = "\"" /\ q[l] = "\""
         /\ \A i \in 1..m : q[1 + i] = value[i]
  BY <1>1, <1>15, QuotedIs
<1>3. PICK c \in Characters : c = "="
  BY EscapesAre
<1>16. PICK w : w = Kept(name, value)
  OBVIOUS
<1>4. PICK k \in Nat : k = n + 1 + l
  OBVIOUS
<1>5. /\ w \in Seq(Characters) /\ Len(w) = k /\ w[n + 1] = c
      /\ \A i \in 1..n : w[i] = name[i]
      /\ \A i \in 1..l : w[n + 1 + i] = q[i]
  <2>1. w = name \o <<c>> \o q
    BY <1>2, <1>3, <1>16 DEF Kept
  <2>2. /\ w \in Seq(Characters) /\ Len(w) = Len(name) + 1 + Len(q) /\ w[Len(name) + 1] = c
        /\ \A i \in 1..Len(name) : w[i] = name[i]
        /\ \A i \in 1..Len(q) : w[Len(name) + 1 + i] = q[i]
    BY <2>1, Parted
  <2>3. Len(name) = n /\ Len(q) = l
    BY <1>1, <1>2
  <2> QED
    BY <1>4, <2>2, <2>3
<1>6. \A i \in 1..l : q[i] # Semicolon
  <2> TAKE i \in 1..l
  <2>1. i = 1 \/ i = l \/ i - 1 \in 1..m
    BY <1>15
  <2>2. CASE i = 1 \/ i = l
    BY <1>2, <2>2, SemicolonIs
  <2>3. CASE i - 1 \in 1..m
    <3>1. PICK j \in 1..m : i = 1 + j
      BY <2>3
    <3>2. value[j] # Semicolon
      BY <1>1 DEF NoneIn
    <3> QED
      BY <1>2, <3>1, <3>2
  <2> QED
    BY <2>1, <2>2, <2>3
<1>7. \A i \in 1..n : name[i] # "=" /\ name[i] # " " /\ name[i] # Semicolon
  BY <1>1 DEF Token
<1>8. \A i \in 1..k : w[i] # Semicolon
  <2> TAKE i \in 1..k
  <2>1. i \in 1..n \/ i = n + 1 \/ i - (n + 1) \in 1..l
    BY <1>4
  <2>2. CASE i \in 1..n
    BY <1>5, <1>7, <2>2
  <2>3. CASE i = n + 1
    BY <1>3, <1>5, <2>3, SemicolonIs
  <2>4. CASE i - (n + 1) \in 1..l
    <3>1. PICK j \in 1..l : i = n + 1 + j
      BY <2>4
    <3> QED
      BY <1>5, <1>6, <3>1
  <2> QED
    BY <2>1, <2>2, <2>3, <2>4
<1>9. IsInk(w, 1)
  <2>1. CASE n = 0
    <3>1. w[1] = c
      BY <1>5, <2>1
    <3> QED
      BY <1>3, <3>1 DEF IsInk
  <2>2. CASE n # 0
    <3>1. 1 \in 1..n
      BY <2>2
    <3> QED
      BY <1>5, <1>7, <3>1 DEF IsInk
  <2> QED
    BY <2>1, <2>2
<1>10. IsInk(w, k)
  <2>1. l \in 1..l
    BY <1>15
  <2>2. w[k] = q[l]
    BY <1>4, <1>5, <2>1
  <2> QED
    BY <1>2, <2>2 DEF IsInk
<1>11. k > 0
  BY <1>4
<1>12. Strip(w) = w
  BY <1>5, <1>9, <1>10, <1>11, StripKeeps
<1>13. w # <<>>
  <2>1. Len(<<>>) = 0
    OBVIOUS
  <2> QED
    BY <1>5, <1>11, <2>1
<1>14. NoneIn(w, Semicolon)
  BY <1>5, <1>8 DEF NoneIn
<1> QED
  BY <1>5, <1>12, <1>13, <1>14, <1>16

\* The name of a cookie is a token: nothing is stripped of it.
LEMMA NameIsStripped ==
    ASSUME NEW name \in Seq(Characters), Token(name)
    PROVE  Strip(name) = name
<1>1. PICK n \in Nat : n = Len(name)
  OBVIOUS
<1>2. CASE n = 0
  <2>1. name = <<>>
    BY <1>1, <1>2, EmptySeq
  <2> QED
    BY <2>1, StripNothing
<1>3. CASE n > 0
  <2>1. 1 \in 1..n /\ n \in 1..n
    BY <1>3
  <2>2. IsInk(name, 1) /\ IsInk(name, n)
    BY <1>1, <2>1 DEF Token, IsInk
  <2> QED
    BY <1>1, <1>3, <2>2, StripKeeps
<1> QED
  BY <1>2, <1>3

\* The cookie is read as it was kept.
CookieStep(table, kv) ==
    LET pieces == SplitInTwo(kv, "=") IN
    IF Len(pieces) # 2 THEN table
    ELSE Replace(table, Strip(pieces[1]), Unquote(Strip(pieces[2])))

\* A header of one cookie is one step.
LEMMA OneFold ==
    ASSUME NEW w
    PROVE  FoldLeft(LAMBDA table, kv :
                      LET pieces == SplitInTwo(kv, "=") IN
                      IF Len(pieces) # 2 THEN table
                      ELSE Replace(table, Strip(pieces[1]), Unquote(Strip(pieces[2]))),
                    {}, <<w>>) = CookieStep({}, w)
<1> DEFINE t == <<w>>
           base == {}
           Is(f) == f = [s \in SUBSET (DOMAIN t) |->
                            IF s = {} THEN base
                            ELSE CookieStep(f[s \ {Max(s)}], t[Max(s)])]
           Made == FoldLeft(LAMBDA table, kv :
                      LET pieces == SplitInTwo(kv, "=") IN
                      IF Len(pieces) # 2 THEN table
                      ELSE Replace(table, Strip(pieces[1]), Unquote(Strip(pieces[2]))),
                    {}, <<w>>)
           f0 == [s \in SUBSET (DOMAIN t) |-> IF s = {} THEN base ELSE CookieStep(base, w)]
<1>1. DOMAIN t = {1} /\ t[1] = w
  OBVIOUS
<1>2. Made = (CHOOSE f : Is(f))[DOMAIN t]
  BY DEF FoldLeft, MapThenFoldSet, CookieStep
<1> HIDE DEF Made, base
<1>3. \A s \in SUBSET {1} : s = {} \/ s = {1}
  OBVIOUS
<1>4. Max({1}) = 1 /\ {1} \ {1} = {}
  BY DEF Max
<1>5. Is(f0)
  <2>1. f0[{}] = base
    OBVIOUS
  <2>2. \A s \in SUBSET {1} :
          (IF s = {} THEN base ELSE CookieStep(base, w))
             = IF s = {} THEN base ELSE CookieStep(f0[s \ {Max(s)}], t[Max(s)])
    <3> HIDE DEF f0, t
    <3> QED
      BY <1>1, <1>3, <1>4, <2>1
  <2> QED
    BY <1>1, <2>2
<1> HIDE DEF f0, Is
<1>6. PICK h : h = CHOOSE f : Is(f)
  OBVIOUS
<1>7. Is(h)
  BY <1>5, <1>6
<1>8. h[{}] = base /\ h[{1}] = CookieStep(h[{}], w)
  <2>1. \A s \in SUBSET {1} : h[s] = IF s = {} THEN base ELSE CookieStep(h[s \ {Max(s)}], t[Max(s)])
    BY <1>1, <1>7 DEF Is
  <2> HIDE DEF t
  <2> QED
    BY <1>1, <1>4, <2>1
<1>9. Made = h[{1}]
  BY <1>1, <1>2, <1>6
<1> QED
  BY <1>8, <1>9 DEF Made, base

\* balde_parse_cookies reads back the cookie that is kept.
LEMMA CookieParsed ==
    ASSUME NEW name \in Seq(Characters), Token(name), NEW value \in Seq(Characters),
           NoneIn(value, Semicolon)
    PROVE  ParseCookies(Kept(name, value), Null) = {<<name, value>>}
<1>1. PICK w \in Seq(Characters) : w = Kept(name, value) /\ w # <<>> /\ NoneIn(w, Semicolon)
  BY KeptIs
<1>2. w # Null
  BY <1>1, InputsAssumption
<1>3. Split(w, Semicolon) = <<w>>
  BY <1>1, SplitOne
<1>4. ParseCookies(w, Null) = CookieStep({}, w)
  BY <1>2, <1>3, OneFold, Zenon DEF ParseCookies, Semicolon
<1>5. SplitInTwo(w, "=") = <<name, Quoted(value)>>
  <2>1. PICK c \in Characters : c = "="
    BY EscapesAre
  <2>2. NoneIn(name, c)
    BY <2>1 DEF NoneIn, Token
  <2>3. PICK q \in Seq(Characters) : q = Quoted(value)
    BY QuotedIs
  <2>4. w = name \o <<c>> \o q
    BY <1>1, <2>1, <2>3 DEF Kept
  <2> QED
    BY <2>1, <2>2, <2>3, <2>4, TwoPieces
<1>6. PICK q : q = Quoted(value)
  OBVIOUS
<1>7. Len(<<name, q>>) = 2 /\ <<name, q>>[1] = name /\ <<name, q>>[2] = q
  OBVIOUS
<1>8. CookieStep({}, w) = Replace({}, Strip(name), Unquote(Strip(q)))
  BY <1>5, <1>6, <1>7 DEF CookieStep
<1>9. CookieStep({}, w) = Replace({}, name, value)
  BY <1>6, <1>8, NameIsStripped, QuotesComeOff
<1>10. Replace({}, name, value) = {<<name, value>>}
  BY DEF Replace
<1> QED
  BY <1>1, <1>4, <1>9, <1>10

\* A short text is its characters one after the other.
Spells(S, a, b, c) ==
    /\ <<a>> \in Seq(S) /\ <<c>> \in Seq(S) /\ <<a, b>> \in Seq(S) /\ <<a, b, c>> \in Seq(S)
    /\ <<a, b>> = <<a>> \o <<b>> /\ <<a, b, c>> = (<<a>> \o <<b>>) \o <<c>>

\* Three characters, one after the other.
LEMMA Letters ==
    ASSUME NEW S, NEW a \in S, NEW b \in S, NEW c \in S
    PROVE  Spells(S, a, b, c)
<1>1. <<a>> \in Seq(S) /\ <<a, b>> \in Seq(S) /\ <<a, b, c>> \in Seq(S)
  OBVIOUS
<1>2. <<a, b>> = <<a>> \o <<b>>
  <2>1. PICK x, y, z : x = <<a>> /\ y = <<b>> /\ z = <<a, b>>
    OBVIOUS
  <2>8. x \in Seq(S) /\ y \in Seq(S) /\ z \in Seq(S)
    BY <2>1
  <2>2. Len(x) = 1 /\ x[1] = a /\ Len(y) = 1 /\ y[1] = b /\ Len(z) = 2 /\ z[1] = a /\ z[2] = b
    BY <2>1
  <2>3. PICK u : u = x \o y
    OBVIOUS
  <2>4. /\ u \in Seq(S) /\ Len(u) = Len(x) + Len(y)
        /\ \A i \in 1..(Len(x) + Len(y)) : u[i] = IF i <= Len(x) THEN x[i] ELSE y[i - Len(x)]
    BY <2>3, <2>8, ConcatProperties
  <2>5. Len(u) = 2 /\ u[1] = a /\ u[2] = b
    BY <2>2, <2>4
  <2>6. \A i \in 1..2 : u[i] = z[i]
    <3>1. \A i \in 1..2 : i = 1 \/ i = 2
      OBVIOUS
    <3> QED
      BY <2>2, <2>5, <3>1
  <2>7. u = z
    BY <2>2, <2>4, <2>5, <2>6, <2>8, SeqEqual
  <2> QED
    BY <2>1, <2>3, <2>7
<1>3. <<a, b, c>> = <<a, b>> \o <<c>>
  <2>1. PICK x, y, z : x = <<a, b>> /\ y = <<c>> /\ z = <<a, b, c>>
    OBVIOUS
  <2>8. x \in Seq(S) /\ y \in Seq(S) /\ z \in Seq(S)
    BY <2>1
  <2>2. /\ Len(x) = 2 /\ x[1] = a /\ x[2] = b /\ Len(y) = 1 /\ y[1] = c
        /\ Len(z) = 3 /\ z[1] = a /\ z[2] = b /\ z[3] = c
    BY <2>1
  <2>3. PICK u : u = x \o y
    OBVIOUS
  <2>4. /\ u \in Seq(S) /\ Len(u) = Len(x) + Len(y)
        /\ \A i \in 1..(Len(x) + Len(y)) : u[i] = IF i <= Len(x) THEN x[i] ELSE y[i - Len(x)]
    BY <2>3, <2>8, ConcatProperties
  <2>5. Len(u) = 3 /\ u[1] = a /\ u[2] = b /\ u[3] = c
    BY <2>2, <2>4
  <2>6. \A i \in 1..3 : u[i] = z[i]
    <3>1. \A i \in 1..3 : i = 1 \/ i = 2 \/ i = 3
      OBVIOUS
    <3> QED
      BY <2>2, <2>5, <3>1
  <2>7. u = z
    BY <2>2, <2>4, <2>5, <2>6, <2>8, SeqEqual
  <2> QED
    BY <2>1, <2>3, <2>7
<1>4. <<c>> \in Seq(S)
  OBVIOUS
<1> QED
  BY <1>1, <1>2, <1>3, <1>4 DEF Spells

\* Set-Cookie begins with the name, the value in quotes and a ";".
LEMMA CookieTextIs ==
    ASSUME NEW N \in Seq(Characters), NEW V \in Seq(Characters)
    PROVE  \E x1, x2, x3 \in Seq(Characters) :
             CookieText(N, V, 1) =
               N \o <<"=", "\"">> \o V \o <<"\"", Semicolon, " ">> \o x1 \o x2 \o x3
<1>1. PICK a \in Characters, b \in Characters, c \in Characters, d \in Characters :
         a = "Expires" /\ b = "Max-Age" /\ c = "n" /\ d = "/"
  BY DEF Characters
<1>2. PICK p \in Characters, e \in Characters, s \in Characters, m \in Characters :
         p = "Path" /\ e = "=" /\ s = " " /\ m = Semicolon
  <2>1. "Path" \in Characters
    BY DEF Characters
  <2> QED
    BY <2>1, SemicolonIs, EscapesAre
<1>3. PICK x1 \in Seq(Characters) : x1 = <<a, m, s>>
  BY Letters DEF Spells
<1>4. PICK x2 \in Seq(Characters) : x2 = <<b, e, c>> \o <<m, s>>
  <2>1. <<b, e, c>> \in Seq(Characters) /\ <<m, s>> \in Seq(Characters)
    BY Letters DEF Spells
  <2>2. <<b, e, c>> \o <<m, s>> \in Seq(Characters)
    BY <2>1, ConcatProperties
  <2> QED
    BY <2>2
<1>5. PICK x3 \in Seq(Characters) : x3 = <<p, e, d>>
  BY Letters DEF Spells
<1>6. 1 >= 0 /\ 1 # 0
  OBVIOUS
<1>7. x1 = <<"Expires", ";", " ">>
  BY <1>1, <1>2, <1>3, Zenon DEF Semicolon
<1>8. x2 = <<"Max-Age", "=", IF 1 = 0 THEN "0" ELSE "n">> \o <<";", " ">>
  BY <1>1, <1>2, <1>4, <1>6, Zenon DEF Semicolon
<1>9. x3 = <<"Path", "=", "/">>
  BY <1>1, <1>2, <1>5, Zenon
<1>10. CookieText(N, V, 1) =
          N \o <<"=", "\"">> \o V \o <<"\"", ";", " ">> \o x1 \o x2 \o x3
  BY <1>6, <1>7, <1>8, <1>9, Zenon DEF CookieText
<1>11. CookieText(N, V, 1) =
          N \o <<"=", "\"">> \o V \o <<"\"", Semicolon, " ">> \o x1 \o x2 \o x3
  BY <1>10, Zenon DEF Semicolon
<1> QED
  BY <1>11, Zenon

\* Up to the first ";".
LEMMA CookieIsCut ==
    ASSUME NEW N \in Seq(Characters), Token(N), NEW V \in Seq(Characters), NoneIn(V, Semicolon)
    PROVE  /\ CookieText(N, V, 1) # Null
           /\ Strip(Split(CookieText(N, V, 1), Semicolon)[1]) = Kept(N, V)
<1>1. PICK x1, x2, x3 \in Seq(Characters) :
         CookieText(N, V, 1) =
           N \o <<"=", "\"">> \o V \o <<"\"", Semicolon, " ">> \o x1 \o x2 \o x3
  BY CookieTextIs
<1>2. PICK a \in Characters, b \in Characters, c \in Characters, d \in Characters :
         a = "=" /\ b = "\"" /\ c = Semicolon /\ d = " "
  BY SemicolonIs, EscapesAre
<1>3. PICK A \in Seq(Characters), B \in Seq(Characters), C \in Seq(Characters), D \in Seq(Characters) :
         /\ A = <<a>> /\ B = <<b>> /\ C = <<c>> /\ D = <<d>>
         /\ <<a, b>> = A \o B /\ <<b, c, d>> = (B \o C) \o D
  <2>1. Spells(Characters, a, b, c)
    BY Letters
  <2>2. Spells(Characters, b, c, d)
    BY Letters
  <2>3. /\ <<a>> \in Seq(Characters) /\ <<b>> \in Seq(Characters) /\ <<c>> \in Seq(Characters)
        /\ <<d>> \in Seq(Characters) /\ <<a, b>> = <<a>> \o <<b>>
        /\ <<b, c, d>> = (<<b>> \o <<c>>) \o <<d>>
    BY <2>1, <2>2 DEF Spells
  <2> QED
    BY <2>3
<1>4. PICK M \in Seq(Characters) : M = N \o A
  BY ConcatProperties
<1>5. PICK U \in Seq(Characters) : U = B \o V
  BY ConcatProperties
<1>6. PICK W \in Seq(Characters) : W = M \o U
  BY ConcatProperties
<1>7. PICK K \in Seq(Characters) : K = M \o (U \o B)
  <2>1. U \o B \in Seq(Characters)
    BY ConcatProperties
  <2>2. M \o (U \o B) \in Seq(Characters)
    BY <2>1, ConcatProperties
  <2> QED
    BY <2>2
<1>8. K = Kept(N, V)
  <2>1. Kept(N, V) = (N \o <<a>>) \o ((<<b>> \o V) \o <<b>>)
    BY <1>2 DEF Kept, Quoted
  <2>2. Kept(N, V) = (N \o A) \o ((B \o V) \o B)
    BY <1>3, <2>1
  <2> QED
    BY <1>4, <1>5, <1>7, <2>2
<1>9. N \o (A \o B) = M \o B
  <2>1. EitherWay(N, A, B)
    BY JoinsEitherWay
  <2> QED
    BY <1>4, <2>1 DEF EitherWay
<1>10. (M \o B) \o V = W
  <2>1. EitherWay(M, B, V)
    BY JoinsEitherWay
  <2> QED
    BY <1>5, <1>6, <2>1 DEF EitherWay
<1>11. W \o B = K
  <2>1. EitherWay(M, U, B)
    BY JoinsEitherWay
  <2> QED
    BY <1>6, <1>7, <2>1 DEF EitherWay
<1>12. W \o ((B \o C) \o D) = (K \o C) \o D
  <2>1. PICK E \in Seq(Characters) : E = B \o C
    BY ConcatProperties
  <2>2. W \o (E \o D) = (W \o E) \o D
    <3>1. EitherWay(W, E, D)
      BY JoinsEitherWay
    <3> QED
      BY <3>1 DEF EitherWay
  <2>3. W \o (B \o C) = (W \o B) \o C
    <3>1. EitherWay(W, B, C)
      BY JoinsEitherWay
    <3> QED
      BY <3>1 DEF EitherWay
  <2> QED
    BY <1>11, <2>1, <2>2, <2>3
<1>13. CookieText(N, V, 1) = ((((K \o C) \o D) \o x1) \o x2) \o x3
  BY <1>1, <1>2, <1>3, <1>9, <1>10, <1>12, Zenon
<1>14. PICK F \in Seq(Characters) : F = K \o C
  BY ConcatProperties
<1>15. PICK r1 \in Seq(Characters) : r1 = D \o x1
  BY ConcatProperties
<1>16. PICK r2 \in Seq(Characters) : r2 = r1 \o x2
  BY ConcatProperties
<1>17. PICK r \in Seq(Characters) : r = r2 \o x3
  BY ConcatProperties
<1>18. (F \o D) \o x1 = F \o r1
  <2>1. EitherWay(F, D, x1)
    BY JoinsEitherWay
  <2> QED
    BY <1>15, <2>1 DEF EitherWay
<1>19. (F \o r1) \o x2 = F \o r2
  <2>1. EitherWay(F, r1, x2)
    BY JoinsEitherWay
  <2> QED
    BY <1>16, <2>1 DEF EitherWay
<1>20. (F \o r2) \o x3 = F \o r
  <2>1. EitherWay(F, r2, x3)
    BY JoinsEitherWay
  <2> QED
    BY <1>17, <2>1 DEF EitherWay
<1>21. CookieText(N, V, 1) = K \o <<c>> \o r
  BY <1>3, <1>13, <1>14, <1>18, <1>19, <1>20, Zenon
<1>22. NoneIn(K, c) /\ Strip(K) = K
  BY <1>2, <1>8, KeptIs
<1>23. Split(K \o <<c>> \o r, c)[1] = K
  BY <1>22, SplitFirst
<1>24. K \o <<c>> \o r \in Seq(Characters)
  BY Parted
<1>25. CookieText(N, V, 1) # Null
  BY <1>21, <1>24, InputsAssumption
<1> QED
  BY <1>2, <1>8, <1>21, <1>22, <1>23, <1>25

-----------------------------------------------------------------------------
(* What the browser sends.                                                 *)

\* A value with no ";", which would cut the cookie.
Whole(c) == ~Contains(c[2], ";")

\* The forms of a browser, and the one with nothing, are forms.
LEMMA FormsAre ==
    ASSUME NEW f \in Forms \cup {<<>>}
    PROVE  IsForm(f)
<1>1. CASE f \in Forms
  BY <1>1, InputsAssumption DEF IsForm, IsPair
<1>2. CASE f = <<>>
  <2>1. <<>> \in Seq(ToSet(<<>>)) /\ ToSet(<<>>) = {}
    BY DEF ToSet
  <2> QED
    BY <1>2, <2>1 DEF IsForm
<1> QED
  BY <1>1, <1>2

\* The name and the value of a cookie are texts, the name a token.
LEMMA CookiesAre ==
    ASSUME NEW c \in Cookies
    PROVE  /\ c = <<c[1], c[2]>> /\ c[1] \in Seq(Characters) /\ c[2] \in Seq(Characters)
           /\ Token(c[1])
<1>1. c = <<c[1], c[2]>> /\ IsText(c[1]) /\ IsText(c[2])
  BY InputsAssumption, Zenon
<1>2. ToSet(c[1]) \cap {"=", ";", " "} = {}
  BY InputsAssumption, Zenon
<1>3. PICK name \in Seq(Characters) : name = c[1]
  BY <1>1 DEF IsText
<1>4. "=" \notin ToSet(name) /\ Semicolon \notin ToSet(name) /\ " " \notin ToSet(name)
  BY <1>2, <1>3, Zenon DEF Semicolon
<1>5. \A i \in 1..Len(name) : name[i] \in ToSet(name)
  <2>1. DOMAIN name = 1..Len(name)
    OBVIOUS
  <2> QED
    BY <2>1 DEF ToSet
<1>6. Token(name)
  BY <1>4, <1>5 DEF Token
<1> QED
  BY <1>1, <1>3, <1>6 DEF IsText

\* No character of such a value is a ";".
LEMMA WholeIs ==
    ASSUME NEW c, c[2] \in Seq(Characters), Whole(c)
    PROVE  NoneIn(c[2], Semicolon)
<1>1. PICK v \in Seq(Characters) : v = c[2]
  OBVIOUS
<1>2. DOMAIN v = 1..Len(v)
  OBVIOUS
<1>3. ~Contains(v, Semicolon)
  BY <1>1, Zenon DEF Whole, Semicolon
<1>4. \A i \in 1..Len(v) : v[i] # Semicolon
  BY <1>2, <1>3 DEF Contains
<1> QED
  BY <1>1, <1>4 DEF NoneIn

\* The request has a form of the browser's, the jar has what is kept of the
\* cookie that was told, and an answer brings the cookie that was told.
FormsInv ==
    /\ request = Null => handled = Null
    /\ request # Null => request.form \in Forms \cup {<<>>}
JarInv ==
    /\ told \in Cookies \cup {Null}
    /\ answer = Null /\ told # Null /\ Whole(told) => jar = Kept(told[1], told[2])
    /\ answer # Null =>
         answer.cookie = IF told = Null THEN Null ELSE CookieText(told[1], told[2], 1)
FormGiven ==
    handled # Null => handled.form = LastPairs(request.form, Len(request.form))
CookieGiven ==
    handled # Null /\ handled.had # Null /\ Whole(handled.had) => handled.cookies = {handled.had}

InputsInv == FormsInv /\ JarInv /\ FormGiven /\ CookieGiven

\* Nothing was sent, and no cookie told, when the browser starts.
LEMMA InitInputs == Init => InputsInv
BY DEF Init, InputsInv, FormsInv, JarInv, FormGiven, CookieGiven

\* Null is no answer.
NullIsNoAnswer == \A r, l, c : [rendered |-> r, link |-> l, cookie |-> c] # Null

Brought(cookie) ==
    /\ answer'.cookie = IF cookie = Null THEN Null ELSE CookieText(cookie[1], cookie[2], 1)
    /\ told' = cookie /\ answer' # Null
    /\ handled'.form = ParseQueryString(EncodeForm(request.form), Null)
    /\ handled'.cookies = ParseCookies(jar, Null) /\ handled'.had = told
    /\ UNCHANGED <<jar, request>>

\* The views see the form and the cookies as the parsers give them, and whatever
\* the view answers, it has the cookie that the view told.
LEMMA HandleBrings ==
    ASSUME NullIsNoAnswer, Handle
    PROVE  /\ request # Null /\ answer = Null
           /\ \E cookie \in Cookies \cup {Null} : Brought(cookie)
<1> DEFINE r == MakeRequest(Env(request.url))
           found == Dispatch(views, r.path, Null)
           view == IF found = 0 THEN 0 ELSE ViewOf(views, views[found].endpoint)
           method == MethodOf(request.method)
           none == ""
           Done == \E cookie \in Cookies \cup {Null} : Brought(cookie)
<1>1. ASSUME NEW response, NEW v, NEW values, NEW truth, NEW newLink, NEW cookie,
             cookie \in Cookies \cup {Null},
             Finish(response, v, values, truth, newLink, cookie)
      PROVE  Done
  <2>1. answer' # Null
    BY <1>1 DEF Finish, NullIsNoAnswer
  <2>2. Brought(cookie)
    BY <1>1, <2>1 DEF Finish, Brought
  <2> QED
    BY <1>1, <2>2
<1>2. Null \in Cookies \cup {Null}
  OBVIOUS
<1>3. request # Null /\ answer = Null
  BY DEF Handle
<1>4. SUFFICES Done
  BY <1>3 DEF Done
<1> HIDE DEF Done
<1>5. CASE view = 0
  <2> DEFINE response == Abort(404)
  <2>1. Finish(response, 0, {}, none, Null, Null)
    BY <1>5 DEF Handle
  <2> HIDE DEF view, method, found, r, none, response
  <2> QED
    BY <1>1, <1>2, <2>1
<1>6. CASE view # 0 /\ method \notin views[view].methods
  <2> DEFINE response == Abort(405)
  <2>1. Finish(response, 0, {}, none, Null, Null)
    BY <1>6 DEF Handle
  <2> HIDE DEF view, method, found, r, none, response
  <2> QED
    BY <1>1, <1>2, <2>1
<1>7. CASE view # 0 /\ method \in views[view].methods /\ method = "OPTIONS"
  <2> DEFINE response == [MakeResponse(none) EXCEPT !.allow = AllowedMethods(views[view].methods)]
  <2>1. Finish(response, 0, {}, none, Null, Null)
    BY <1>7 DEF Handle
  <2> HIDE DEF view, method, found, r, none, response
  <2> QED
    BY <1>1, <1>2, <2>1
<1>8. CASE /\ view # 0 /\ method \in views[view].methods /\ method # "OPTIONS"
           /\ views[view].endpoint = "static"
  <2>1. PICK values :
          Finish(ResourceView(values, request.ifNoneMatch), view, values, bundle, Null, Null)
    BY <1>8 DEF Handle
  <2> DEFINE response == ResourceView(values, request.ifNoneMatch)
  <2>2. Finish(response, view, values, bundle, Null, Null)
    BY <2>1
  <2> HIDE DEF view, method, found, r, none, response
  <2> QED
    BY <1>1, <1>2, <2>2
<1>9. CASE /\ view # 0 /\ method \in views[view].methods /\ method # "OPTIONS"
           /\ views[view].endpoint # "static"
  <2>1. PICK response, values, newLink : \E cookie \in Cookies \cup {Null} :
           Finish(response, view, values, content, newLink, cookie)
    BY <1>9 DEF Handle
  <2>2. PICK cookie \in Cookies \cup {Null} :
           Finish(response, view, values, content, newLink, cookie)
    BY <2>1
  <2> HIDE DEF view, method, found, r, none
  <2> QED
    BY <1>1, <2>2
<1> QED
  BY <1>5, <1>6, <1>7, <1>8, <1>9

\* The parsers give what the browser filled in and what it was told.
LEMMA HandleInputs ==
    ASSUME NullIsNoAnswer, InputsInv, Handle
    PROVE  InputsInv'
<1>1. request # Null /\ answer = Null
  BY HandleBrings
<1>2. PICK cookie \in Cookies \cup {Null} : Brought(cookie)
  BY HandleBrings
<1>3. FormsInv'
  BY <1>1, <1>2 DEF InputsInv, FormsInv, Brought
<1>4. told' \in Cookies \cup {Null}
  BY <1>2 DEF Brought
<1>5. answer'.cookie = IF told' = Null THEN Null ELSE CookieText(told'[1], told'[2], 1)
  BY <1>2 DEF Brought
<1>6. answer' # Null
  BY <1>2 DEF Brought
<1>7. JarInv'
  BY <1>4, <1>5, <1>6 DEF JarInv
<1>8. handled'.form = LastPairs(request.form, Len(request.form))
  <2>1. IsForm(request.form)
    BY <1>1, FormsAre DEF InputsInv, FormsInv
  <2> QED
    BY <1>2, <2>1, FormArrives DEF Brought
<1>9. FormGiven'
  BY <1>2, <1>8 DEF FormGiven, Brought
<1>10. ASSUME told # Null, Whole(told)
       PROVE  handled'.cookies = {told}
  <2>1. told \in Cookies /\ jar = Kept(told[1], told[2])
    BY <1>1, <1>10 DEF InputsInv, JarInv
  <2>2. PICK name \in Seq(Characters), value \in Seq(Characters) :
           name = told[1] /\ value = told[2] /\ told = <<name, value>> /\ Token(name)
    BY <2>1, CookiesAre
  <2>3. NoneIn(value, Semicolon)
    BY <1>10, <2>2, WholeIs
  <2>4. ParseCookies(jar, Null) = {<<name, value>>}
    BY <2>1, <2>2, <2>3, CookieParsed
  <2> QED
    BY <1>2, <2>2, <2>4 DEF Brought
<1>11. CookieGiven'
  <2>1. handled'.had = told
    BY <1>2 DEF Brought
  <2>2. Whole(handled'.had) <=> Whole(told)
    BY <2>1
  <2> QED
    BY <1>10, <2>1 DEF CookieGiven, Whole
<1> QED
  BY <1>3, <1>7, <1>9, <1>11 DEF InputsInv

\* The browser keeps the cookie that the answer brought.
LEMMA ReceiveInputs ==
    ASSUME InputsInv, Receive
    PROVE  InputsInv'
<1>1. /\ answer # Null /\ request' = Null /\ answer' = Null /\ handled' = Null /\ told' = told
      /\ jar' = IF answer.cookie = Null THEN Null ELSE Strip(Split(answer.cookie, Semicolon)[1])
  BY Zenon DEF Receive, Semicolon
<1>2. FormsInv' /\ FormGiven' /\ CookieGiven'
  BY <1>1 DEF FormsInv, FormGiven, CookieGiven
<1>3. ASSUME told # Null, Whole(told)
      PROVE  jar' = Kept(told[1], told[2])
  <2>1. told \in Cookies /\ answer.cookie = CookieText(told[1], told[2], 1)
    BY <1>1, <1>3 DEF InputsInv, JarInv
  <2>2. PICK name \in Seq(Characters), value \in Seq(Characters) :
           name = told[1] /\ value = told[2] /\ Token(name)
    BY <2>1, CookiesAre
  <2>3. NoneIn(value, Semicolon)
    BY <1>3, <2>2, WholeIs
  <2>4. /\ CookieText(name, value, 1) # Null
        /\ Strip(Split(CookieText(name, value, 1), Semicolon)[1]) = Kept(name, value)
    BY <2>2, <2>3, CookieIsCut
  <2> QED
    BY <1>1, <2>1, <2>2, <2>4
<1>4. Whole(told)' <=> Whole(told)
  BY <1>1 DEF Whole
<1>5. JarInv'
  BY <1>1, <1>3, <1>4 DEF InputsInv, JarInv
<1> QED
  BY <1>2, <1>5 DEF InputsInv

\* A request has a form of the browser and leaves the jar alone.
LEMMA SendInputs ==
    ASSUME InputsInv, NEW url, NEW method, NEW target, NEW form \in Forms \cup {<<>>},
           Send(url, method, target, form)
    PROVE  InputsInv'
<1>1. /\ request = Null /\ answer = Null /\ request'.form = form
      /\ UNCHANGED <<jar, told, answer, handled>>
  BY DEF Send, Idle
<1>2. handled = Null
  BY <1>1 DEF InputsInv, FormsInv
<1>3. FormsInv' /\ FormGiven' /\ CookieGiven'
  BY <1>1, <1>2 DEF FormsInv, FormGiven, CookieGiven
<1>4. JarInv'
  BY <1>1 DEF InputsInv, JarInv, Whole
<1> QED
  BY <1>3, <1>4 DEF InputsInv

\* An error is answered with no cookie, and none is kept.
LEMMA ErrorInputs ==
    ASSUME NullIsNoAnswer, InputsInv, HandleError
    PROVE  InputsInv'
<1>1. /\ answer'.cookie = Null /\ told' = Null
      /\ UNCHANGED <<request, handled>>
  BY DEF HandleError
<1>2. answer' # Null
  BY DEF HandleError, NullIsNoAnswer
<1>3. JarInv'
  BY <1>1, <1>2 DEF JarInv
<1> QED
  BY <1>1, <1>3 DEF InputsInv, FormsInv, FormGiven, CookieGiven, Whole

\* Every step keeps the invariant.
LEMMA InputsStep ==
    ASSUME NullIsNoAnswer, InputsInv, [Next]_vars
    PROVE  InputsInv'
<1>1. ASSUME UNCHANGED <<jar, told, request, answer, handled>>
      PROVE  InputsInv'
  BY <1>1 DEF InputsInv, FormsInv, JarInv, FormGiven, CookieGiven, Whole
<1>2. CASE Register \/ Publish \/ Restart
  BY <1>1, <1>2 DEF Register, Publish, Restart, browser
<1>3. CASE Follow
  <2>1. Send(link.url, "GET", link, <<>>)
    BY <1>3 DEF Follow
  <2> QED
    BY <2>1, SendInputs
<1>4. CASE Reload
  <2>1. Send(cache.url, "GET", Null, <<>>)
    BY <1>4 DEF Reload
  <2> QED
    BY <2>1, SendInputs
<1>5. CASE Open
  <2>1. PICK url, m : Send(url, m, Null, <<>>)
    BY <1>5 DEF Open
  <2> QED
    BY <2>1, SendInputs
<1>6. CASE Submit
  <2>1. PICK f \in Forms : \E url : Send(url, "POST", Null, f)
    BY <1>6 DEF Submit
  <2> QED
    BY <2>1, SendInputs
<1>7. CASE Handle
  BY <1>7, HandleInputs
<1>8. CASE Receive
  BY <1>8, ReceiveInputs
<1>9. CASE UNCHANGED vars
  BY <1>1, <1>9 DEF vars, browser
<1>10. CASE HandleError
  BY <1>10, ErrorInputs
<1> QED
  BY <1>2, <1>3, <1>4, <1>5, <1>6, <1>7, <1>8, <1>9, <1>10 DEF Next

\* What balde_parse_query_string makes of the body of a form is the last value
\* of every key of it, and what balde_parse_cookies makes of the header is the
\* cookie that was set last, if its value has no ";": for every form, every
\* cookie and every text.
THEOREM InputsAreSame ==
    ASSUME NullIsNoAnswer
    PROVE  Spec => []InputsArrive
<1>1. InputsInv => InputsArrive
  <2> SUFFICES ASSUME InputsInv, handled # Null
               PROVE  /\ LET f == request.form IN
                         handled.form = {f[i] : i \in {j \in DOMAIN f :
                               \A k \in (j + 1)..Len(f) : f[k][1] # f[j][1]}}
                      /\ handled.had # Null /\ Whole(handled.had) => handled.cookies = {handled.had}
    BY Zenon DEF InputsArrive, Whole
  <2>1. PICK f : f = request.form
    OBVIOUS
  <2>2. DOMAIN f = 1..Len(f)
    <3>1. IsForm(f)
      BY <2>1, FormsAre DEF InputsInv, FormsInv
    <3> QED
      BY <3>1, FormFacts
  <2>3. handled.form = LastPairs(f, Len(f))
    BY <2>1 DEF InputsInv, FormGiven
  <2>4. handled.form = {f[i] : i \in {j \in DOMAIN f :
                               \A k \in (j + 1)..Len(f) : f[k][1] # f[j][1]}}
    BY <2>2, <2>3 DEF LastPairs
  <2> QED
    BY <2>1, <2>4 DEF InputsInv, CookieGiven
<1>2. InputsInv /\ [Next]_vars => InputsInv'
  BY InputsStep
<1> QED
  BY <1>1, <1>2, InitInputs, PTL DEF Spec
=============================================================================
