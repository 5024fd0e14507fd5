----------------------------- MODULE WasmStore -----------------------------
(***************************************************************************)
(* The host's side of an Aidoku source: what the store of one source holds *)
(* for it, and the functions it imports (shared/src/source/wasm_store.rs,  *)
(* wasm_imports/, html_element.rs and the calls of source/mod.rs).         *)
(* A program holds handles into the store, may call any import with any    *)
(* number for a handle, and is run by one call of the host at a time.      *)
(* An import is the set of the stores it may leave; it is empty where the  *)
(* import fails and leaves the store alone.  A value is what can be told   *)
(* of it through handles: its kind, the documents its elements belong to,  *)
(* and the values inside it.  An object has one key here.                  *)
(***************************************************************************)
EXTENDS Naturals, Sequences, SequencesExt, FiniteSets, Functions, Lines

CONSTANTS NULL,
          MaxPointer,    \* bound: handles given out, for each family of imports
          MaxItems       \* bound: elements and items of a value

VARIABLES store,    \* WasmStore
          uses,     \* the family of imports the program calls: requests have a limit or not
          sending,  \* the requests that send or send_all has before it
          frame     \* the call of the host in progress

vars == <<store, uses, sending, frame>>

Handles == 0..(MaxPointer[uses] - 1)
Many == 9      \* usize::MAX

Plain(kind) == [kind |-> kind, docs |-> <<>>, items |-> <<>>]
String == Plain("string")
Html(docs) == [Plain("html") EXCEPT !.docs = docs]
Array(items) == [Plain("array") EXCEPT !.items = items]
Object(items) == [Plain("object") EXCEPT !.items = items]

Empty == [pointer |-> 0, values |-> <<>>, htmls |-> {}, refs |-> <<>>, encoded |-> {},
          requests |-> <<>>, things |-> <<>>, limit |-> NULL,
          late |-> {}]   \* history: what was stored when its document was gone

Init ==
  /\ store = Empty /\ uses \in DOMAIN MaxPointer /\ sending = <<>> /\ frame = NULL

Put(f, h, v) == [g \in DOMAIN f \cup {h} |-> IF g = h THEN v ELSE f[g]]
Drop(f, h) == [g \in DOMAIN f \ {h} |-> f[g]]
Held(s, hs) == hs \subseteq DOMAIN s.values
Of(s, d, kinds) == IF d \in DOMAIN s.values /\ s.values[d].kind \in kinds THEN {s.values[d]} ELSE {}
When(guard, result) == IF guard THEN {result} ELSE {}
Alive(s, v) == Pick(v.docs, {i \in DOMAIN v.docs : v.docs[i] \in s.htmls})

-----------------------------------------------------------------------------
(* wasm_store.rs                                                           *)

Occurs(v, x) == Cardinality({i \in DOMAIN v.docs : v.docs[i] = x})

link_reference_html(s, v) == [s EXCEPT !.refs = [x \in s.htmls |-> @[x] + Occurs(v, x)]]

free_reference_html(s, v) ==
  LET dead == {x \in s.htmls : Occurs(v, x) > 0 /\ s.refs[x] <= Occurs(v, x)}
  IN  [s EXCEPT !.htmls = @ \ dead,
                !.refs = [x \in s.htmls \ dead |-> @[x] - Occurs(v, x)]]

set_std_value(s, d, v) ==
  LET t == link_reference_html(s, v)
  IN  [t EXCEPT !.values = Put(@, d, v),
                !.late = IF Alive(s, v) = v.docs THEN @ ELSE @ \cup {d}]

increase_pointer(s) == [s EXCEPT !.pointer = @ + 1]

FaultUnlinked(s, v) ==      \* fault: the new value's elements are not counted
  [increase_pointer(s) EXCEPT !.values = Put(@, s.pointer, v)]
store_std_value(s, v) == set_std_value(increase_pointer(s), s.pointer, v)

take_std_value(s, d) ==
  LET t == [s EXCEPT !.encoded = @ \ {d}]
  IN  IF d \in DOMAIN s.values
      THEN [free_reference_html(t, s.values[d]) EXCEPT !.values = Drop(@, d)]
      ELSE [t EXCEPT !.requests = Drop(@, d), !.things = Drop(@, d)]

mark_str_encode(s, d) == [s EXCEPT !.encoded = @ \cup {d}]
set_html(s) ==
  [increase_pointer(s) EXCEPT !.htmls = @ \cup {s.pointer}, !.refs = Put(@, s.pointer, 0)]
Thing(s, kind) == [increase_pointer(s) EXCEPT !.things = Put(@, s.pointer, kind)]
Things(s, d, kinds) == d \in DOMAIN s.things /\ s.things[d] \in kinds

Building == [state |-> "building", url |-> FALSE, body |-> NULL]
create_request(s) == [increase_pointer(s) EXCEPT !.requests = Put(@, s.pointer, Building)]
SetRequest(s, d, r) == [s EXCEPT !.requests = Put(@, d, r)]
In(s, d, state) == d \in DOMAIN s.requests /\ s.requests[d].state = state

\* permits and period as given, else as before, else no limit a second.
LimitOf(s, field, default) == IF s.limit = NULL THEN default ELSE s.limit[field]
set_rate_limit(s, permits, period) ==
  LET all == IF permits = NULL THEN LimitOf(s, "permits", Many) ELSE permits
  IN  [s EXCEPT !.limit =
         [permits |-> all, available |-> all, waited |-> 0,
          period |-> IF period = NULL THEN LimitOf(s, "period", 1) ELSE period]]

\* The permits of the current period, once the last one is over.
FaultNeverReset(l) == l
Renewed(l) == IF l.waited >= l.period THEN [l EXCEPT !.available = l.permits, !.waited = 0] ELSE l
Spent(l) == IF l.available = Many THEN l ELSE [l EXCEPT !.available = @ - 1]
\* A thread that finds no permit sleeps, and looks again.
rate_limit_acquire(s) ==
  IF s.limit = NULL THEN {s}
  ELSE LET l == Renewed(s.limit)
       IN  IF l.available = 0 THEN {}
           ELSE {[s EXCEPT !.limit = Spent(l)]}

-----------------------------------------------------------------------------
(* std and aidoku                                                          *)

copy(s, d) == When(Held(s, {d}), store_std_value(s, s.values[d]))
destroy(s, d) == {take_std_value(s, d)}
create_value(s, v) == {store_std_value(s, v)}

\* object_get: of an object, a manga, a page of results or a filter.
Fields(v) ==
  CASE v.kind = "object" -> ToSet(v.items)
    [] v.kind = "page_result" -> {Array(v.items), Plain("bool")}
    [] v.kind = "manga" -> {String, Array(<<String>>)}
    [] OTHER -> {String}
object_get(s, d) ==
  {store_std_value(s, x) :
     x \in UNION {Fields(v) : v \in Of(s, d, {"object", "page_result", "manga", "filter"})}}

\* The container is taken before its type and its index are looked at.
Replace(s, d, kind, items) ==
  LET t == take_std_value(s, d)
  IN  IF items = NULL \/ s.values[d].kind # kind THEN t
      ELSE set_std_value(t, d, [s.values[d] EXCEPT !.items = items])

object_set(s, d, e) == When(Held(s, {d, e}), Replace(s, d, "object", <<s.values[e]>>))
object_remove(s, d) == When(Held(s, {d}), Replace(s, d, "object", <<>>))
object_keys(s, d) ==
  {store_std_value(s, Array([i \in DOMAIN v.items |-> String])) : v \in Of(s, d, {"object"})}
object_values(s, d) == {store_std_value(s, Array(v.items)) : v \in Of(s, d, {"object"})}

array_get(s, d) == {store_std_value(s, x) : x \in UNION {ToSet(v.items) : v \in Of(s, d, {"array"})}}
array_set(s, d, i, e) ==
  When(Held(s, {d, e}),
       Replace(s, d, "array", IF i \in DOMAIN s.values[d].items
                              THEN [s.values[d].items EXCEPT ![i] = s.values[e]] ELSE NULL))
array_append(s, d, e) ==
  When(Held(s, {d, e}), Replace(s, d, "array", Append(s.values[d].items, s.values[e])))
array_remove(s, d, i) ==
  {set_std_value(s, d, Array(RemoveAt(v.items, i))) :
     v \in {w \in Of(s, d, {"array"}) : i \in DOMAIN w.items}}

create_manga(s) == {store_std_value(s, Plain("manga"))}
create_manga_result(s, d) ==
  {store_std_value(s, [v EXCEPT !.kind = "page_result"]) :
     v \in {w \in Of(s, d, {"array"}) : \A i \in DOMAIN w.items : w.items[i].kind = "manga"}}
\* They need the call they are of; a deep link needs one of each.
Under(object) == frame # NULL /\ frame.object = object
create_chapter(s) == When(Under("manga"), store_std_value(s, Plain("chapter")))
create_page(s) == When(Under("chapter"), store_std_value(s, Plain("page")))
create_deeplink(s, d, e) ==
  {store_std_value(s, Plain("deeplink")) : v \in Of(s, d, {"manga"}) \X Of(s, e, {"chapter"})}

JsonValues == {Plain("int"), String, Array(<<String>>), Object(<<String>>), Plain("null")}
json_parse(s) == {store_std_value(s, v) : v \in JsonValues}

-----------------------------------------------------------------------------
(* html: elements whose document is gone are passed over, most of the time *)

StringOf(s, vs) == {store_std_value(s, String) : v \in vs}
ElementsOf(s, vs) == {store_std_value(s, Html(docs)) : docs \in vs}
Htmls(s, d) == Of(s, d, {"html"})
Single(s, d) == {v \in Htmls(s, d) : Len(v.docs) = 1}
FirstAlive(s, vs) == {v \in vs : v.docs # <<>> /\ v.docs[1] \in s.htmls}
SomeAlive(s, vs) == {v \in vs : Alive(s, v) # <<>>}
\* Of each element, none, itself, or more of the same document.
Found(s, vs) == UNION {{<<>>, Alive(s, v), Alive(s, v) \o Alive(s, v)} : v \in vs}
Perhaps(s, vs) == UNION {{<<>>, Alive(s, v)} : v \in vs}

parse_with_uri(s) == {store_std_value(set_html(s), Html(<<s.pointer>>))}
parse_fragment_with_uri(s) == {store_std_value(set_html(s), Html(<<s.pointer>>))}
select(s, d) == ElementsOf(s, Found(s, Htmls(s, d)))
attr(s, d) == StringOf(s, SomeAlive(s, Htmls(s, d)))
first(s, d) == ElementsOf(s, {<<v.docs[1]>> : v \in {w \in Htmls(s, d) : w.docs # <<>>}})
last(s, d) == ElementsOf(s, {<<Last(v.docs)>> : v \in {w \in Htmls(s, d) : w.docs # <<>>}})
next(s, d) == ElementsOf(s, {v.docs : v \in FirstAlive(s, Single(s, d))})
previous(s, d) == ElementsOf(s, {v.docs : v \in FirstAlive(s, Single(s, d))})
base_uri(s, d) == StringOf(s, Single(s, d))
text(s, d) == StringOf(s, Htmls(s, d))
untrimmed_text(s, d) == StringOf(s, Htmls(s, d))
html(s, d) == StringOf(s, Htmls(s, d))
outer_html(s, d) == StringOf(s, Htmls(s, d))
own_text(s, d) == StringOf(s, FirstAlive(s, Htmls(s, d)))
data(s, d) == StringOf(s, FirstAlive(s, Htmls(s, d)))
id(s, d) == StringOf(s, FirstAlive(s, Single(s, d)))
tag_name(s, d) == StringOf(s, FirstAlive(s, Single(s, d)))
class_name(s, d) == StringOf(s, FirstAlive(s, Single(s, d)))
escape(s, d) == StringOf(s, Of(s, d, {"html", "string"}))
unescape(s, d) == StringOf(s, Of(s, d, {"html", "string"}))
\* The elements one by one: inside an array they are not counted.
array(s, d) ==
  {store_std_value(s, Array([i \in DOMAIN v.docs |-> Html(<<v.docs[i]>>)])) : v \in Htmls(s, d)}

\* The later SDK's.
next_parse(s) == parse_with_uri(s)
next_parse_fragment(s) == parse_fragment_with_uri(s)
select_first(s, d) == ElementsOf(s, {<<Alive(s, v)[1]>> : v \in SomeAlive(s, Htmls(s, d))})
parent(s, d) == ElementsOf(s, Perhaps(s, Htmls(s, d)))
child_nodes(s, d) == ElementsOf(s, Found(s, Htmls(s, d)))
children(s, d) == ElementsOf(s, Found(s, Htmls(s, d)))
siblings(s, d) == ElementsOf(s, Found(s, Htmls(s, d)))
next_next(s, d) == ElementsOf(s, Perhaps(s, Htmls(s, d)))
next_previous(s, d) == ElementsOf(s, Perhaps(s, Htmls(s, d)))
get(s, d) == ElementsOf(s, UNION {{<<v.docs[i]>> : i \in DOMAIN v.docs} : v \in Htmls(s, d)})

-----------------------------------------------------------------------------
(* net: a request is built, sent, and its response read                    *)

init(s) == {create_request(s)}
close(s, d) == When(d \in DOMAIN s.requests, SetRequest(s, d, [Building EXCEPT !.state = "closed"]))
set_url(s, d) == When(In(s, d, "building"), SetRequest(s, d, [Building EXCEPT !.url = TRUE]))
get_url(s, d) == When(In(s, d, "building") /\ s.requests[d].url, store_std_value(s, String))

\* The body may fail to be read; a response has one unit of data, or none.
Response(body) == [state |-> "sent", url |-> TRUE, body |-> body]
Sent(s, d) ==
  IF In(s, d, "building") /\ s.requests[d].url
  THEN {SetRequest(s, d, Response(body)) : body \in {NULL, 0, 1}} ELSE {}

HasBody(s, d) == In(s, d, "sent") /\ s.requests[d].body # NULL
\* Less than what is left is not written, and more is a panic.
get_data(s, d) == When(HasBody(s, d), SetRequest(s, d, [s.requests[d] EXCEPT !.body = 0]))
get_header(s, d) == When(In(s, d, "sent"), store_std_value(s, String))
get_status_code(s, d) == When(In(s, d, "sent"), store_std_value(s, Plain("int")))
net_json(s, d) == IF HasBody(s, d) THEN json_parse(s) ELSE {}
net_html(s, d) == IF HasBody(s, d) THEN parse_with_uri(s) ELSE {}
get_image(s, d) == When(HasBody(s, d), Thing(s, "image"))

\* The older SDK's two functions: the name of each is the other's argument.
net_set_rate_limit(s, n) == {set_rate_limit(s, NULL, n)}
set_rate_limit_period(s, n) == {set_rate_limit(s, n, NULL)}
next_set_rate_limit(s, permits, period) == {set_rate_limit(s, permits, period)}

-----------------------------------------------------------------------------
(* canvas, js and defaults                                                 *)

new_context(s) == {Thing(s, "canvas")}
system_font(s) == {Thing(s, "font")}
load_font(s) == {Thing(s, "online_font")}
new_image(s) == {Thing(s, "image")}
canvas_get_image(s, d) == When(Things(s, d, {"canvas"}), Thing(s, "image"))
get_image_data(s, d) == When(Things(s, d, {"image"}), store_std_value(s, Plain("bytes")))
context_create(s) == {Thing(s, "js")}
context_eval(s, d) == When(Things(s, d, {"js"}), store_std_value(s, String))
context_get(s, d) == When(Things(s, d, {"js"}), store_std_value(s, String))
defaults_get(s) == {mark_str_encode(store_std_value(s, v), s.pointer) : v \in {String, Plain("bytes")}}

-----------------------------------------------------------------------------
(* Calls of the host, which leave their arguments in the store             *)

Within(t) ==
  /\ t.pointer <= MaxPointer[uses]
  /\ \A d \in DOMAIN t.values :
       /\ Len(t.values[d].docs) <= MaxItems /\ Len(t.values[d].items) <= MaxItems
       /\ \A i \in DOMAIN t.values[d].items : t.values[d].items[i].items = <<>>

Enter(t, object, end) ==
  /\ frame = NULL /\ Within(t) /\ store' = t
  /\ frame' = [object |-> object, end |-> end, first |-> store.pointer, next |-> t.pointer]
  /\ UNCHANGED <<uses, sending>>
Stored(v) == store_std_value(store, v)
StoredBoth(v, w) == store_std_value(Stored(v), w)
Calls == uses = "calls"

\* What ensure_booted calls, with a new store.
start == store = Empty /\ Enter(store, "none", "cleanup")
search_mangas_by_filters == Calls /\ Enter(Stored(Array(<<Plain("filter")>>)), "none", "cleanup")
get_manga_details == uses \in {"calls", "links"} /\ Enter(Stored(Object(<<String>>)), "manga", "cleanup")
get_chapter_list == Calls /\ Enter(Stored(Object(<<String>>)), "manga", "cleanup")
get_page_list == Calls /\ Enter(Stored(Object(<<String>>)), "chapter", "cleanup")
get_search_manga_list == Calls /\ Enter(StoredBoth(String, Plain("filters")), "none", "cleanup")
get_manga_update == Calls /\ Enter(Stored(Plain("next_manga")), "none", "cleanup")
get_page_list_next == Calls /\ Enter(StoredBoth(Plain("next_manga"), Plain("next_chapter")), "none", "cleanup")
get_manga_list_next == Calls /\ Enter(Stored(Plain("listing")), "none", "cleanup")
process_page_image ==
  Calls /\ Enter(store_std_value(Thing(store, "image"), Plain("image_response")), "none", "cleanup")
handle_notification == Calls /\ Enter(Stored(String), "none", "if_ok")
get_image_request == Calls /\ Enter(SetRequest(create_request(store), store.pointer, [Building EXCEPT !.url = TRUE]), "none", "if_ok")
get_image_request_next ==
  Calls /\ Enter(mark_str_encode(Stored(String), store.pointer), "none", "if_ok")

\* The arguments, none, one or two: what is taken twice was gone.
TakeAll ==
  IF frame.first = frame.next THEN store
  ELSE take_std_value(take_std_value(store, frame.first), frame.next - 1)
Leave(t) ==
  /\ sending = <<>>
  /\ store' = t /\ frame' = NULL
  /\ UNCHANGED <<uses, sending>>

\* The result of an older source stays in its store.
call_cleanup(ok) == frame # NULL /\ frame.end = "cleanup" /\ Leave(TakeAll)
\* These return an error before they come to take what they stored.
ReturnEarly(ok) == frame # NULL /\ frame.end = "if_ok" /\ Leave(IF ok THEN TakeAll ELSE store)

Send(ids) ==
  /\ uses \in {"requests", "limits"} /\ frame # NULL /\ sending = <<>>
  /\ sending' = ids /\ UNCHANGED <<store, uses, frame>>

\* send, and each round of send_all: a permit first, then the request.  It may fail for
\* want of a network, or be cancelled, and then the rest is not sent.
SendNext ==
  /\ sending # <<>>
  /\ \E t \in rate_limit_acquire(store) :
       \/ \E u \in Sent(t, sending[1]) : store' = u /\ sending' = Tail(sending)
       \/ store' = t /\ sending' = <<>>
  /\ UNCHANGED <<uses, frame>>

Tick ==
  /\ store.limit # NULL /\ store.limit.waited < store.limit.period
  /\ store' = [store EXCEPT !.limit.waited = @ + 1]
  /\ UNCHANGED <<uses, sending, frame>>

-----------------------------------------------------------------------------
Does(family, results) ==
  /\ uses = family /\ frame # NULL /\ sending = <<>>
  /\ \E t \in results : Within(t) /\ store' = t
  /\ UNCHANGED <<uses, sending, frame>>
Values(results) == Does("values", results)
Requests(results) == Does("requests", results)
Limits(results) == Does("limits", results)
Network(results) == Requests(results) \/ Limits(results)
Media(results) == Does("media", results)
InCalls(results) == Does("calls", results)

ValueImports ==
  \/ Values(create_value(store, String)) \/ Values(create_value(store, Array(<<>>)))
  \/ Values(create_value(store, Object(<<>>))) \/ Values(json_parse(store))
  \/ \E d \in Handles :
       \/ Values(copy(store, d)) \/ Values(destroy(store, d))
       \/ Values(object_get(store, d)) \/ Values(object_remove(store, d))
       \/ Values(object_keys(store, d)) \/ Values(object_values(store, d))
       \/ Values(array_get(store, d)) \/ Values(array_remove(store, d, 1))
       \/ \E e \in Handles :
            \/ Values(object_set(store, d, e)) \/ Values(array_append(store, d, e))
            \/ Values(array_set(store, d, 1, e))

HtmlImports ==
  \/ Values(parse_with_uri(store)) \/ Values(parse_fragment_with_uri(store))
  \/ Values(next_parse(store)) \/ Values(next_parse_fragment(store))
  \/ \E d \in Handles :
       \/ Values(select(store, d)) \/ Values(attr(store, d)) \/ Values(first(store, d))
       \/ Values(last(store, d)) \/ Values(next(store, d)) \/ Values(previous(store, d))
       \/ Values(base_uri(store, d)) \/ Values(text(store, d)) \/ Values(untrimmed_text(store, d))
       \/ Values(html(store, d)) \/ Values(outer_html(store, d)) \/ Values(own_text(store, d))
       \/ Values(data(store, d)) \/ Values(id(store, d)) \/ Values(tag_name(store, d))
       \/ Values(class_name(store, d)) \/ Values(escape(store, d)) \/ Values(unescape(store, d))
       \/ Values(array(store, d)) \/ Values(select_first(store, d)) \/ Values(parent(store, d))
       \/ Values(child_nodes(store, d)) \/ Values(children(store, d)) \/ Values(siblings(store, d))
       \/ Values(next_next(store, d)) \/ Values(next_previous(store, d)) \/ Values(get(store, d))

NetworkImports ==
  \/ Network(init(store))
  \/ \E n \in 0..1, period \in 0..1 :
       \/ Limits(net_set_rate_limit(store, n)) \/ Limits(set_rate_limit_period(store, n))
       \/ Limits(next_set_rate_limit(store, n, period))
  \/ \E d \in Handles :
       \/ Network(destroy(store, d)) \/ Network(close(store, d)) \/ Network(set_url(store, d))
       \/ Network(get_url(store, d)) \/ Network(get_data(store, d)) \/ Network(get_header(store, d))
       \/ Network(get_status_code(store, d)) \/ Network(net_json(store, d))
       \/ Requests(net_html(store, d)) \/ Network(get_image(store, d))
       \/ \E e \in Handles : Send(<<d>>) \/ Send(<<d, e>>)

MediaImports ==
  \/ Media(new_context(store)) \/ Media(system_font(store)) \/ Media(load_font(store))
  \/ Media(new_image(store)) \/ Media(context_create(store)) \/ Media(defaults_get(store))
  \/ \E d \in Handles :
       \/ Media(canvas_get_image(store, d)) \/ Media(get_image_data(store, d))
       \/ Media(context_eval(store, d)) \/ Media(context_get(store, d)) \/ Media(destroy(store, d))

CallImports ==
  \/ InCalls(create_manga(store)) \/ InCalls(create_chapter(store)) \/ InCalls(create_page(store))
  \/ InCalls(create_value(store, Array(<<>>)))
  \/ Does("links", create_manga(store)) \/ Does("links", create_chapter(store))
  \/ \E d, e \in Handles :
       \/ InCalls(create_manga_result(store, d)) \/ Does("links", create_deeplink(store, d, e))
       \/ InCalls(array_append(store, d, e)) \/ InCalls(destroy(store, d))

HostCalls ==
  \/ start \/ search_mangas_by_filters \/ get_manga_details \/ get_chapter_list \/ get_page_list
  \/ get_search_manga_list \/ get_manga_update \/ get_page_list_next \/ get_manga_list_next
  \/ process_page_image \/ handle_notification \/ get_image_request \/ get_image_request_next
  \/ \E ok \in BOOLEAN : call_cleanup(ok) \/ ReturnEarly(ok)

Next ==
  HostCalls \/ ValueImports \/ HtmlImports \/ NetworkImports \/ MediaImports \/ CallImports
  \/ SendNext \/ Tick

Spec == Init /\ [][Next]_vars
\* Time passes, and a thread that sleeps wakes up.
Fairness == WF_vars(Tick) /\ WF_vars(SendNext)

-----------------------------------------------------------------------------
TypeOK ==
  /\ store.pointer \in 0..MaxPointer[uses]
  /\ DOMAIN store.values \cup DOMAIN store.requests \cup DOMAIN store.things \cup store.htmls
       \subseteq 0..(store.pointer - 1)
  /\ DOMAIN store.refs = store.htmls

\* A document is kept as long as a value of the store is made of its elements, and no
\* longer, and its count is their number.  Only what was taken out of an array or an
\* object, where elements are not counted, may come without its document.
DocumentsHeld ==
  /\ \A x \in store.htmls :
       /\ store.refs[x] > 0
       /\ store.refs[x] = SumFunction([d \in DOMAIN store.values |-> Occurs(store.values[d], x)])
  /\ \A d \in DOMAIN store.values \ store.late : Alive(store, store.values[d]) = store.values[d].docs

\* A source that waits for a permit gets one, unless it asked for none at all.
SendEnds == (sending # <<>> /\ LimitOf(store, "permits", Many) > 0) ~> sending = <<>>
=============================================================================
