------------------------------- MODULE AdminUi -------------------------------
(***************************************************************************)
(* The Admin UI (apps/admin-ui/src/App.tsx): one browser tab, its panels,  *)
(* and the requests it has under way.  A panel is loaded by an effect of   *)
(* useAsyncData; when the query of the panel changes or its view is left,  *)
(* the effect is cleaned up, but its request is not aborted and its answer *)
(* still comes.  Buttons send requests that are not ordered with the loads *)
(* or with each other, and whose answers come late, or never.              *)
(*                                                                         *)
(* React runs the effects of a click before the next one, so a click and   *)
(* its effects are one step.  So are an answer and the effects that depend *)
(* on what it brings, which React runs after it has painted: the one frame *)
(* that shows the answer beside the old editor or selection is left out.   *)
(***************************************************************************)
EXTENDS Naturals, SequencesExt

CONSTANTS Scopes, Queues,     \* what the server lists, as sequences
          Items,              \* the draft of the first scope; the others are empty
          Clients, Registered, \* the keys of clients, and those the server knows
          Keys, Values, DeadLetters,
          None,
          EmptyObject,        \* the JSON value {}
          MaxClicks,          \* bound: what the user does
          MaxFaults           \* bound: requests that fail although the token is right

ASSUME BoundsAssumption == MaxClicks \in Nat /\ MaxFaults \in Nat

\* Items of a draft: those there are, and those that a user can save.
JsonValues == Values \cup {EmptyObject}
ItemKeys == Keys \cup {Items[i].key : i \in DOMAIN Items}
Item == [key : ItemKeys, value : JsonValues, deleted : BOOLEAN]

ASSUME ServerAssumption ==
    /\ Scopes \in Seq(Range(Scopes)) /\ Queues \in Seq(Range(Queues))
    /\ Items \in Seq(Item)
    /\ None \notin Range(Scopes) \cup Range(Queues)

VARIABLES token,        \* pgapp_admin_token in sessionStorage
          tokenReady, view,
          load,         \* panel -> its LoadState
          selected,     \* the scope ConfigDetails is about
          editor,       \* ConfigDetails: selectedKey, jsonValue, schemaValue
          feedback, secret,
          net,          \* <<panel or "click", click>> -> request without an answer
          server,       \* its states, the present one last
          clicks,       \* how often the user did something
          mounted,      \* the click that opened the view
          faults

session == <<token, tokenReady>>
forms == <<editor, feedback, secret>>
vars == <<session, view, load, selected, forms, net, server, clicks, mounted, faults>>

Views == {"overview", "cache", "mq", "config", "logs", "clients"}

\* The calls of useAsyncData, by the component that makes them.
App == {"overview"}
CacheView == {"namespaces", "entries"}
MqView == {"queues", "messages", "dlq"}
ConfigView == {"scopes"}
ConfigDetails == {"draft", "releases", "schema"}
LogsView == {"logs"}
ClientsView == {"clients"}

\* What a view loads when it is opened.  OverviewView shows what App loads;
\* ConfigView opens ConfigDetails when it has its scopes.
Panels == [overview |-> {}, cache |-> CacheView, mq |-> MqView, config |-> ConfigView,
           logs |-> LogsView, clients |-> ClientsView]
AllPanels == App \cup ConfigDetails \cup UNION {Panels[v] : v \in Views}

\* All that goes when view v is left, the buttons' requests included.
Under(v) == Panels[v] \cup {"click"} \cup (IF v = "config" THEN ConfigDetails ELSE {})

Now == Len(server)
Present == server[Now]

\* What a load brings: the items for a query at some time.
Page(items, query, at) == [items |-> items, query |-> query, at |-> at]

\* since: when the effect ran.
LoadState(status) == [status |-> status, since |-> Now, data |-> Page(<<>>, None, Now)]
Off == [status |-> "off", since |-> 0, data |-> Page(<<>>, None, 0)]

\* Texts of a JSON editor: of a value, or one that JSON.parse refuses.  Texts
\* are what the user types.
Text(v) == [json |-> v]
Garbage == Text(None)
Texts == {Text(v) : v \in Values} \cup {Garbage}

NewEditor == [key |-> "", text |-> Text(EmptyObject), schema |-> Text(EmptyObject), edited |-> FALSE]

\* What the feedback tells: nothing yet (of the click), a failure, or that the
\* request of a click is done; subject: the client a secret is said to be of.
Blank(n) == [tells |-> "nothing", click |-> n, subject |-> None]
Failure == [tells |-> "failure", click |-> 0, subject |-> None]
Done(n, c) == [tells |-> "done", click |-> n, subject |-> c]

NoSecret == [client |-> None, no |-> 0]

\* fetchJson reads the token when the request is made.
Request(op, about, tok) ==
    [op |-> op, about |-> about, token |-> tok, cancelled |-> FALSE, sent |-> Now,
     executed |-> FALSE, reply |-> 0]

Init ==
    /\ token \in {"none", "wrong", "right"}
    /\ tokenReady = (token # "none")
    /\ view = "overview" /\ clicks = 0 /\ mounted = 0 /\ faults = 0
    /\ server \in {<<[scopes |-> IF empty THEN <<>> ELSE Scopes, queues |-> IF empty THEN <<>> ELSE Queues,
                    draft |-> [s \in Range(Scopes) |-> IF s = Scopes[1] THEN Items ELSE <<>>],
                    schema |-> [s \in Range(Scopes) |-> <<>>],
                    releases |-> [s \in Range(Scopes) |-> <<>>],
                    visible |-> [q \in Range(Queues) |-> {}],
                    dlq |-> [q \in Range(Queues) |-> DeadLetters],
                    issued |-> [c \in Clients |-> IF c \in Registered THEN 1 ELSE 0],
                    applied |-> {}]>> : empty \in BOOLEAN}
    /\ load = [p \in AllPanels |-> IF p # "overview" THEN Off
                                   ELSE LoadState(IF tokenReady THEN "loading" ELSE "error")]
    /\ selected = None /\ editor = NewEditor /\ feedback = Blank(0) /\ secret = NoSecret
    /\ net = [i \in {<<p, 0>> : p \in IF tokenReady THEN {"overview"} ELSE {}} |->
                 Request("load", <<None>>, token)]
-----------------------------------------------------------------------------
(* useAsyncData *)

CancelNothing(pending, stops) == pending

\* The cleanup of an effect sets its cancelled flag.
Cancel(pending, stops) ==
    [i \in DOMAIN pending |->
        IF i[1] \in stops THEN [pending[i] EXCEPT !.cancelled = TRUE] ELSE pending[i]]

\* Effects that run because their panel is new or its query changed, after
\* the cleanups of what is stopped.  starts: panel -> query.  Without a queue
\* there is nothing to ask for: the factory resolves to an empty page.
Effects(current, pending, starts, stops) ==
    LET asks == {p \in DOMAIN starts : ~(p \in {"messages", "dlq"} /\ starts[p] = None)}
        kept == Cancel(pending, stops \cup DOMAIN starts)
        new == {<<p, clicks'>> : p \in asks}
    IN  /\ load' = [p \in AllPanels |->
                       IF p \in asks THEN LoadState("loading")
                       ELSE IF p \in DOMAIN starts THEN LoadState("ready")
                       ELSE IF p \in stops THEN Off ELSE current[p]]
        /\ net' = [i \in DOMAIN kept \cup new |->
                      IF i \in new THEN Request("load", <<starts[i[1]]>>, token') ELSE kept[i]]

Click == clicks < MaxClicks /\ clicks' = clicks + 1

\* A component that is mounted starts with fresh state.
Mount(v) ==
    /\ view' = v
    /\ mounted' = clicks'
    /\ selected' = None /\ editor' = NewEditor /\ feedback' = Blank(0) /\ secret' = NoSecret

Starting(panels) == [p \in panels |-> None]

SaveTokenBlank(t) ==
    /\ Click /\ ~tokenReady
    /\ token' = (IF t = "blank" THEN "none" ELSE t) /\ tokenReady' = TRUE
    /\ Mount(view)
    /\ Effects(load, net, Starting(App \cup Panels[view]), {})
    /\ UNCHANGED <<server, faults>>

\* TokenPrompt: a blank token is not saved.
SaveToken(t) ==
    /\ Click /\ ~tokenReady
    /\ t # "blank"
    /\ token' = t /\ tokenReady' = TRUE
    /\ Mount(view)
    /\ Effects(load, net, Starting(App \cup Panels[view]), {})
    /\ UNCHANGED <<server, faults>>

Navigate(v) ==
    /\ Click /\ v # view
    /\ UNCHANGED <<session, server, faults>>
    /\ Mount(v)
    /\ Effects(load, net, Starting(IF tokenReady THEN Panels[v] ELSE {}), Under(view))

\* The tab is loaded again: sessionStorage is all that is left.
Reload ==
    /\ Click
    /\ token' = token /\ tokenReady' = (token # "none")
    /\ Mount("overview")
    /\ Effects([load EXCEPT !["overview"] = LoadState("error")], net,
               Starting(IF tokenReady' THEN App ELSE {}), (AllPanels \ App) \cup {"click"})
    /\ UNCHANGED <<server, faults>>

\* The scope changes under ConfigDetails, which keeps its other state.
SelectScope(s) ==
    /\ Click /\ selected # None /\ s # selected
    /\ s \in Range(load["scopes"].data.items)
    /\ selected' = s
    /\ UNCHANGED <<session, view, forms, server, mounted, faults>>
    /\ Effects(load, net, [p \in ConfigDetails |-> s], {})
-----------------------------------------------------------------------------
(* The forms and the buttons. *)

Ask(op, about) ==
    /\ feedback' = Blank(clicks')
    /\ net' = [i \in DOMAIN net \cup {<<"click", clicks'>>} |->
                  IF i = <<"click", clicks'>> THEN Request(op, about, token) ELSE net[i]]

Complain == feedback' = Failure /\ UNCHANGED net

TypeKey(k) ==
    /\ Click /\ selected # None
    /\ editor' = [editor EXCEPT !.key = k, !.edited = TRUE]
    /\ UNCHANGED <<session, view, load, selected, feedback, secret, net, server, mounted, faults>>

TypeValue(t) ==
    /\ Click /\ selected # None
    /\ editor' = [editor EXCEPT !.text = t, !.edited = TRUE]
    /\ UNCHANGED <<session, view, load, selected, feedback, secret, net, server, mounted, faults>>

TypeSchema(t) ==
    /\ Click /\ load["schema"].status = "ready"
    /\ editor' = [editor EXCEPT !.schema = t]
    /\ UNCHANGED <<session, view, load, selected, feedback, secret, net, server, mounted, faults>>

\* Save and Publish can be pressed while the draft is still loading.
saveItem ==
    /\ Click /\ selected # None
    /\ IF editor.text = Garbage \/ editor.key = "" THEN Complain
       ELSE Ask("saveItem", <<selected, editor.key, editor.text.json>>)
    /\ UNCHANGED <<session, view, load, selected, editor, secret, server, mounted, faults>>

saveSchema ==
    /\ Click /\ selected # None
    /\ IF editor.schema = Garbage THEN Complain
       ELSE Ask("saveSchema", <<selected, editor.schema.json>>)
    /\ UNCHANGED <<session, view, load, selected, editor, secret, server, mounted, faults>>

removeSchema ==
    /\ Click /\ selected # None
    /\ Ask("removeSchema", <<selected>>)
    /\ UNCHANGED <<session, view, load, selected, editor, secret, server, mounted, faults>>

publish ==
    /\ Click /\ selected # None
    /\ Ask("publish", <<selected>>)
    /\ UNCHANGED <<session, view, load, selected, editor, secret, server, mounted, faults>>

selectedQueue ==
    IF load["queues"].status = "ready" /\ load["queues"].data.items # <<>>
    THEN load["queues"].data.items[1] ELSE None

\* A button of a row of the dead letter table.
reprocessDlq(m) ==
    /\ Click /\ selectedQueue # None
    /\ load["dlq"].status = "ready" /\ Contains(load["dlq"].data.items, m)
    /\ Ask("reprocessDlq", <<selectedQueue, m>>)
    /\ UNCHANGED <<session, view, load, selected, editor, secret, server, mounted, faults>>

purgeDlq ==
    /\ Click /\ selectedQueue # None
    /\ Ask("purgeDlq", <<selectedQueue>>)
    /\ UNCHANGED <<session, view, load, selected, editor, secret, server, mounted, faults>>

createClient(c) ==
    /\ Click /\ load["clients"].status = "ready"
    /\ secret' = NoSecret
    /\ IF c = "" THEN Complain ELSE Ask("createClient", <<c>>)
    /\ UNCHANGED <<session, view, load, selected, editor, server, mounted, faults>>

rotateClient(c) ==
    /\ Click /\ Contains(load["clients"].data.items, c)
    /\ secret' = NoSecret
    /\ Ask("rotateClient", <<c>>)
    /\ UNCHANGED <<session, view, load, selected, editor, server, mounted, faults>>

\* Unlike the other two it leaves the secret on the screen.
deactivateClient(c) ==
    /\ Click /\ Contains(load["clients"].data.items, c)
    /\ Ask("deactivateClient", <<c>>)
    /\ UNCHANGED <<session, view, load, selected, editor, secret, server, mounted, faults>>
-----------------------------------------------------------------------------
(* The Admin HTTP API. *)

\* What a load finds.
Contents(at, p, q) ==
    CASE p = "scopes" -> at.scopes
      [] p = "draft" -> at.draft[q]
      [] p = "schema" -> at.schema[q]
      [] p = "releases" -> at.releases[q]
      [] p = "queues" -> at.queues
      [] p = "messages" -> SetToSeq(at.visible[q])
      [] p = "dlq" -> SetToSeq(at.dlq[q])
      [] p = "clients" -> SetToSeq({c \in Clients : at.issued[c] > 0})
      [] OTHER -> <<>>

Put(items, k, v) ==
    LET item == [key |-> k, value |-> v, deleted |-> FALSE]
    IN  IF \E i \in DOMAIN items : items[i].key = k
        THEN [i \in DOMAIN items |-> IF items[i].key = k THEN item ELSE items[i]]
        ELSE Append(items, item)

Executed(op, a) ==
    CASE op = "saveItem" -> [Present EXCEPT !.draft[a[1]] = Put(@, a[2], a[3])]
      [] op = "saveSchema" -> [Present EXCEPT !.schema[a[1]] = <<a[2]>>]
      [] op = "removeSchema" -> [Present EXCEPT !.schema[a[1]] = <<>>]
      [] op = "publish" -> [Present EXCEPT !.releases[a[1]] = <<Present.draft[a[1]]>> \o @]
      [] op = "reprocessDlq" -> [Present EXCEPT !.dlq[a[1]] = @ \ {a[2]}, !.visible[a[1]] = @ \cup {a[2]}]
      [] op = "purgeDlq" -> [Present EXCEPT !.dlq[a[1]] = {}]
      [] op \in {"createClient", "rotateClient"} -> [Present EXCEPT !.issued[a[1]] = @ + 1]
      [] op = "deactivateClient" -> Present

\* Secrets are numbered, by client.
Issues(r) == r.op \in {"createClient", "rotateClient"}
Reply(r) == IF Issues(r) THEN Present.issued[r.about[1]] + 1 ELSE 0

Acceptable(r) ==
    /\ r.token = "right"
    /\ r.op = "createClient" => Present.issued[r.about[1]] = 0
    /\ r.op = "reprocessDlq" => r.about[2] \in Present.dlq[r.about[1]]

\* The request of a button takes effect.
Execute(i) ==
    /\ i[1] = "click" /\ ~net[i].executed
    /\ Acceptable(net[i])
    /\ net' = [net EXCEPT ![i].executed = TRUE, ![i].reply = Reply(net[i])]
    /\ server' = Append(server, [Executed(net[i].op, net[i].about) EXCEPT !.applied = @ \cup {i[2]}])
    /\ UNCHANGED <<session, view, load, selected, forms, clicks, mounted, faults>>
-----------------------------------------------------------------------------
(* Answers.  A panel takes the answer of its effect unless the effect has  *)
(* been cleaned up; a button's handler resumes where it awaited.  A load   *)
(* was answered with what there was at some time after it was sent.        *)

Responses == {"ok", "refused", "unreachable"}

fetchJsonUnchecked(response) == response # "unreachable"

\* Whether the promise is fulfilled: not when fetch throws, nor when the
\* response is not ok.
fetchJson(response) == response \notin {"refused", "unreachable"}

Rest(i) == [j \in DOMAIN net \ {i} |-> net[j]]

\* draft.data.items.find((item) => !item.deleted) ?? draft.data.items[0]
First(items) ==
    LET live == SelectInSeq(items, LAMBDA item : ~item.deleted)
    IN  IF live # 0 THEN items[live] ELSE items[1]

FillEditorIfAny(items) ==
    IF items = <<>> THEN editor
    ELSE [editor EXCEPT !.key = First(items).key, !.text = Text(First(items).value), !.edited = FALSE]

FillEditor(items) ==
    IF items = <<>> THEN [editor EXCEPT !.key = "", !.text = Text(EmptyObject), !.edited = FALSE]
    ELSE [editor EXCEPT !.key = First(items).key, !.text = Text(First(items).value), !.edited = FALSE]

FillSchema(items) ==
    [editor EXCEPT !.schema = IF items = <<>> THEN Text(EmptyObject) ELSE Text(items[1])]

\* The answer, and what is rendered because of it: MqView picks its queue,
\* ConfigView its scope, ConfigDetails fills its editors.
Resolved(p, q, at, rest) ==
    LET items == Contents(server[at], p, q)
        current == [load EXCEPT ![p].status = "ready", ![p].data = Page(items, q, at)]
        starts == CASE p = "queues" /\ items # <<>> -> [h \in {"messages", "dlq"} |-> items[1]]
                    [] p = "scopes" /\ items # <<>> -> [h \in ConfigDetails |-> items[1]]
                    [] OTHER -> Starting({})
    IN  /\ selected' = IF p = "scopes" /\ items # <<>> THEN items[1] ELSE selected
        /\ editor' = CASE p = "draft" -> FillEditor(items)
                       [] p = "schema" -> FillSchema(items)
                       [] OTHER -> editor
        /\ Effects(current, rest, starts, {})

Rejected(p, rest) ==
    /\ load' = [load EXCEPT ![p].status = "error"]
    /\ net' = rest
    /\ UNCHANGED <<selected, editor>>

Loaded(i, response) ==
    /\ i[1] # "click"
    /\ response = "ok" => net[i].token = "right"
    /\ \/ /\ net[i].cancelled
          /\ net' = Rest(i) /\ UNCHANGED <<load, selected, editor>>
       \/ /\ ~net[i].cancelled /\ fetchJson(response)
          /\ \E at \in net[i].sent .. Now : Resolved(i[1], net[i].about[1], at, Rest(i))
       \/ /\ ~net[i].cancelled /\ ~fetchJson(response)
          /\ Rejected(i[1], Rest(i))
    /\ UNCHANGED <<feedback, secret>>

ShowKept(r) == IF secret = NoSecret THEN [client |-> r.about[1], no |-> r.reply] ELSE secret

Show(r) == [client |-> r.about[1], no |-> r.reply]

Succeeded(n, r) ==
    /\ feedback' = Done(n, IF Issues(r) THEN r.about[1] ELSE None)
    /\ secret' = IF Issues(r) THEN Show(r) ELSE secret
    /\ editor' = IF r.op = "removeSchema" THEN [editor EXCEPT !.schema = Text(EmptyObject)] ELSE editor

FailedSilently == UNCHANGED forms

Failed == feedback' = Failure /\ UNCHANGED <<secret, editor>>

\* The state of a component that is no longer mounted is gone.
Answered(i, response) ==
    /\ i[1] = "click"
    /\ response = "ok" => net[i].executed
    /\ response = "refused" => ~net[i].executed
    /\ net' = Rest(i)
    /\ \/ net[i].cancelled /\ UNCHANGED forms
       \/ ~net[i].cancelled /\ fetchJson(response) /\ Succeeded(i[2], net[i])
       \/ ~net[i].cancelled /\ ~fetchJson(response) /\ Failed
    /\ UNCHANGED <<load, selected>>

\* Refused by the server, or no answer although it may have been executed.
Settle(i, response) ==
    /\ faults' = IF response = "ok" \/ (response = "refused" /\ ~Acceptable(net[i])) THEN faults ELSE faults + 1
    /\ faults' <= MaxFaults
    /\ UNCHANGED <<session, view, server, clicks, mounted>>
    /\ Loaded(i, response) \/ Answered(i, response)

Next ==
    \/ \E t \in {"blank", "wrong", "right"} : SaveToken(t)
    \/ \E v \in Views : Navigate(v)
    \/ Reload
    \/ \E s \in Range(Scopes) : SelectScope(s)
    \/ \E k \in Keys \cup {""} : TypeKey(k)
    \/ \E t \in Texts : TypeValue(t) \/ TypeSchema(t)
    \/ saveItem \/ saveSchema \/ removeSchema \/ publish
    \/ \E m \in DeadLetters : reprocessDlq(m)
    \/ purgeDlq
    \/ \E c \in Clients \cup {""} : createClient(c)
    \/ \E c \in Clients : rotateClient(c) \/ deactivateClient(c)
    \/ \E i \in DOMAIN net : Execute(i)
    \/ \E i \in DOMAIN net, response \in Responses : Settle(i, response)

Spec == Init /\ [][Next]_vars

\* The server answers and the browser settles every fetch.
FairSpec ==
    /\ Spec
    /\ WF_vars(\E i \in DOMAIN net :
                  Execute(i) \/ \E response \in Responses : Settle(i, response))
-----------------------------------------------------------------------------
(* What is checked. *)

JsonTexts == [json : JsonValues \cup {None}]
Editors == [key : ItemKeys \cup {""}, text : JsonTexts, schema : JsonTexts, edited : BOOLEAN]
Feedbacks == [tells : {"nothing", "failure", "done"}, click : 0 .. clicks, subject : Clients \cup {None}]
Secrets == [client : Clients \cup {None}, no : Nat]

ServerState ==
    [scopes : {<<>>, Scopes}, queues : {<<>>, Queues},
     draft : [Range(Scopes) -> Seq(Item)], schema : [Range(Scopes) -> Seq(JsonValues)],
     releases : [Range(Scopes) -> Seq(Seq(Item))],
     visible : [Range(Queues) -> SUBSET DeadLetters], dlq : [Range(Queues) -> SUBSET DeadLetters],
     issued : [Clients -> Nat], applied : SUBSET Nat]

\* What the request of a button is about.
ScopeOps == {"removeSchema", "publish"}
ClientOps == {"createClient", "rotateClient", "deactivateClient"}
ClickOps == {"saveItem", "saveSchema", "reprocessDlq", "purgeDlq"} \cup ScopeOps \cup ClientOps

About(op) ==
    CASE op = "saveItem" -> Range(Scopes) \X ItemKeys \X JsonValues
      [] op = "saveSchema" -> Range(Scopes) \X JsonValues
      [] op = "reprocessDlq" -> Range(Queues) \X DeadLetters
      [] op \in ScopeOps -> {<<s>> : s \in Range(Scopes)}
      [] op = "purgeDlq" -> {<<q>> : q \in Range(Queues)}
      [] op \in ClientOps -> {<<c>> : c \in Clients}
      [] op = "load" -> {<<q>> : q \in Range(Scopes) \cup Range(Queues) \cup {None}}

\* A request is one of a panel or of a button, and carries a token.
RequestOK(i) ==
    /\ i \in (AllPanels \cup {"click"}) \X (0 .. clicks)
    /\ net[i] \in [op : IF i[1] = "click" THEN ClickOps ELSE {"load"}, about : About(net[i].op),
                   token : {"wrong", "right"}, cancelled : BOOLEAN, sent : 1 .. Now,
                   executed : BOOLEAN, reply : Nat]

\* The pages of a panel differ; that of MqView's queues is the one read from.
PanelOK(p, s) ==
    /\ s = [status |-> s.status, since |-> s.since, data |-> Page(s.data.items, s.data.query, s.data.at)]
    /\ s.status \in {"off", "loading", "error", "ready"}
    /\ s.since \in 0 .. Now
    /\ p = "queues" => s.data.items \in {<<>>, Queues}

TypeOK ==
    /\ token \in {"none", "wrong", "right"} /\ tokenReady = (token # "none")
    /\ view \in Views
    /\ load = [p \in AllPanels |-> load[p]] /\ \A p \in AllPanels : PanelOK(p, load[p])
    /\ selected \in Range(Scopes) \cup {None}
    /\ editor \in Editors /\ feedback \in Feedbacks /\ secret \in Secrets
    /\ net = [i \in DOMAIN net |-> net[i]] /\ \A i \in DOMAIN net : RequestOK(i)
    /\ server \in Seq(ServerState) /\ server # <<>>
    /\ clicks \in 0 .. MaxClicks /\ mounted \in 0 .. clicks /\ faults \in 0 .. MaxFaults

Query(p) == CASE p \in ConfigDetails -> selected
              [] p \in {"messages", "dlq"} -> selectedQueue
              [] OTHER -> None

\* A table shows the scope or the queue that is selected, as the server had
\* it when it was selected or later, although answers of earlier selections
\* arrive in any order; and it belongs to the view that is open.  That is all
\* that can be said: the effects depend on the selection alone, so a table
\* does not show what is saved or published while it is open, which the
\* specification of the Config Center asks for.
FreshPanels ==
    \A p \in AllPanels :
        load[p].status = "ready" =>
            /\ p \in App \cup Under(view)
            /\ load[p].data.query = Query(p)
            /\ load[p].data.at >= load[p].since

\* Once the draft of the selected scope has been loaded, the editor holds its
\* first live item, or nothing if there is none, unless the user has typed.
\* It says nothing of a draft that is still loading or could not be loaded:
\* the editor then has the item of the scope that was selected before, and
\* Save writes it into the new one.
EditorFollowsDraft ==
    load["draft"].status = "ready" /\ ~editor.edited =>
        LET items == load["draft"].data.items
        IN  IF items = <<>> THEN editor.key = "" /\ editor.text = Text(EmptyObject)
            ELSE editor.key = First(items).key /\ editor.text = Text(First(items).value)

\* Success is reported only of a request that the server executed, and that
\* was made since the view was opened.
HonestFeedback ==
    feedback.tells = "done" => feedback.click \in Present.applied /\ feedback.click > mounted

\* A secret that is on the screen beside "Created c" or "Rotated c" is one
\* that was issued to c, not that of another answer that came before.
SecretIsOfTheNamed ==
    feedback.subject # None =>
        secret.client = feedback.subject /\ secret.no \in 1 .. Present.issued[feedback.subject]

\* Before a token is saved nothing is asked for, and the overview says so.
SignedOut ==
    ~tokenReady =>
        /\ DOMAIN net = {} /\ selected = None
        /\ \A p \in AllPanels :
              /\ load[p].status = IF p = "overview" THEN "error" ELSE "off"
              /\ load[p].data.items = <<>>

\* What there is of a panel belongs to the open view; ConfigDetails has a scope.
PanelsBelong ==
    /\ \A p \in AllPanels :
          load[p].status # "off" => p \in App \cup Under(view) /\ (p \in ConfigDetails => selected # None)
    /\ selected # None => view = "config"

\* Of the requests of a panel all but one have been cleaned up; that one is
\* what the panel is loading, it asks for what is selected and was sent when
\* that was selected or later.
OneEffect ==
    /\ \A i, j \in DOMAIN net :
          i[1] # "click" /\ i[1] = j[1] /\ ~net[i].cancelled /\ ~net[j].cancelled => i = j
    /\ \A i \in DOMAIN net :
          i[1] # "click" /\ ~net[i].cancelled =>
              /\ load[i[1]].status = "loading"
              /\ net[i].about = <<Query(i[1])>>
              /\ net[i].sent >= load[i[1]].since

\* What waits for an answer has a request under way that brings it.
LoadsUnderWay ==
    \A p \in AllPanels :
        load[p].status = "loading" => \E i \in DOMAIN net : i[1] = p /\ ~net[i].cancelled

ClickUnderWay ==
    feedback.tells = "nothing" /\ feedback.click # 0 =>
        <<"click", feedback.click>> \in DOMAIN net /\ ~net[<<"click", feedback.click>>].cancelled

\* A button's request that was executed has left its trace at the server, and
\* one that is still awaited was made since the view was opened.
ClicksSound ==
    \A i \in DOMAIN net :
        i[1] = "click" =>
            /\ ~net[i].cancelled => i[2] > mounted
            /\ net[i].executed =>
                  /\ i[2] \in Present.applied
                  /\ Issues(net[i]) => net[i].reply \in 1 .. Present.issued[net[i].about[1]]

\* The inductive invariant: each of these holds because of the others.
IInv ==
    /\ TypeOK /\ SignedOut
    /\ PanelsBelong /\ OneEffect /\ FreshPanels /\ LoadsUnderWay /\ EditorFollowsDraft
    /\ ClicksSound /\ ClickUnderWay /\ HonestFeedback /\ SecretIsOfTheNamed

\* When the user pauses, no panel goes on saying Loading and no button stays
\* without feedback: every path of useAsyncData and of the handlers ends in
\* one, also when the request fails.
EverythingIsAnswered ==
    <>[](/\ \A p \in AllPanels : load[p].status # "loading"
         /\ feedback.tells = "nothing" => feedback.click = 0)
=============================================================================
