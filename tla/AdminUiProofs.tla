---------------------------- MODULE AdminUiProofs ----------------------------
(***************************************************************************)
(* That the Admin UI shows what is selected and tells the truth about what *)
(* its buttons did, whatever the user does, however many requests are      *)
(* under way and in whatever order they are answered.                      *)
(***************************************************************************)
EXTENDS AdminUi, WellFoundedInduction, TLAPS

LEMMA PanelNames ==
    /\ AllPanels = {"overview", "namespaces", "entries", "queues", "messages", "dlq", "scopes",
                    "draft", "releases", "schema", "logs", "clients"}
    /\ "click" \notin AllPanels
    /\ \A v \in Views : Panels[v] \subseteq AllPanels
<1>1. DOMAIN Panels = Views
  BY DEF Panels, Views
<1>2. UNION {Panels[v] : v \in Views} =
        Panels["overview"] \cup Panels["cache"] \cup Panels["mq"] \cup Panels["config"]
        \cup Panels["logs"] \cup Panels["clients"]
  BY DEF Views
<1>3. /\ Panels["overview"] = {} /\ Panels["cache"] = CacheView /\ Panels["mq"] = MqView
      /\ Panels["config"] = ConfigView /\ Panels["logs"] = LogsView
      /\ Panels["clients"] = ClientsView
  BY DEF Panels
<1>4. AllPanels = {"overview", "namespaces", "entries", "queues", "messages", "dlq", "scopes",
                    "draft", "releases", "schema", "logs", "clients"}
  BY <1>2, <1>3 DEF AllPanels, App, CacheView, MqView, ConfigView, ConfigDetails, LogsView, ClientsView
<1> QED BY <1>2, <1>4 DEF AllPanels, Views

\* What is under a view, and that two views share nothing but the buttons.
LEMMA UnderNames ==
    /\ \A v \in Views : Panels[v] \subseteq Under(v) /\ "click" \in Under(v)
    /\ \A v \in Views, p \in ConfigDetails : p \in Under(v) => v = "config"
    /\ \A v \in Views : Under(v) \cap App = {}
    /\ \A v, u \in Views : v # u => Panels[v] \cap Under(u) = {}
    /\ \A v \in Views : Panels[v] \cap (ConfigDetails \cup App) = {}
<1>3. /\ Panels["overview"] = {} /\ Panels["cache"] = CacheView /\ Panels["mq"] = MqView
      /\ Panels["config"] = ConfigView /\ Panels["logs"] = LogsView
      /\ Panels["clients"] = ClientsView
  BY DEF Panels
<1>4. \A v \in Views : v \in {"overview", "cache", "mq", "config", "logs", "clients"}
  BY DEF Views
<1> QED BY <1>3, <1>4
     DEF Under, App, CacheView, MqView, ConfigView, ConfigDetails, LogsView, ClientsView

LEMMA LeastExists ==
    ASSUME NEW S \in SUBSET Nat, S # {} PROVE Min(S) \in S
<1>1. PICK x \in S : \A y \in S : ~(<<y, x>> \in OpToRel(<, Nat))
  BY NatLessThanWellFounded, WFMin
<1>2. ASSUME NEW y \in S PROVE ~(y < x)
  BY <1>1, Zenon DEF OpToRel
<1>3. \A y \in S : x <= y
  BY <1>2
<1> QED BY <1>3 DEF Min

\* What the editor is filled with is an item of the draft.
LEMMA FirstIsItem ==
    ASSUME NEW items \in Seq(Item), items # <<>> PROVE First(items) \in Item
<1>1. PICK I : I = {i \in 1..Len(items) : ~items[i].deleted}
  OBVIOUS
<1>2. I # {} => Min(I) \in I
  <2>1. I \in SUBSET Nat
    BY <1>1
  <2> QED BY <2>1, LeastExists
<1>3. SelectInSeq(items, LAMBDA item : ~item.deleted) = IF I # {} THEN Min(I) ELSE 0
  BY <1>1 DEF SelectInSeq
<1>4. CASE I = {}
  BY <1>3, <1>4 DEF First
<1>5. CASE I # {}
  BY <1>1, <1>2, <1>3, <1>5 DEF First
<1> QED BY <1>4, <1>5

LEMMA ServerFacts ==
    ASSUME TypeOK PROVE Now \in Nat \ {0} /\ Present \in ServerState
<1>1. server \in Seq(ServerState) /\ server # <<>>
  BY DEF TypeOK
<1> HIDE DEF ServerState
<1>2. Len(server) \in Nat \ {0} /\ server[Len(server)] \in ServerState
  BY <1>1
<1> QED BY <1>2 DEF Now, Present

-----------------------------------------------------------------------------
(* Initially. *)

LEMMA OffFacts ==
    /\ Off.status = "off" /\ Off.since = 0 /\ Off.data.items = <<>>
    /\ Off = [status |-> Off.status, since |-> Off.since,
              data |-> Page(Off.data.items, Off.data.query, Off.data.at)]
  BY DEF Off, Page

LEMMA LoadStateFacts ==
    ASSUME NEW st
    PROVE  /\ LoadState(st).status = st /\ LoadState(st).since = Now
           /\ LoadState(st).data.items = <<>> /\ LoadState(st).data.query = None
           /\ LoadState(st).data.at = Now
           /\ LoadState(st) = [status |-> LoadState(st).status, since |-> LoadState(st).since,
                data |-> Page(LoadState(st).data.items, LoadState(st).data.query, LoadState(st).data.at)]
  BY DEF LoadState, Page

LEMMA NewFormsType == NewEditor \in Editors /\ NoSecret \in Secrets
<1>1. Text(EmptyObject) \in JsonTexts
  BY DEF Text, JsonTexts, JsonValues
<1> QED BY <1>1 DEF NewEditor, NoSecret, Editors, Secrets

LEMMA BlankFacts ==
    ASSUME NEW m \in Nat
    PROVE  /\ clicks \in Nat /\ m <= clicks => Blank(m) \in Feedbacks
           /\ clicks' \in Nat /\ m <= clicks' => Blank(m) \in Feedbacks'
           /\ Blank(m).click = m /\ Blank(m).subject = None /\ Blank(m).tells = "nothing"
  BY DEF Blank, Feedbacks

LEMMA FailureType ==
    /\ clicks' \in Nat => Failure \in Feedbacks'
    /\ Failure.tells = "failure" /\ Failure.subject = None
  BY DEF Failure, Feedbacks

LEMMA InitServer == ASSUME Init PROVE server \in Seq(ServerState) /\ Len(server) = 1
<1>1. PICK empty \in BOOLEAN : server =
        <<[scopes |-> IF empty THEN <<>> ELSE Scopes, queues |-> IF empty THEN <<>> ELSE Queues,
                    draft |-> [s \in Range(Scopes) |-> IF s = Scopes[1] THEN Items ELSE <<>>],
                    schema |-> [s \in Range(Scopes) |-> <<>>],
                    releases |-> [s \in Range(Scopes) |-> <<>>],
                    visible |-> [q \in Range(Queues) |-> {}],
                    dlq |-> [q \in Range(Queues) |-> DeadLetters],
                    issued |-> [c \in Clients |-> IF c \in Registered THEN 1 ELSE 0],
                    applied |-> {}]>>
  BY DEF Init
<1>2. Items \in Seq(Item)
  BY ServerAssumption
<1> HIDE DEF Item
<1>3. server[1] \in ServerState
  BY <1>1, <1>2 DEF ServerState
<1> HIDE DEF ServerState
<1> QED BY <1>1, <1>3

LEMMA RequestFields ==
    ASSUME NEW op, NEW about, NEW tok, NEW r, r = Request(op, about, tok)
    PROVE  /\ r.op = op /\ r.about = about /\ r.token = tok /\ ~r.cancelled
           /\ r.sent = Now /\ ~r.executed /\ r.reply = 0
  BY DEF Request

Queries == Range(Scopes) \cup Range(Queues) \cup {None}

LEMMA LoadRequestType ==
    ASSUME NEW q \in Queries, NEW tok \in {"wrong", "right"}, Now \in Nat \ {0}
    PROVE  Request("load", <<q>>, tok) \in
               [op : {"load"}, about : About("load"), token : {"wrong", "right"}, cancelled : BOOLEAN,
                sent : 1 .. Now, executed : BOOLEAN, reply : Nat]
<1>1. <<q>> \in About("load")
  BY DEF About, ScopeOps, ClientOps, Queries
<1>2. PICK A, T : A = About("load") /\ T = {"wrong", "right"}
  OBVIOUS
<1>3. <<q>> \in A /\ tok \in T
  BY <1>1, <1>2
<1>4. Request("load", <<q>>, tok) \in
        [op : {"load"}, about : A, token : T, cancelled : BOOLEAN, sent : 1 .. Now,
         executed : BOOLEAN, reply : Nat]
  BY <1>3 DEF Request
<1> QED BY <1>2, <1>4

LEMMA ClickRequestType ==
    ASSUME NEW op \in ClickOps, NEW about \in About(op), NEW tok \in {"wrong", "right"},
           Now \in Nat \ {0}
    PROVE  Request(op, about, tok) \in
               [op : ClickOps, about : About(op), token : {"wrong", "right"}, cancelled : BOOLEAN,
                sent : 1 .. Now, executed : BOOLEAN, reply : Nat]
<1>1. PICK A, T, O : A = About(op) /\ T = {"wrong", "right"} /\ O = ClickOps
  OBVIOUS
<1>2. op \in O /\ about \in A /\ tok \in T
  BY <1>1
<1>3. Request(op, about, tok) \in
        [op : O, about : A, token : T, cancelled : BOOLEAN, sent : 1 .. Now,
         executed : BOOLEAN, reply : Nat]
  BY <1>2 DEF Request
<1> QED BY <1>1, <1>3

LEMMA InitIInv == Init => IInv
<1> SUFFICES ASSUME Init PROVE IInv
  OBVIOUS
<1>0. /\ Now = 1 /\ clicks = 0 /\ mounted = 0 /\ faults = 0 /\ selected = None
      /\ view = "overview" /\ feedback = Blank(0) /\ secret = NoSecret /\ editor = NewEditor
      /\ token \in {"none", "wrong", "right"} /\ tokenReady = (token # "none")
  BY InitServer DEF Init, Now
<1>1. load = [p \in AllPanels |-> IF p # "overview" THEN Off
                                   ELSE LoadState(IF tokenReady THEN "loading" ELSE "error")]
  BY DEF Init
<1>2. net = [i \in {<<p, 0>> : p \in IF tokenReady THEN {"overview"} ELSE {}} |->
                 Request("load", <<None>>, token)]
  BY DEF Init
<1>3. \A p \in AllPanels : load[p].status # "ready" /\ load[p].since <= Now
                           /\ (p # "overview" => load[p].status = "off") /\ load[p].data.items = <<>>
  BY <1>0, <1>1, OffFacts, LoadStateFacts
<1>4. ASSUME NEW p \in AllPanels PROVE PanelOK(p, load[p])
  BY <1>0, <1>1, OffFacts, LoadStateFacts DEF PanelOK
<1>5. ASSUME NEW i \in DOMAIN net
      PROVE  /\ tokenReady /\ i = <<"overview", 0>> /\ i[1] = "overview"
             /\ net[i] = Request("load", <<None>>, token)
  BY <1>2
<1>6. ASSUME NEW i \in DOMAIN net PROVE RequestOK(i)
  <2>1. i \in (AllPanels \cup {"click"}) \X (0 .. clicks) /\ i[1] # "click"
    BY <1>0, <1>5, PanelNames
  <2>2. token \in {"wrong", "right"} /\ None \in Queries
    BY <1>0, <1>5 DEF Queries
  <2>3. net[i] = Request("load", <<None>>, token) /\ Now \in Nat \ {0}
    BY <1>0, <1>5
  <2>4. net[i].op = "load"
    BY <2>3, RequestFields
  <2>5. net[i] \in [op : {"load"}, about : About("load"), token : {"wrong", "right"},
                    cancelled : BOOLEAN, sent : 1 .. Now, executed : BOOLEAN, reply : Nat]
    BY <2>2, <2>3, LoadRequestType
  <2> QED BY <2>1, <2>4, <2>5 DEF RequestOK
<1>7. TypeOK
  <2>1. server \in Seq(ServerState) /\ server # <<>>
    <3>1. PICK S : S = ServerState
      OBVIOUS
    <3>2. server \in Seq(S) /\ Len(server) = 1
      BY <3>1, InitServer
    <3>3. server # <<>>
      BY <3>2
    <3> QED BY <3>1, <3>2, <3>3
  <2>2. net = [i \in DOMAIN net |-> net[i]]
    BY <1>2
  <2>3. load = [p \in AllPanels |-> load[p]]
    BY <1>1
  <2>4. view \in Views
    BY <1>0 DEF Views
  <2>5. /\ clicks \in 0 .. MaxClicks /\ mounted \in 0 .. clicks /\ faults \in 0 .. MaxFaults
    BY <1>0, BoundsAssumption
  <2>6. feedback \in Feedbacks
    BY <1>0, BlankFacts
  <2> QED BY <1>0, <1>4, <1>6, <2>1, <2>2, <2>3, <2>4, <2>5, <2>6, NewFormsType DEF TypeOK
<1>8. SignedOut
  <2>1. ~tokenReady => DOMAIN net = {}
    BY <1>5
  <2>2. ~tokenReady => load["overview"].status = "error"
    BY <1>1, LoadStateFacts, PanelNames
  <2> QED BY <1>0, <1>3, <2>1, <2>2 DEF SignedOut
<1>9. tokenReady => load["overview"].status = "loading" /\ load["overview"].since = Now
  BY <1>1, LoadStateFacts, PanelNames
<1>10. PanelsBelong
  BY <1>0, <1>3 DEF PanelsBelong, App, ConfigDetails
<1>11. OneEffect
  <2>1. Query("overview") = None
    BY DEF Query, ConfigDetails
  <2>2. ASSUME NEW i \in DOMAIN net
        PROVE  net[i].about = <<None>> /\ net[i].sent = Now /\ i[1] = "overview" /\ i = <<"overview", 0>>
    BY <1>5, RequestFields
  <2>3. \A i \in DOMAIN net : net[i].sent >= load["overview"].since
    BY <1>0, <1>5, <1>9, <2>2
  <2> QED BY <1>5, <1>9, <2>1, <2>2, <2>3 DEF OneEffect
<1>12. LoadsUnderWay
  <2>1. tokenReady => <<"overview", 0>> \in DOMAIN net
    BY <1>2
  <2>2. ~tokenReady => load["overview"].status # "loading"
    BY <1>1, LoadStateFacts, PanelNames
  <2>3. tokenReady => ~net[<<"overview", 0>>].cancelled
    BY <1>5, <2>1, RequestFields
  <2> QED BY <1>3, <2>1, <2>2, <2>3 DEF LoadsUnderWay
<1>13. FreshPanels
  BY <1>3 DEF FreshPanels
<1>14. EditorFollowsDraft
  BY <1>3, PanelNames DEF EditorFollowsDraft
<1>15. ClicksSound
  BY <1>5 DEF ClicksSound
<1>16. ClickUnderWay /\ HonestFeedback /\ SecretIsOfTheNamed
  <2>1. feedback.click = 0 /\ feedback.tells = "nothing" /\ feedback.subject = None
    BY <1>0, BlankFacts
  <2> QED BY <2>1 DEF ClickUnderWay, HonestFeedback, SecretIsOfTheNamed
<1> QED BY <1>7, <1>8, <1>10, <1>11, <1>12, <1>13, <1>14, <1>15, <1>16 DEF IInv

-----------------------------------------------------------------------------
(* What a step leaves alone.                                               *)

LEMMA TypeFacts ==
    ASSUME TypeOK
    PROVE  /\ clicks \in Nat /\ clicks <= MaxClicks /\ mounted \in Nat /\ mounted <= clicks
           /\ \A i \in DOMAIN net : RequestOK(i)
           /\ \A p \in AllPanels : PanelOK(p, load[p])
<1>1. /\ clicks \in 0 .. MaxClicks /\ mounted \in 0 .. clicks
      /\ \A i \in DOMAIN net : RequestOK(i)
      /\ \A p \in AllPanels : PanelOK(p, load[p])
  BY Zenon DEF TypeOK
<1>2. MaxClicks \in Nat
  BY BoundsAssumption
<1> QED BY <1>1, <1>2

LEMMA RequestKept ==
    ASSUME TypeOK, NEW i \in DOMAIN net, net'[i] = net[i],
           clicks' \in Nat, clicks <= clicks', Now' \in Nat, Now <= Now'
    PROVE  RequestOK(i)'
<1>1. RequestOK(i) /\ clicks \in Nat /\ Now \in Nat
  BY ServerFacts, TypeFacts
<1>2. 0 .. clicks \subseteq 0 .. clicks' /\ 1 .. Now \subseteq 1 .. Now'
  BY <1>1
<1>3. PICK r, O, A : /\ r = net[i] /\ O = (IF i[1] = "click" THEN ClickOps ELSE {"load"})
                     /\ A = About(net[i].op)
  OBVIOUS
<1>4. r \in [op : O, about : A, token : {"wrong", "right"}, cancelled : BOOLEAN, sent : 1 .. Now,
             executed : BOOLEAN, reply : Nat]
  BY <1>1, <1>3 DEF RequestOK
<1>5. r \in [op : O, about : A, token : {"wrong", "right"}, cancelled : BOOLEAN, sent : 1 .. Now',
             executed : BOOLEAN, reply : Nat]
  BY <1>2, <1>4
<1> QED BY <1>1, <1>2, <1>3, <1>5 DEF RequestOK

LEMMA RequestCancelled ==
    ASSUME TypeOK, NEW i \in DOMAIN net, net'[i] = [net[i] EXCEPT !.cancelled = TRUE],
           clicks' \in Nat, clicks <= clicks', Now' \in Nat, Now <= Now'
    PROVE  RequestOK(i)' /\ net'[i].cancelled
<1>1. RequestOK(i) /\ clicks \in Nat /\ Now \in Nat
  BY ServerFacts, TypeFacts
<1>2. 0 .. clicks \subseteq 0 .. clicks' /\ 1 .. Now \subseteq 1 .. Now'
  BY <1>1
<1>3. PICK r, O, A : /\ r = net[i] /\ O = (IF i[1] = "click" THEN ClickOps ELSE {"load"})
                     /\ A = About(net[i].op)
  OBVIOUS
<1>4. r \in [op : O, about : A, token : {"wrong", "right"}, cancelled : BOOLEAN, sent : 1 .. Now,
             executed : BOOLEAN, reply : Nat]
  BY <1>1, <1>3 DEF RequestOK
<1>5. PICK c : c = [r EXCEPT !.cancelled = TRUE]
  OBVIOUS
<1>6. c \in [op : O, about : A, token : {"wrong", "right"}, cancelled : BOOLEAN, sent : 1 .. Now',
             executed : BOOLEAN, reply : Nat]
  BY <1>2, <1>4, <1>5
<1>7. c.op = r.op /\ c.cancelled
  BY <1>4, <1>5
<1> QED BY <1>1, <1>2, <1>3, <1>5, <1>6, <1>7 DEF RequestOK

\* The panels are not disturbed by what happens to buttons, or to requests
\* that nobody waits for.
LEMMA PanelsKept ==
    ASSUME IInv, UNCHANGED <<load, view, selected>>,
           \A i \in DOMAIN net : i[1] # "click" /\ ~net[i].cancelled => i \in DOMAIN net' /\ net'[i] = net[i],
           \A i \in DOMAIN net' : i[1] # "click" => i \in DOMAIN net /\ net'[i] = net[i]
    PROVE  PanelsBelong' /\ OneEffect' /\ FreshPanels' /\ LoadsUnderWay'
<1>1. \A p : Query(p)' = Query(p)
  BY DEF Query, selectedQueue
<1>2. PanelsBelong /\ OneEffect /\ FreshPanels /\ LoadsUnderWay
  BY DEF IInv
<1>3. PanelsBelong'
  BY <1>2 DEF PanelsBelong
<1>4. FreshPanels'
  BY <1>1, <1>2 DEF FreshPanels
<1>5. LoadsUnderWay'
  BY <1>2, PanelNames DEF LoadsUnderWay
<1>6. OneEffect'
  BY <1>1, <1>2 DEF OneEffect
<1> QED BY <1>3, <1>4, <1>5, <1>6

\* Nor what buttons did by what happens to panels.
LEMMA ClicksKept ==
    ASSUME IInv, UNCHANGED <<feedback, secret, server, mounted>>,
           \A i \in DOMAIN net : i[1] = "click" => i \in DOMAIN net' /\ net'[i] = net[i],
           \A i \in DOMAIN net' : i[1] = "click" => i \in DOMAIN net
    PROVE  ClicksSound' /\ ClickUnderWay' /\ HonestFeedback' /\ SecretIsOfTheNamed'
<1>1. ClicksSound /\ ClickUnderWay /\ HonestFeedback /\ SecretIsOfTheNamed
  BY DEF IInv
<1>2. Present' = Present
  BY DEF Present, Now
<1>3. HonestFeedback' /\ SecretIsOfTheNamed'
  BY <1>1, <1>2 DEF HonestFeedback, SecretIsOfTheNamed
<1>4. ClickUnderWay'
  BY <1>1 DEF ClickUnderWay
<1>5. ClicksSound'
  BY <1>1, <1>2 DEF ClicksSound, Issues
<1> QED BY <1>3, <1>4, <1>5

-----------------------------------------------------------------------------
(* Effects: what becomes of the panels and of the requests.                *)

\* A request of net' is new, or was pending and has been cleaned up, or was
\* pending and goes on.
NewRequest(i, starts) ==
    /\ i[1] \in DOMAIN starts /\ i = <<i[1], clicks'>>
    /\ load'[i[1]] = LoadState("loading")
    /\ net'[i] = Request("load", <<starts[i[1]]>>, token')

CleanedUp(i, pending, starts, stops) ==
    /\ i \in DOMAIN pending /\ i[1] \in stops \cup DOMAIN starts
    /\ net'[i] = [pending[i] EXCEPT !.cancelled = TRUE]

GoesOn(i, pending, starts, stops) ==
    /\ i \in DOMAIN pending /\ i[1] \notin stops \cup DOMAIN starts
    /\ net'[i] = pending[i]

LEMMA EffectsOnPanels ==
    ASSUME NEW current, NEW pending, NEW starts, NEW stops, Effects(current, pending, starts, stops)
    PROVE  /\ load' = [p \in AllPanels |-> load'[p]]
           /\ \A p \in AllPanels \cap DOMAIN starts :
                \/ load'[p] = LoadState("loading")
                \/ load'[p] = LoadState("ready") /\ starts[p] = None /\ p \in {"messages", "dlq"}
           /\ \A p \in AllPanels \ DOMAIN starts : p \in stops => load'[p] = Off
           /\ \A p \in AllPanels \ DOMAIN starts : p \notin stops => load'[p] = current[p]
  BY Zenon DEF Effects

LEMMA EffectsOnRequests ==
    ASSUME NEW current, NEW pending, NEW starts, NEW stops, Effects(current, pending, starts, stops),
           DOMAIN starts \subseteq AllPanels
    PROVE  /\ net' = [i \in DOMAIN net' |-> net'[i]]
           /\ \A i \in DOMAIN net' : \/ NewRequest(i, starts)
                                     \/ CleanedUp(i, pending, starts, stops)
                                     \/ GoesOn(i, pending, starts, stops)
           /\ \A i \in DOMAIN pending :
                i[1] \notin stops \cup DOMAIN starts => i \in DOMAIN net' /\ net'[i] = pending[i]
           /\ \A p \in DOMAIN starts :
                \/ <<p, clicks'>> \in DOMAIN net' /\ NewRequest(<<p, clicks'>>, starts)
                \/ load'[p].status = "ready"
<1>1. PICK asks : asks = {p \in DOMAIN starts : ~(p \in {"messages", "dlq"} /\ starts[p] = None)}
  OBVIOUS
<1>2. PICK kept : kept = Cancel(pending, stops \cup DOMAIN starts)
  OBVIOUS
<1>3. PICK new : new = {<<p, clicks'>> : p \in asks}
  OBVIOUS
<1>4. /\ load' = [p \in AllPanels |->
                       IF p \in asks THEN LoadState("loading")
                       ELSE IF p \in DOMAIN starts THEN LoadState("ready")
                       ELSE IF p \in stops THEN Off ELSE current[p]]
      /\ net' = [i \in DOMAIN kept \cup new |->
                      IF i \in new THEN Request("load", <<starts[i[1]]>>, token') ELSE kept[i]]
  BY <1>1, <1>2, <1>3 DEF Effects
<1>5. /\ DOMAIN kept = DOMAIN pending
      /\ \A i \in DOMAIN pending :
           kept[i] = IF i[1] \in stops \cup DOMAIN starts
                     THEN [pending[i] EXCEPT !.cancelled = TRUE] ELSE pending[i]
  BY <1>2, Zenon DEF Cancel
<1>6. ASSUME NEW i \in new
      PROVE  i \in DOMAIN net' /\ NewRequest(i, starts)
  <2>1. PICK p \in asks : i = <<p, clicks'>>
    BY <1>3
  <2>2. i[1] = p /\ p \in DOMAIN starts /\ p \in AllPanels
    BY <1>1, <2>1
  <2>3. load'[p] = LoadState("loading")
    BY <1>4, <2>1, <2>2
  <2>4. i \in DOMAIN net' /\ net'[i] = Request("load", <<starts[i[1]]>>, token')
    BY <1>4
  <2> QED BY <2>1, <2>2, <2>3, <2>4 DEF NewRequest
<1>7. ASSUME NEW i \in DOMAIN pending, i \notin new
      PROVE  i \in DOMAIN net' /\ net'[i] = kept[i]
  BY <1>4, <1>5, <1>7
<1>8. DOMAIN net' = DOMAIN pending \cup new
  BY <1>4, <1>5
<1>9. ASSUME NEW i \in DOMAIN net'
      PROVE  NewRequest(i, starts) \/ CleanedUp(i, pending, starts, stops)
             \/ GoesOn(i, pending, starts, stops)
  BY <1>5, <1>6, <1>7, <1>8 DEF CleanedUp, GoesOn
<1>10. ASSUME NEW i \in DOMAIN pending, i[1] \notin stops \cup DOMAIN starts
       PROVE  i \in DOMAIN net' /\ net'[i] = pending[i]
  <2>1. i \notin new
    BY <1>6, <1>10 DEF NewRequest
  <2> QED BY <1>5, <1>7, <1>10, <2>1
<1>11. ASSUME NEW p \in DOMAIN starts
       PROVE  \/ <<p, clicks'>> \in DOMAIN net' /\ NewRequest(<<p, clicks'>>, starts)
              \/ load'[p].status = "ready"
  <2>1. CASE p \in asks
    BY <1>3, <1>6, <2>1
  <2>2. CASE p \notin asks
    <3>1. load'[p] = LoadState("ready")
      BY <1>4, <2>2
    <3> QED BY <3>1, LoadStateFacts
  <2> QED BY <2>1, <2>2
<1>12. net' = [i \in DOMAIN net' |-> net'[i]]
  BY <1>4
<1> QED BY <1>9, <1>10, <1>11, <1>12

LEMMA EffectsTyped ==
    ASSUME TypeOK, NEW current, NEW pending, NEW starts, NEW stops,
           Effects(current, pending, starts, stops), UNCHANGED server,
           clicks' \in Nat, clicks <= clicks', DOMAIN starts \subseteq AllPanels,
           \A p \in DOMAIN starts : starts[p] \in Queries /\ token' \in {"wrong", "right"},
           \A i \in DOMAIN pending : i \in DOMAIN net /\ pending[i] = net[i],
           \A p \in AllPanels : PanelOK(p, current[p])
    PROVE  /\ load' = [p \in AllPanels |-> load'[p]] /\ \A p \in AllPanels : PanelOK(p, load[p])'
           /\ net' = [i \in DOMAIN net' |-> net'[i]] /\ \A i \in DOMAIN net' : RequestOK(i)'
<1>0. Now' = Now /\ Now \in Nat \ {0}
  BY ServerFacts DEF Now
<1>1. ASSUME NEW p \in AllPanels PROVE PanelOK(p, load[p])'
  <2>2. \A st \in {"loading", "ready"} : PanelOK(p, LoadState(st))
    BY <1>0, LoadStateFacts DEF PanelOK
  <2>3. PanelOK(p, Off)
    BY <1>0, OffFacts DEF PanelOK
  <2>4. PanelOK(p, load'[p])
    BY <2>2, <2>3, EffectsOnPanels
  <2> QED BY <1>0, <2>4 DEF PanelOK
<1>2. ASSUME NEW i \in DOMAIN net' PROVE RequestOK(i)'
  <2>1. CASE NewRequest(i, starts)
    <3>1. PICK p, q, t : p = i[1] /\ q = starts[i[1]] /\ t = token'
      OBVIOUS
    <3>2. /\ p \in AllPanels /\ q \in Queries /\ t \in {"wrong", "right"} /\ i = <<p, clicks'>>
          /\ net'[i] = Request("load", <<q>>, t) /\ p # "click"
      BY <2>1, <3>1, PanelNames DEF NewRequest
    <3>3. net'[i].op = "load"
      BY <3>2, RequestFields
    <3>4. net'[i] \in [op : {"load"}, about : About("load"), token : {"wrong", "right"},
                       cancelled : BOOLEAN, sent : 1 .. Now, executed : BOOLEAN, reply : Nat]
      BY <1>0, <3>2, LoadRequestType
    <3>5. i \in (AllPanels \cup {"click"}) \X (0 .. clicks') /\ i[1] # "click"
      BY <3>2
    <3> QED BY <1>0, <3>3, <3>4, <3>5 DEF RequestOK
  <2>2. CASE CleanedUp(i, pending, starts, stops)
    <3>1. i \in DOMAIN net /\ net'[i] = [net[i] EXCEPT !.cancelled = TRUE]
      BY <2>2 DEF CleanedUp
    <3> QED BY <1>0, <3>1, RequestCancelled
  <2>3. CASE GoesOn(i, pending, starts, stops)
    <3>1. i \in DOMAIN net /\ net'[i] = net[i]
      BY <2>3 DEF GoesOn
    <3> QED BY <1>0, <3>1, RequestKept
  <2> QED BY <2>1, <2>2, <2>3, EffectsOnRequests
<1> QED BY <1>1, <1>2, EffectsOnPanels, EffectsOnRequests

\* Panel p, whose state s and pending requests an effect does not touch, is
\* as it should be afterwards.
Suits(p, s, pending) ==
    /\ s.status # "off" => p \in App \cup Under(view') /\ (p \in ConfigDetails => selected' # None)
    /\ s.status = "ready" => s.data.query = Query(p)' /\ s.data.at >= s.since
    /\ s.status = "loading" => \E i \in DOMAIN pending : i[1] = p /\ ~pending[i].cancelled
    /\ \A i \in DOMAIN pending :
         i[1] = p /\ ~pending[i].cancelled =>
             s.status = "loading" /\ pending[i].about = <<Query(p)'>> /\ pending[i].sent >= s.since

LEMMA EffectsSound ==
    ASSUME IInv, NEW current, NEW pending, NEW starts, NEW stops,
           Effects(current, pending, starts, stops), UNCHANGED server,
           clicks' \in Nat, clicks <= clicks', DOMAIN starts \subseteq AllPanels,
           \A i \in DOMAIN pending : i \in DOMAIN net /\ pending[i] = net[i],
           \A p \in DOMAIN starts :
             /\ starts[p] = Query(p)'
             /\ p \in App \cup Under(view') /\ (p \in ConfigDetails => selected' # None),
           \A p \in AllPanels \ DOMAIN starts : p \notin stops => Suits(p, current[p], pending),
           selected' # None => view' = "config"
    PROVE  PanelsBelong' /\ OneEffect' /\ FreshPanels' /\ LoadsUnderWay'
<1>0. TypeOK /\ OneEffect /\ Now' = Now /\ Now \in Nat \ {0}
  BY ServerFacts DEF Now, IInv
<1>1. ASSUME NEW p \in AllPanels
      PROVE  \/ p \in DOMAIN starts /\ load'[p] = LoadState("loading")
             \/ p \in DOMAIN starts /\ load'[p] = LoadState("ready") /\ starts[p] = None
             \/ p \in stops /\ p \notin DOMAIN starts /\ load'[p] = Off
             \/ p \notin stops \cup DOMAIN starts /\ load'[p] = current[p] /\ Suits(p, load'[p], pending)
  BY EffectsOnPanels
<1>2. PanelsBelong'
  BY <1>1, OffFacts DEF PanelsBelong, Suits
<1>3. FreshPanels'
  <2>1. ASSUME NEW p \in AllPanels, load'[p].status = "ready"
        PROVE  load'[p].data.query = Query(p)' /\ load'[p].data.at >= load'[p].since
    <3>1. CASE p \in DOMAIN starts /\ load'[p] = LoadState("loading")
      BY <2>1, <3>1, LoadStateFacts
    <3>2. CASE p \in DOMAIN starts /\ load'[p] = LoadState("ready") /\ starts[p] = None
      <4>1. Query(p)' = None
        BY <3>2
      <4>2. load'[p].data.at = Now /\ load'[p].since = Now /\ load'[p].data.query = None
        BY <3>2, LoadStateFacts
      <4> QED BY <1>0, <4>1, <4>2
    <3>3. CASE load'[p] = Off
      BY <2>1, <3>3, OffFacts
    <3>4. CASE Suits(p, load'[p], pending)
      BY <2>1, <3>4 DEF Suits
    <3> QED BY <1>1, <3>1, <3>2, <3>3, <3>4
  <2>2. \A p \in AllPanels : load'[p].status = "ready" => p \in App \cup Under(view')
    BY <1>2 DEF PanelsBelong
  <2> QED BY <2>1, <2>2 DEF FreshPanels
<1>4. ASSUME NEW i \in DOMAIN net', i[1] # "click", ~net'[i].cancelled
      PROVE  \/ NewRequest(i, starts)
             \/ /\ GoesOn(i, pending, starts, stops) /\ i \in DOMAIN net
                /\ net'[i] = net[i] /\ net[i] = pending[i] /\ i[1] \in AllPanels
  <2>1. ~CleanedUp(i, pending, starts, stops)
    <3> SUFFICES ASSUME CleanedUp(i, pending, starts, stops) PROVE FALSE
      OBVIOUS
    <3>1. i \in DOMAIN net /\ net'[i] = [net[i] EXCEPT !.cancelled = TRUE]
      BY DEF CleanedUp
    <3> QED BY <1>0, <1>4, <3>1, RequestCancelled
  <2>2. GoesOn(i, pending, starts, stops) => i \in DOMAIN net /\ net'[i] = net[i] /\ net[i] = pending[i]
    BY DEF GoesOn
  <2>3. i \in DOMAIN net => i[1] \in AllPanels
    BY <1>0, <1>4, TypeFacts DEF RequestOK
  <2> QED BY <2>1, <2>2, <2>3, EffectsOnRequests
<1>5. ASSUME NEW i \in DOMAIN net', NEW j \in DOMAIN net', i[1] # "click", i[1] = j[1],
             ~net'[i].cancelled, ~net'[j].cancelled
      PROVE  i = j
  <2>1. CASE NewRequest(i, starts)
    <3>1. NewRequest(j, starts)
      BY <1>4, <1>5, <2>1 DEF NewRequest, GoesOn
    <3> QED BY <1>5, <2>1, <3>1 DEF NewRequest
  <2>2. CASE NewRequest(j, starts)
    <3>1. NewRequest(i, starts)
      BY <1>4, <1>5, <2>2 DEF NewRequest, GoesOn
    <3> QED BY <1>5, <2>2, <3>1 DEF NewRequest
  <2>3. CASE i \in DOMAIN net /\ j \in DOMAIN net /\ net'[i] = net[i] /\ net'[j] = net[j]
    BY <1>0, <1>5, <2>3 DEF OneEffect
  <2> QED BY <1>4, <1>5, <2>1, <2>2, <2>3
<1>6. ASSUME NEW i \in DOMAIN net', i[1] # "click", ~net'[i].cancelled
      PROVE  /\ load'[i[1]].status = "loading"
             /\ net'[i].about = <<Query(i[1])'>>
             /\ net'[i].sent >= load'[i[1]].since
  <2>1. CASE NewRequest(i, starts)
    <3>1. PICK p, q, t : p = i[1] /\ q = starts[i[1]] /\ t = token'
      OBVIOUS
    <3>2. /\ p \in DOMAIN starts /\ load'[p] = LoadState("loading")
          /\ net'[i] = Request("load", <<q>>, t) /\ q = Query(p)'
      BY <2>1, <3>1 DEF NewRequest
    <3>3. net'[i].about = <<q>> /\ net'[i].sent = Now
      BY <3>2, RequestFields
    <3>4. load'[p].status = "loading" /\ load'[p].since = Now
      BY <3>2, LoadStateFacts
    <3>5. net'[i].sent >= load'[p].since
      BY <1>0, <3>3, <3>4
    <3> QED BY <3>1, <3>2, <3>3, <3>4, <3>5
  <2>2. CASE /\ GoesOn(i, pending, starts, stops)
             /\ net'[i] = net[i] /\ net[i] = pending[i] /\ i[1] \in AllPanels
    <3>1. PICK p : p = i[1]
      OBVIOUS
    <3>2. p \in AllPanels \ DOMAIN starts /\ p \notin stops /\ i \in DOMAIN pending
      BY <2>2, <3>1 DEF GoesOn
    <3>3. load'[p] = current[p] /\ Suits(p, load'[p], pending)
      BY <1>1, <3>2
    <3> QED BY <1>6, <2>2, <3>1, <3>2, <3>3 DEF Suits
  <2> QED BY <1>4, <1>6, <2>1, <2>2
<1>7. OneEffect'
  BY <1>5, <1>6 DEF OneEffect
<1>8. LoadsUnderWay'
  <2> SUFFICES ASSUME NEW p \in AllPanels, load'[p].status = "loading"
               PROVE  \E i \in DOMAIN net' : i[1] = p /\ ~net'[i].cancelled
    BY DEF LoadsUnderWay
  <2>1. CASE p \in DOMAIN starts
    <3>1. <<p, clicks'>> \in DOMAIN net' /\ NewRequest(<<p, clicks'>>, starts)
      BY <2>1, EffectsOnRequests
    <3>2. PICK q, t : net'[<<p, clicks'>>] = Request("load", <<q>>, t)
      BY <3>1 DEF NewRequest
    <3>3. ~net'[<<p, clicks'>>].cancelled
      BY <3>2, RequestFields
    <3> QED BY <3>1, <3>3
  <2>2. CASE p \notin stops \cup DOMAIN starts /\ Suits(p, load'[p], pending)
    <3>1. PICK i \in DOMAIN pending : i[1] = p /\ ~pending[i].cancelled
      BY <2>2 DEF Suits
    <3>2. i \in DOMAIN net' /\ net'[i] = pending[i]
      BY <2>2, <3>1, EffectsOnRequests
    <3> QED BY <3>1, <3>2
  <2> QED BY <1>1, <2>1, <2>2, OffFacts
<1> QED BY <1>2, <1>3, <1>7, <1>8

-----------------------------------------------------------------------------
(* A view that is opened starts afresh.                                    *)

LEMMA NothingSelected ==
    ASSUME selected' = None, load'["queues"].status # "ready" PROVE \A p : Query(p)' = None
  BY DEF Query, selectedQueue

LEMMA StartingFacts ==
    ASSUME NEW P PROVE DOMAIN Starting(P) = P /\ \A p \in P : Starting(P)[p] = None
  BY DEF Starting

LEMMA ClickFacts ==
    ASSUME TypeOK, Click
    PROVE  clicks' \in Nat /\ clicks' = clicks + 1 /\ clicks <= clicks' /\ clicks' \in 0 .. MaxClicks
  BY TypeFacts, BoundsAssumption DEF Click

LEMMA MountStep ==
    ASSUME IInv, NEW v \in Views, NEW current, NEW pending, NEW P \in SUBSET AllPanels, NEW stops,
           Click, Mount(v), UNCHANGED <<server, faults>>,
           pending = net, Effects(current, pending, Starting(P), stops),
           token' \in {"none", "wrong", "right"}, tokenReady' = (token' # "none"),
           P # {} => token' \in {"wrong", "right"},
           P \cap ConfigDetails = {}, P \subseteq App \cup Under(v),
           \A p \in AllPanels : PanelOK(p, current[p]),
           \A p \in {"queues", "draft"} : p \in P \cup stops \/ current[p].status # "ready",
           "click" \in stops \/ DOMAIN net = {},
           (\A p : Query(p)' = None) =>
              \A p \in AllPanels \ P : p \notin stops => Suits(p, current[p], pending),
           SignedOut'
    PROVE  IInv'
<1>0. TypeOK /\ Now' = Now /\ Present' = Present /\ Now \in Nat \ {0}
  BY ServerFacts DEF IInv, Now, Present
<1>1. /\ view' = v /\ mounted' = clicks' /\ selected' = None /\ editor' = NewEditor
      /\ feedback' = Blank(0) /\ secret' = NoSecret
  BY DEF Mount
<1>2. clicks' \in Nat /\ clicks' = clicks + 1 /\ clicks <= clicks' /\ clicks' \in 0 .. MaxClicks
  BY <1>0, ClickFacts
<1>3. PICK starts : starts = Starting(P)
  OBVIOUS
<1>4. DOMAIN starts = P /\ \A p \in P : starts[p] = None
  BY <1>3, StartingFacts
<1>5. Effects(current, pending, starts, stops) /\ DOMAIN starts \subseteq AllPanels
  BY <1>3, <1>4
<1>6. \A p \in {"queues", "draft"} : load'[p].status # "ready"
  <2>1. \A p \in {"queues", "draft"} : p \in AllPanels
    BY PanelNames
  <2>2. ASSUME NEW p \in {"queues", "draft"}, p \in P PROVE load'[p] = LoadState("loading")
    BY <1>4, <1>5, <2>1, <2>2, EffectsOnPanels
  <2>3. ASSUME NEW p \in {"queues", "draft"}, p \notin P PROVE load'[p] = Off \/ load'[p].status # "ready"
    BY <1>4, <1>5, <2>1, <2>3, EffectsOnPanels
  <2> QED BY <2>2, <2>3, OffFacts, LoadStateFacts
<1>7. \A p : Query(p)' = None
  BY <1>1, <1>6, NothingSelected
<1>8. PanelsBelong' /\ OneEffect' /\ FreshPanels' /\ LoadsUnderWay'
  <2>1. \A p \in DOMAIN starts :
             /\ starts[p] = Query(p)'
             /\ p \in App \cup Under(view') /\ (p \in ConfigDetails => selected' # None)
    BY <1>1, <1>4, <1>7
  <2>2. \A p \in AllPanels \ DOMAIN starts : p \notin stops => Suits(p, current[p], pending)
    BY <1>4, <1>7
  <2>3. \A i \in DOMAIN pending : i \in DOMAIN net /\ pending[i] = net[i]
    OBVIOUS
  <2> QED BY <1>1, <1>2, <1>5, <2>1, <2>2, <2>3, EffectsSound
<1>9. /\ load' = [p \in AllPanels |-> load'[p]] /\ \A p \in AllPanels : PanelOK(p, load[p])'
      /\ net' = [i \in DOMAIN net' |-> net'[i]] /\ \A i \in DOMAIN net' : RequestOK(i)'
  <2>1. \A p \in DOMAIN starts : starts[p] \in Queries /\ token' \in {"wrong", "right"}
    BY <1>4 DEF Queries
  <2>2. \A i \in DOMAIN pending : i \in DOMAIN net /\ pending[i] = net[i]
    OBVIOUS
  <2> QED BY <1>0, <1>2, <1>5, <2>1, <2>2, EffectsTyped
<1>10. TypeOK'
  <2>1. server' \in Seq(ServerState) /\ server' # <<>> /\ faults' \in 0 .. MaxFaults
    BY <1>0, Zenon DEF TypeOK
  <2>2. mounted' \in 0 .. clicks'
    BY <1>1, <1>2
  <2>3. feedback' \in Feedbacks'
    BY <1>1, <1>2, BlankFacts
  <2>4. editor' \in Editors /\ secret' \in Secrets
    BY <1>1, NewFormsType
  <2>5. selected' \in Range(Scopes) \cup {None} /\ view' \in Views
    BY <1>1
  <2> QED BY <1>2, <1>9, <2>1, <2>2, <2>3, <2>4, <2>5, Zenon DEF TypeOK
<1>11. ClicksSound'
  <2> SUFFICES ASSUME NEW i \in DOMAIN net', i[1] = "click"
               PROVE  /\ net'[i].cancelled
                      /\ net'[i].executed =>
                           /\ i[2] \in Present.applied
                           /\ Issues(net'[i]) => net'[i].reply \in 1 .. Present.issued[net'[i].about[1]]
    BY <1>0 DEF ClicksSound
  <2>1. ~NewRequest(i, starts) /\ ~GoesOn(i, pending, starts, stops)
    BY <1>4, PanelNames DEF NewRequest, GoesOn
  <2>2. i \in DOMAIN net /\ net'[i] = [net[i] EXCEPT !.cancelled = TRUE]
    BY <1>5, <2>1, EffectsOnRequests DEF CleanedUp
  <2>3. net'[i].cancelled
    BY <1>0, <1>2, <2>2, RequestCancelled
  <2>4. /\ net'[i].executed = net[i].executed /\ net'[i].reply = net[i].reply
        /\ net'[i].about = net[i].about /\ net'[i].op = net[i].op
    BY <2>2
  <2>5. ClicksSound
    BY DEF IInv
  <2>6. net[i].executed =>
          /\ i[2] \in Present.applied
          /\ Issues(net[i]) => net[i].reply \in 1 .. Present.issued[net[i].about[1]]
    BY <2>2, <2>5 DEF ClicksSound
  <2> QED BY <2>3, <2>4, <2>6 DEF Issues
<1>12. ClickUnderWay' /\ HonestFeedback' /\ SecretIsOfTheNamed'
  <2>1. feedback'.click = 0 /\ feedback'.tells = "nothing" /\ feedback'.subject = None
    BY <1>1, BlankFacts
  <2> QED BY <2>1 DEF ClickUnderWay, HonestFeedback, SecretIsOfTheNamed
<1>13. EditorFollowsDraft'
  BY <1>6 DEF EditorFollowsDraft
<1> QED BY <1>8, <1>10, <1>11, <1>12, <1>13 DEF IInv

LEMMA TokenFacts ==
    ASSUME TypeOK
    PROVE  /\ token \in {"none", "wrong", "right"} /\ tokenReady = (token # "none")
           /\ (tokenReady => token \in {"wrong", "right"})
           /\ view \in Views
<1>1. token \in {"none", "wrong", "right"} /\ tokenReady = (token # "none") /\ view \in Views
  BY Zenon DEF TypeOK
<1>2. tokenReady => token \in {"wrong", "right"}
  BY <1>1
<1> QED BY <1>1, <1>2, Zenon

\* A panel that is off has no request that is still awaited.
LEMMA OffSuits ==
    ASSUME IInv, NEW p \in AllPanels, load[p].status \notin {"ready", "loading"},
           load[p].status # "off" => p \in App \cup Under(view') /\ (p \in ConfigDetails => selected' # None)
    PROVE  Suits(p, load[p], net)
<1>1. OneEffect /\ p # "click"
  BY PanelNames DEF IInv
<1>2. \A i \in DOMAIN net : ~(i[1] = p /\ ~net[i].cancelled)
  BY <1>1 DEF OneEffect
<1> QED BY <1>2 DEF Suits

LEMMA SaveTokenStep ==
    ASSUME IInv, NEW t \in {"blank", "wrong", "right"}, SaveToken(t) PROVE IInv'
<1>0. TypeOK /\ SignedOut /\ view \in Views
  BY TokenFacts DEF IInv
<1>1. ~tokenReady /\ Click /\ Mount(view) /\ UNCHANGED <<server, faults>>
  BY DEF SaveToken
<1>2. /\ token' \in {"wrong", "right"} /\ tokenReady' = (token' # "none") /\ tokenReady'
  <2>1. t # "blank" /\ token' = t /\ tokenReady' = TRUE
    BY DEF SaveToken
  <2> QED BY <2>1
<1>3. PICK current, pending, P, v :
        current = load /\ pending = net /\ P = App \cup Panels[view] /\ v = view
  OBVIOUS
<1>4. Effects(current, pending, Starting(P), {})
  BY <1>3 DEF SaveToken
<1>5. DOMAIN net = {} /\ \A p \in AllPanels : p # "overview" => current[p].status = "off"
  BY <1>0, <1>1, <1>3 DEF SignedOut
<1>6. "overview" \in P /\ P \in SUBSET AllPanels /\ P \cap ConfigDetails = {}
  <2>1. App \cap ConfigDetails = {} /\ App \subseteq AllPanels
    BY PanelNames DEF App, ConfigDetails
  <2> QED BY <1>0, <1>3, <2>1, PanelNames, UnderNames DEF App
<1>7. P \subseteq App \cup Under(v)
  BY <1>0, <1>3, UnderNames
<1>8. ASSUME NEW p \in AllPanels \ P PROVE Suits(p, current[p], pending)
  <2>1. load[p].status = "off"
    BY <1>3, <1>5, <1>6
  <2> QED BY <1>3, <2>1, OffSuits
<1>9. SignedOut'
  BY <1>2 DEF SignedOut
<1>10. \A p \in {"queues", "draft"} : current[p].status # "ready"
  BY <1>5, PanelNames
<1>11. \A p \in AllPanels : PanelOK(p, current[p])
  BY <1>0, <1>3, TypeFacts
<1>12. v \in Views /\ Mount(v)
  BY <1>0, <1>1, <1>3
<1> QED BY <1>1, <1>2, <1>3, <1>4, <1>5, <1>6, <1>7, <1>8, <1>9, <1>10, <1>11, <1>12, MountStep

\* A panel that does not go with the view that is left stays as it is.
LEMMA StaySuits ==
    ASSUME IInv, NEW p \in AllPanels, p \notin Under(view), \A q : Query(q)' = None
    PROVE  Suits(p, load[p], net)
<1>0. PanelsBelong /\ OneEffect /\ FreshPanels /\ LoadsUnderWay
  BY DEF IInv
<1>1. CASE load[p].status = "off"
  BY <1>1, OffSuits
<1>2. CASE load[p].status # "off"
  <2>1. p = "overview" /\ p \in App
    BY <1>0, <1>2 DEF PanelsBelong, App
  <2>2. Query(p) = None /\ p \notin ConfigDetails /\ p # "click"
    BY <2>1 DEF Query, ConfigDetails
  <2>3. load[p].status = "ready" => load[p].data.query = None /\ load[p].data.at >= load[p].since
    BY <1>0, <2>2 DEF FreshPanels
  <2>4. load[p].status = "loading" => \E i \in DOMAIN net : i[1] = p /\ ~net[i].cancelled
    BY <1>0 DEF LoadsUnderWay
  <2>5. \A i \in DOMAIN net :
          i[1] = p /\ ~net[i].cancelled =>
             load[p].status = "loading" /\ net[i].about = <<None>> /\ net[i].sent >= load[p].since
    BY <1>0, <2>2 DEF OneEffect
  <2> QED BY <2>1, <2>2, <2>3, <2>4, <2>5 DEF Suits
<1> QED BY <1>1, <1>2

LEMMA NavigateStep == ASSUME IInv, NEW v \in Views, Navigate(v) PROVE IInv'
<1>0. TypeOK /\ SignedOut /\ PanelsBelong /\ view \in Views
  BY TokenFacts DEF IInv
<1>1. Click /\ v # view /\ Mount(v) /\ UNCHANGED <<token, tokenReady, server, faults>>
  BY DEF Navigate, session
<1>2. /\ token' \in {"none", "wrong", "right"} /\ tokenReady' = (token' # "none")
      /\ (tokenReady => token' \in {"wrong", "right"})
  BY <1>0, <1>1, TokenFacts
<1>3. PICK current, pending, P, stops :
        /\ current = load /\ pending = net /\ P = (IF tokenReady THEN Panels[v] ELSE {})
        /\ stops = Under(view)
  OBVIOUS
<1>4. Effects(current, pending, Starting(P), stops)
  BY <1>3 DEF Navigate
<1>5. P \in SUBSET AllPanels /\ P \cap ConfigDetails = {} /\ P \subseteq Under(v) /\ "overview" \notin P
  <2>1. P \subseteq Panels[v] /\ "overview" \in App
    BY <1>3 DEF App
  <2> QED BY <2>1, PanelNames, UnderNames
<1>6. "click" \in stops /\ "overview" \notin stops
  BY <1>0, <1>3, UnderNames DEF App
<1>7. ASSUME \A p : Query(p)' = None, NEW p \in AllPanels \ P, p \notin stops
      PROVE  Suits(p, current[p], pending)
  BY <1>3, <1>7, StaySuits
<1>8. \A p \in {"queues", "draft"} : p \in P \cup stops \/ current[p].status # "ready"
  BY <1>0, <1>3, PanelNames DEF PanelsBelong, App
<1>9. \A p \in AllPanels : PanelOK(p, current[p])
  BY <1>0, <1>3, TypeFacts
<1>10. SignedOut'
  <2> SUFFICES ASSUME ~tokenReady' PROVE SignedOut'
    BY DEF SignedOut
  <2>1. ~tokenReady /\ P = {}
    BY <1>1, <1>3
  <2>2. DOMAIN net = {} /\ \A p \in AllPanels :
           load[p].status = (IF p = "overview" THEN "error" ELSE "off") /\ load[p].data.items = <<>>
    BY <1>0, <2>1 DEF SignedOut
  <2>3. PICK starts : starts = Starting(P)
    OBVIOUS
  <2>4. DOMAIN starts = {} /\ Effects(current, pending, starts, stops)
    BY <1>4, <2>1, <2>3, StartingFacts
  <2>5. DOMAIN net' = {}
    BY <1>3, <2>2, <2>4, EffectsOnRequests DEF NewRequest, CleanedUp, GoesOn
  <2>6. \A p \in AllPanels : (load'[p] = Off /\ p \in stops) \/ load'[p] = load[p]
    BY <1>3, <2>4, EffectsOnPanels
  <2>7. selected' = None
    BY <1>1 DEF Mount
  <2> QED BY <1>6, <2>2, <2>5, <2>6, <2>7, OffFacts DEF SignedOut
<1>11. P # {} => token' \in {"wrong", "right"}
  BY <1>2, <1>3
<1>12. P \subseteq App \cup Under(v)
  BY <1>5
<1>13. (\A p : Query(p)' = None) =>
          \A p \in AllPanels \ P : p \notin stops => Suits(p, current[p], pending)
  BY <1>7
<1>14. /\ Click /\ Mount(v) /\ UNCHANGED <<server, faults>> /\ pending = net
       /\ ("click" \in stops \/ DOMAIN net = {})
  BY <1>1, <1>3, <1>6
<1>15. token' \in {"none", "wrong", "right"} /\ tokenReady' = (token' # "none")
  BY <1>2, Zenon
<1> QED BY <1>4, <1>5, <1>8, <1>9, <1>10, <1>11, <1>12, <1>13, <1>14, <1>15, MountStep

LEMMA ReloadStep == ASSUME IInv, Reload PROVE IInv'
<1>0. TypeOK /\ SignedOut
  BY DEF IInv
<1>1. Click /\ Mount("overview") /\ token' = token /\ UNCHANGED <<server, faults>>
  BY DEF Reload
<1>2. /\ token' \in {"none", "wrong", "right"} /\ tokenReady' = (token' # "none")
      /\ (tokenReady' => tokenReady /\ token' \in {"wrong", "right"}) /\ (~tokenReady' => ~tokenReady)
  <2>1. tokenReady' = (token # "none")
    BY DEF Reload
  <2> QED BY <1>0, <1>1, <2>1, TokenFacts
<1>3. PICK current, pending, P, stops :
        /\ current = [load EXCEPT !["overview"] = LoadState("error")] /\ pending = net
        /\ P = (IF tokenReady' THEN App ELSE {}) /\ stops = (AllPanels \ App) \cup {"click"}
  OBVIOUS
<1>4. Effects(current, pending, Starting(P), stops)
  BY <1>3 DEF Reload
<1>5. P \in SUBSET AllPanels /\ P \cap ConfigDetails = {} /\ P \subseteq App \cup Under("overview")
  <2>1. App \cap ConfigDetails = {} /\ App \subseteq AllPanels
    BY PanelNames DEF App, ConfigDetails
  <2> QED BY <1>3, <2>1
<1>6. "click" \in stops
  BY <1>3
<1>7. load = [p \in AllPanels |-> load[p]] /\ "overview" \in AllPanels
  BY <1>0, PanelNames, Zenon DEF TypeOK
<1>8. /\ current["overview"] = LoadState("error")
      /\ \A p \in AllPanels : p # "overview" => current[p] = load[p]
  BY <1>3, <1>7
<1>9. \A p \in AllPanels : PanelOK(p, current[p])
  <2>1. PanelOK("overview", LoadState("error"))
    BY <1>0, ServerFacts, LoadStateFacts DEF PanelOK
  <2> QED BY <1>0, <1>8, <2>1, TypeFacts
<1>10. ASSUME NEW p \in AllPanels \ P, p \notin stops PROVE Suits(p, current[p], pending)
  <2>1. p = "overview" /\ ~tokenReady' /\ p \in App
    BY <1>3, <1>10 DEF App
  <2>2. DOMAIN pending = {}
    BY <1>0, <1>2, <1>3, <2>1 DEF SignedOut
  <2>3. current[p].status = "error" /\ p \notin ConfigDetails
    BY <1>8, <2>1, LoadStateFacts DEF ConfigDetails
  <2> QED BY <2>1, <2>2, <2>3 DEF Suits
<1>11. \A p \in {"queues", "draft"} : p \in P \cup stops \/ current[p].status # "ready"
  BY <1>3, PanelNames DEF App
<1>12. SignedOut'
  <2> SUFFICES ASSUME ~tokenReady' PROVE SignedOut'
    BY DEF SignedOut
  <2>1. ~tokenReady /\ P = {}
    BY <1>2, <1>3
  <2>2. DOMAIN net = {}
    BY <1>0, <2>1 DEF SignedOut
  <2>3. PICK starts : starts = Starting(P)
    OBVIOUS
  <2>4. DOMAIN starts = {} /\ Effects(current, pending, starts, stops)
    BY <1>4, <2>1, <2>3, StartingFacts
  <2>5. DOMAIN net' = {}
    <3>1. DOMAIN pending = {}
      BY <1>3, <2>2
    <3> QED BY <2>4, <3>1, EffectsOnRequests DEF NewRequest, CleanedUp, GoesOn
  <2>6. /\ \A p \in AllPanels : p # "overview" => load'[p] = Off
        /\ load'["overview"] = LoadState("error")
    <3>1. "overview" \notin stops /\ \A p \in AllPanels : p # "overview" => p \in stops
      BY <1>3, PanelNames DEF App
    <3> QED BY <1>7, <1>8, <2>4, <3>1, EffectsOnPanels
  <2>7. selected' = None
    BY <1>1 DEF Mount
  <2> QED BY <2>5, <2>6, <2>7, OffFacts, LoadStateFacts DEF SignedOut
<1>13. P # {} => token' \in {"wrong", "right"}
  BY <1>2, <1>3
<1>14. "overview" \in Views
  BY DEF Views
<1>15. (\A p : Query(p)' = None) =>
          \A p \in AllPanels \ P : p \notin stops => Suits(p, current[p], pending)
  BY <1>10
<1>16. /\ Click /\ Mount("overview") /\ UNCHANGED <<server, faults>> /\ pending = net
       /\ ("click" \in stops \/ DOMAIN net = {})
  BY <1>1, <1>3, <1>6
<1>17. token' \in {"none", "wrong", "right"} /\ tokenReady' = (token' # "none")
  BY <1>2, Zenon
<1> QED BY <1>4, <1>5, <1>9, <1>11, <1>12, <1>13, <1>14, <1>15, <1>16, <1>17, MountStep

-----------------------------------------------------------------------------
(* Steps within a view.                                                    *)

LEMMA FeedbackKept ==
    ASSUME TypeOK, clicks' \in Nat, clicks <= clicks' PROVE feedback \in Feedbacks'
<1>1. feedback \in Feedbacks
  BY Zenon DEF TypeOK
<1>2. 0 .. clicks \subseteq 0 .. clicks'
  BY TypeFacts
<1> QED BY <1>1, <1>2 DEF Feedbacks

LEMMA TypeOKKept ==
    ASSUME TypeOK, UNCHANGED <<token, tokenReady, view, mounted>>,
           clicks' \in 0 .. MaxClicks, clicks <= clicks', faults' \in 0 .. MaxFaults,
           selected' \in Range(Scopes) \cup {None}, editor' \in Editors, secret' \in Secrets,
           feedback' \in Feedbacks',
           server' \in Seq(ServerState), server' # <<>>,
           load' = [p \in AllPanels |-> load'[p]], \A p \in AllPanels : PanelOK(p, load[p])',
           net' = [i \in DOMAIN net' |-> net'[i]], \A i \in DOMAIN net' : RequestOK(i)'
    PROVE  TypeOK'
<1>1. mounted' \in 0 .. clicks'
  BY TypeFacts, BoundsAssumption
<1>2. token' \in {"none", "wrong", "right"} /\ tokenReady' = (token' # "none") /\ view' \in Views
  BY Zenon DEF TypeOK
<1> QED BY <1>1, <1>2, Zenon DEF TypeOK

LEMMA FormsFacts ==
    ASSUME TypeOK
    PROVE  /\ editor \in Editors /\ feedback \in Feedbacks /\ secret \in Secrets
           /\ selected \in Range(Scopes) \cup {None}
           /\ server \in Seq(ServerState) /\ server # <<>>
           /\ clicks \in 0 .. MaxClicks /\ mounted \in 0 .. clicks /\ faults \in 0 .. MaxFaults
           /\ load = [p \in AllPanels |-> load[p]]
           /\ net = [i \in DOMAIN net |-> net[i]]
  BY Zenon DEF TypeOK

LEMMA PanelKept ==
    ASSUME TypeOK, Now' \in Nat, Now <= Now', NEW p \in AllPanels, load'[p] = load[p]
    PROVE  PanelOK(p, load[p])'
<1>1. PanelOK(p, load[p]) /\ Now \in Nat
  BY TypeFacts, ServerFacts
<1>2. 0 .. Now \subseteq 0 .. Now'
  BY <1>1
<1> QED BY <1>1, <1>2 DEF PanelOK

\* A panel whose query stays the same.
LEMMA KeptSuits ==
    ASSUME IInv, NEW p \in AllPanels, NEW pending, view' = view, Query(p)' = Query(p),
           p \in ConfigDetails /\ selected # None => selected' # None,
           \A i \in DOMAIN pending : i \in DOMAIN net /\ pending[i] = net[i],
           \A i \in DOMAIN net : i[1] = p => i \in DOMAIN pending
    PROVE  Suits(p, load[p], pending)
<1>0. PanelsBelong /\ OneEffect /\ FreshPanels /\ LoadsUnderWay /\ p # "click"
  BY PanelNames DEF IInv
<1>1. load[p].status # "off" => p \in App \cup Under(view') /\ (p \in ConfigDetails => selected' # None)
  BY <1>0 DEF PanelsBelong
<1>2. load[p].status = "ready" => load[p].data.query = Query(p)' /\ load[p].data.at >= load[p].since
  BY <1>0 DEF FreshPanels
<1>3. load[p].status = "loading" => \E i \in DOMAIN pending : i[1] = p /\ ~pending[i].cancelled
  BY <1>0 DEF LoadsUnderWay
<1>4. \A i \in DOMAIN net :
        i[1] = p /\ ~net[i].cancelled =>
          load[p].status = "loading" /\ net[i].about = <<Query(p)'>> /\ net[i].sent >= load[p].since
  BY <1>0 DEF OneEffect
<1> QED BY <1>1, <1>2, <1>3, <1>4 DEF Suits

\* Effects of panels leave the requests of buttons alone.
LEMMA EffectsOnClicks ==
    ASSUME NEW current, NEW pending, NEW starts, Effects(current, pending, starts, {}),
           DOMAIN starts \subseteq AllPanels,
           \A i \in DOMAIN pending : i \in DOMAIN net /\ pending[i] = net[i],
           \A i \in DOMAIN net : i[1] = "click" => i \in DOMAIN pending
    PROVE  /\ \A i \in DOMAIN net : i[1] = "click" => i \in DOMAIN net' /\ net'[i] = net[i]
           /\ \A i \in DOMAIN net' : i[1] = "click" => i \in DOMAIN net
<1>1. "click" \notin DOMAIN starts
  BY PanelNames
<1>2. ASSUME NEW i \in DOMAIN net, i[1] = "click" PROVE i \in DOMAIN net' /\ net'[i] = net[i]
  BY <1>1, <1>2, EffectsOnRequests
<1>3. ASSUME NEW i \in DOMAIN net', i[1] = "click" PROVE i \in DOMAIN net
  <2>1. \/ NewRequest(i, starts) \/ CleanedUp(i, pending, starts, {})
        \/ GoesOn(i, pending, starts, {})
    BY EffectsOnRequests
  <2>2. ~NewRequest(i, starts)
    BY <1>1, <1>3 DEF NewRequest
  <2>3. i \in DOMAIN pending
    BY <2>1, <2>2 DEF CleanedUp, GoesOn
  <2> QED BY <2>3
<1> QED BY <1>2, <1>3

LEMMA SelectScopeStep == ASSUME IInv, NEW s \in Range(Scopes), SelectScope(s) PROVE IInv'
<1>0. TypeOK /\ PanelsBelong /\ SignedOut
  BY DEF IInv
<1>1. /\ Click /\ selected # None /\ selected' = s
      /\ UNCHANGED <<token, tokenReady, view, editor, feedback, secret, server, mounted, faults>>
  BY DEF SelectScope, session, forms
<1>2. clicks' \in Nat /\ clicks' = clicks + 1 /\ clicks <= clicks' /\ clicks' \in 0 .. MaxClicks
  BY <1>0, <1>1, ClickFacts
<1>3. PICK current, pending, starts :
        current = load /\ pending = net /\ starts = [p \in ConfigDetails |-> s]
  OBVIOUS
<1>4. Effects(current, pending, starts, {}) /\ DOMAIN starts = ConfigDetails
      /\ (\A p \in ConfigDetails : starts[p] = s) /\ DOMAIN starts \subseteq AllPanels
  BY <1>3, PanelNames DEF SelectScope, ConfigDetails
<1>5. /\ s # None /\ s \in Queries /\ view = "config" /\ tokenReady
  BY <1>0, <1>1, ServerAssumption DEF PanelsBelong, SignedOut, Queries
<1>6. token' \in {"wrong", "right"}
  BY <1>0, <1>1, <1>5, TokenFacts
<1>7. load'["queues"] = load["queues"] /\ load'["draft"] = LoadState("loading")
  BY <1>3, <1>4, PanelNames, EffectsOnPanels DEF ConfigDetails
<1>8. \A p : Query(p)' = IF p \in ConfigDetails THEN s ELSE Query(p)
  <2>1. selectedQueue' = selectedQueue
    BY <1>7 DEF selectedQueue
  <2> QED BY <1>1, <2>1 DEF Query, ConfigDetails
<1>9. \A i \in DOMAIN pending : i \in DOMAIN net /\ pending[i] = net[i]
  BY <1>3
<1>10. ASSUME NEW p \in AllPanels \ DOMAIN starts PROVE Suits(p, current[p], pending)
  <2>1. p \notin ConfigDetails /\ Query(p)' = Query(p)
    BY <1>4, <1>8
  <2> QED BY <1>1, <1>3, <2>1, KeptSuits
<1>11. \A p \in DOMAIN starts :
         starts[p] = Query(p)' /\ p \in App \cup Under(view') /\ (p \in ConfigDetails => selected' # None)
  BY <1>1, <1>4, <1>5, <1>8 DEF Under
<1>12. PanelsBelong' /\ OneEffect' /\ FreshPanels' /\ LoadsUnderWay'
  BY <1>1, <1>2, <1>4, <1>5, <1>9, <1>10, <1>11, EffectsSound
<1>13. /\ load' = [p \in AllPanels |-> load'[p]] /\ \A p \in AllPanels : PanelOK(p, load[p])'
       /\ net' = [i \in DOMAIN net' |-> net'[i]] /\ \A i \in DOMAIN net' : RequestOK(i)'
  <2>1. \A p \in DOMAIN starts : starts[p] \in Queries /\ token' \in {"wrong", "right"}
    BY <1>4, <1>5, <1>6
  <2>2. \A p \in AllPanels : PanelOK(p, current[p])
    BY <1>0, <1>3, TypeFacts
  <2> QED BY <1>0, <1>1, <1>2, <1>4, <1>9, <2>1, <2>2, EffectsTyped
<1>14. TypeOK'
  <2>1. /\ UNCHANGED <<token, tokenReady, view, mounted>> /\ clicks' \in 0 .. MaxClicks
        /\ clicks <= clicks' /\ faults' \in 0 .. MaxFaults
        /\ selected' \in Range(Scopes) \cup {None} /\ editor' \in Editors /\ secret' \in Secrets
        /\ feedback' \in Feedbacks' /\ server' \in Seq(ServerState) /\ server' # <<>>
    BY <1>0, <1>1, <1>2, FormsFacts, FeedbackKept
  <2> QED BY <1>0, <1>13, <2>1, TypeOKKept
<1>15. ClicksSound' /\ ClickUnderWay' /\ HonestFeedback' /\ SecretIsOfTheNamed'
  <2>1. /\ \A i \in DOMAIN net : i[1] = "click" => i \in DOMAIN net' /\ net'[i] = net[i]
        /\ \A i \in DOMAIN net' : i[1] = "click" => i \in DOMAIN net
    BY <1>3, <1>4, <1>9, EffectsOnClicks
  <2> QED BY <1>1, <2>1, ClicksKept
<1>16. SignedOut'
  BY <1>1, <1>5 DEF SignedOut
<1>17. EditorFollowsDraft'
  BY <1>7, LoadStateFacts DEF EditorFollowsDraft
<1> QED BY <1>12, <1>14, <1>15, <1>16, <1>17 DEF IInv

-----------------------------------------------------------------------------
(* Typing.                                                                 *)

LEMMA TypingStep ==
    ASSUME IInv, Click, editor' \in Editors,
           \/ editor'.edited
           \/ editor'.edited = editor.edited /\ editor'.key = editor.key /\ editor'.text = editor.text,
           UNCHANGED <<token, tokenReady, view, load, selected, feedback, secret, net, server, mounted, faults>>
    PROVE  IInv'
<1>0. TypeOK /\ SignedOut /\ EditorFollowsDraft
  BY DEF IInv
<1>1. clicks' \in Nat /\ clicks <= clicks' /\ clicks' \in 0 .. MaxClicks
  BY <1>0, ClickFacts
<1>2. Now' = Now /\ Now \in Nat
  BY <1>0, ServerFacts DEF Now
<1>3. /\ \A p \in AllPanels : PanelOK(p, load[p])'
      /\ \A i \in DOMAIN net' : RequestOK(i)'
  BY <1>0, <1>1, <1>2, PanelKept, RequestKept
<1>4. TypeOK'
  <2>1. /\ faults' \in 0 .. MaxFaults
        /\ selected' \in Range(Scopes) \cup {None} /\ secret' \in Secrets
        /\ feedback' \in Feedbacks' /\ server' \in Seq(ServerState) /\ server' # <<>>
        /\ load' = [p \in AllPanels |-> load'[p]] /\ net' = [i \in DOMAIN net' |-> net'[i]]
    BY <1>0, <1>1, FormsFacts, FeedbackKept
  <2> QED BY <1>0, <1>1, <1>3, <2>1, TypeOKKept
<1>5. PanelsBelong' /\ OneEffect' /\ FreshPanels' /\ LoadsUnderWay'
  BY PanelsKept
<1>6. ClicksSound' /\ ClickUnderWay' /\ HonestFeedback' /\ SecretIsOfTheNamed'
  BY ClicksKept
<1>7. SignedOut'
  BY <1>0 DEF SignedOut
<1>8. EditorFollowsDraft'
  BY <1>0 DEF EditorFollowsDraft
<1> QED BY <1>4, <1>5, <1>6, <1>7, <1>8 DEF IInv

LEMMA TypedTexts == \A t \in Texts : t \in JsonTexts
  BY DEF Texts, Garbage, Text, JsonTexts, JsonValues

LEMMA TypeKeyStep == ASSUME IInv, NEW k \in Keys \cup {""}, TypeKey(k) PROVE IInv'
<1>1. PICK e : e = editor
  OBVIOUS
<1>2. e \in Editors /\ k \in ItemKeys \cup {""}
  BY <1>1, FormsFacts DEF IInv, ItemKeys
<1>3. editor' = [e EXCEPT !.key = k, !.edited = TRUE]
  BY <1>1 DEF TypeKey
<1>4. editor' \in Editors /\ editor'.edited
  BY <1>2, <1>3 DEF Editors
<1> QED BY <1>4, TypingStep DEF TypeKey, session

LEMMA TypeValueStep == ASSUME IInv, NEW t \in Texts, TypeValue(t) PROVE IInv'
<1>1. PICK e : e = editor
  OBVIOUS
<1>2. e \in Editors /\ t \in JsonTexts
  BY <1>1, FormsFacts, TypedTexts DEF IInv
<1>3. editor' = [e EXCEPT !.text = t, !.edited = TRUE]
  BY <1>1 DEF TypeValue
<1>4. editor' \in Editors /\ editor'.edited
  BY <1>2, <1>3 DEF Editors
<1> QED BY <1>4, TypingStep DEF TypeValue, session

LEMMA TypeSchemaStep == ASSUME IInv, NEW t \in Texts, TypeSchema(t) PROVE IInv'
<1>1. PICK e : e = editor
  OBVIOUS
<1>2. e \in Editors /\ t \in JsonTexts
  BY <1>1, FormsFacts, TypedTexts DEF IInv
<1>3. editor' = [e EXCEPT !.schema = t]
  BY <1>1 DEF TypeSchema
<1>4. /\ editor' \in Editors /\ editor'.edited = editor.edited
      /\ editor'.key = editor.key /\ editor'.text = editor.text
  BY <1>1, <1>2, <1>3 DEF Editors
<1> QED BY <1>4, TypingStep DEF TypeSchema, session

-----------------------------------------------------------------------------
(* Buttons.                                                                *)

LEMMA AskStep ==
    ASSUME IInv, NEW op \in ClickOps, NEW about \in About(op), Click, tokenReady, Ask(op, about),
           secret' \in {secret, NoSecret},
           UNCHANGED <<token, tokenReady, view, load, selected, editor, server, mounted, faults>>
    PROVE  IInv'
<1>0. TypeOK /\ ClicksSound /\ EditorFollowsDraft
  BY DEF IInv
<1>1. /\ clicks' \in Nat /\ clicks' = clicks + 1 /\ clicks <= clicks' /\ clicks' \in 0 .. MaxClicks
      /\ clicks \in Nat /\ mounted \in Nat /\ mounted <= clicks
  BY <1>0, ClickFacts, TypeFacts
<1>2. Now' = Now /\ Now \in Nat \ {0} /\ Present' = Present
  BY <1>0, ServerFacts DEF Now, Present
<1>3. PICK i0, r : i0 = <<"click", clicks'>> /\ r = Request(op, about, token)
  OBVIOUS
<1>4. /\ feedback' = Blank(clicks')
      /\ net' = [i \in DOMAIN net \cup {i0} |-> IF i = i0 THEN r ELSE net[i]]
  BY <1>3 DEF Ask
<1>5. i0 \notin DOMAIN net
  <2>1. \A i \in DOMAIN net : i[2] \in 0 .. clicks
    BY <1>0, TypeFacts DEF RequestOK
  <2>2. i0[2] = clicks'
    BY <1>3
  <2> QED BY <1>1, <2>1, <2>2
<1>6. /\ DOMAIN net' = DOMAIN net \cup {i0} /\ net'[i0] = r
      /\ \A i \in DOMAIN net : net'[i] = net[i]
      /\ net' = [i \in DOMAIN net' |-> net'[i]]
  BY <1>4, <1>5
<1>7. token \in {"wrong", "right"}
  BY <1>0, TokenFacts
<1>8. r.op = op /\ ~r.cancelled /\ ~r.executed /\ i0[1] = "click" /\ i0[2] = clicks'
  BY <1>3, RequestFields
<1>9. ASSUME NEW i \in DOMAIN net' PROVE RequestOK(i)'
  <2>1. CASE i \in DOMAIN net
    BY <1>0, <1>1, <1>2, <1>6, <2>1, RequestKept
  <2>2. CASE i = i0
    <3>1. r \in [op : ClickOps, about : About(op), token : {"wrong", "right"}, cancelled : BOOLEAN,
                 sent : 1 .. Now, executed : BOOLEAN, reply : Nat]
      BY <1>2, <1>3, <1>7, ClickRequestType
    <3>2. i0 \in (AllPanels \cup {"click"}) \X (0 .. clicks')
      BY <1>1, <1>3
    <3> QED BY <1>2, <1>6, <1>8, <2>2, <3>1, <3>2 DEF RequestOK
  <2> QED BY <1>6, <2>1, <2>2
<1>10. TypeOK'
  <2>1. \A p \in AllPanels : PanelOK(p, load[p])'
    BY <1>0, <1>2, PanelKept
  <2>2. feedback' \in Feedbacks'
    BY <1>1, <1>4, BlankFacts
  <2>3. /\ faults' \in 0 .. MaxFaults /\ selected' \in Range(Scopes) \cup {None} /\ secret' \in Secrets
        /\ editor' \in Editors /\ server' \in Seq(ServerState) /\ server' # <<>>
        /\ load' = [p \in AllPanels |-> load'[p]]
    BY <1>0, FormsFacts, NewFormsType
  <2> QED BY <1>0, <1>1, <1>6, <1>9, <2>1, <2>2, <2>3, TypeOKKept
<1>11. PanelsBelong' /\ OneEffect' /\ FreshPanels' /\ LoadsUnderWay'
  BY <1>6, <1>8, PanelsKept
<1>12. ClicksSound'
  <2>1. clicks' > mounted
    BY <1>1
  <2> QED BY <1>0, <1>2, <1>6, <1>8, <2>1 DEF ClicksSound, Issues
<1>13. /\ feedback'.click = clicks' /\ feedback'.subject = None /\ feedback'.tells = "nothing"
  BY <1>1, <1>4, BlankFacts
<1>14. ClickUnderWay'
  BY <1>3, <1>6, <1>8, <1>13 DEF ClickUnderWay
<1>15. HonestFeedback' /\ SecretIsOfTheNamed'
  BY <1>13 DEF HonestFeedback, SecretIsOfTheNamed
<1>16. SignedOut' /\ EditorFollowsDraft'
  BY <1>0 DEF SignedOut, EditorFollowsDraft
<1> QED BY <1>10, <1>11, <1>12, <1>14, <1>15, <1>16 DEF IInv

LEMMA ComplainStep ==
    ASSUME IInv, Click, Complain, secret' \in {secret, NoSecret},
           UNCHANGED <<token, tokenReady, view, load, selected, editor, server, mounted, faults>>
    PROVE  IInv'
<1>0. TypeOK /\ SignedOut /\ ClicksSound /\ EditorFollowsDraft
  BY DEF IInv
<1>1. clicks' \in Nat /\ clicks <= clicks' /\ clicks' \in 0 .. MaxClicks
  BY <1>0, ClickFacts
<1>2. Now' = Now /\ Now \in Nat /\ Present' = Present
  BY <1>0, ServerFacts DEF Now, Present
<1>3. feedback' = Failure /\ net' = net
  BY DEF Complain
<1>4. TypeOK'
  <2>1. /\ \A p \in AllPanels : PanelOK(p, load[p])'
        /\ \A i \in DOMAIN net' : RequestOK(i)'
    BY <1>0, <1>1, <1>2, <1>3, PanelKept, RequestKept
  <2>2. /\ faults' \in 0 .. MaxFaults /\ selected' \in Range(Scopes) \cup {None} /\ secret' \in Secrets
        /\ editor' \in Editors /\ server' \in Seq(ServerState) /\ server' # <<>>
        /\ load' = [p \in AllPanels |-> load'[p]] /\ net' = [i \in DOMAIN net' |-> net'[i]]
        /\ feedback' \in Feedbacks'
    BY <1>0, <1>1, <1>3, FormsFacts, NewFormsType, FailureType
  <2> QED BY <1>0, <1>1, <2>1, <2>2, TypeOKKept
<1>5. PanelsBelong' /\ OneEffect' /\ FreshPanels' /\ LoadsUnderWay'
  BY <1>3, PanelsKept
<1>6. ClicksSound'
  BY <1>0, <1>2, <1>3 DEF ClicksSound, Issues
<1>7. ClickUnderWay' /\ HonestFeedback' /\ SecretIsOfTheNamed'
  BY <1>3, FailureType DEF ClickUnderWay, HonestFeedback, SecretIsOfTheNamed
<1>8. SignedOut' /\ EditorFollowsDraft'
  BY <1>0, <1>3 DEF SignedOut, EditorFollowsDraft
<1> QED BY <1>4, <1>5, <1>6, <1>7, <1>8 DEF IInv

\* What a form holds that is not refused.
LEMMA TextFacts ==
    ASSUME NEW t \in JsonTexts, t # Garbage PROVE t.json \in JsonValues
  BY DEF JsonTexts, Garbage, Text

LEMMA EditorFacts ==
    ASSUME IInv
    PROVE  /\ editor.key \in ItemKeys \cup {""} /\ editor.text \in JsonTexts /\ editor.schema \in JsonTexts
           /\ (selected # None => selected \in Range(Scopes) /\ tokenReady)
<1>1. editor \in Editors /\ selected \in Range(Scopes) \cup {None} /\ SignedOut
  BY FormsFacts DEF IInv
<1> QED BY <1>1 DEF Editors, SignedOut

LEMMA saveItemStep == ASSUME IInv, saveItem PROVE IInv'
<1>1. CASE editor.text = Garbage \/ editor.key = ""
  BY <1>1, ComplainStep DEF saveItem, session
<1>2. CASE ~(editor.text = Garbage \/ editor.key = "")
  <2>1. PICK a : a = <<selected, editor.key, editor.text.json>>
    OBVIOUS
  <2>2. selected \in Range(Scopes) /\ editor.key \in ItemKeys /\ editor.text.json \in JsonValues /\ tokenReady
    BY <1>2, EditorFacts, TextFacts DEF saveItem
  <2>3. a \in About("saveItem") /\ "saveItem" \in ClickOps
    BY <2>1, <2>2 DEF About, ScopeOps, ClientOps, ClickOps
  <2>4. Ask("saveItem", a)
    BY <1>2, <2>1 DEF saveItem
  <2> QED BY <2>2, <2>3, <2>4, AskStep DEF saveItem, session
<1> QED BY <1>1, <1>2

LEMMA saveSchemaStep == ASSUME IInv, saveSchema PROVE IInv'
<1>1. CASE editor.schema = Garbage
  BY <1>1, ComplainStep DEF saveSchema, session
<1>2. CASE editor.schema # Garbage
  <2>1. PICK a : a = <<selected, editor.schema.json>>
    OBVIOUS
  <2>2. selected \in Range(Scopes) /\ editor.schema.json \in JsonValues /\ tokenReady
    BY <1>2, EditorFacts, TextFacts DEF saveSchema
  <2>3. a \in About("saveSchema") /\ "saveSchema" \in ClickOps
    BY <2>1, <2>2 DEF About, ScopeOps, ClientOps, ClickOps
  <2>4. Ask("saveSchema", a)
    BY <1>2, <2>1 DEF saveSchema
  <2> QED BY <2>2, <2>3, <2>4, AskStep DEF saveSchema, session
<1> QED BY <1>1, <1>2

LEMMA ScopeButtonStep == ASSUME IInv, removeSchema \/ publish PROVE IInv'
<1>1. PICK a : a = <<selected>>
  OBVIOUS
<1>2. selected \in Range(Scopes) /\ tokenReady
  BY EditorFacts DEF removeSchema, publish
<1>3. \A op \in ScopeOps : a \in About(op) /\ op \in ClickOps
  BY <1>1, <1>2 DEF About, ScopeOps, ClientOps, ClickOps
<1>4. \E op \in ScopeOps : Ask(op, a)
  BY <1>1 DEF removeSchema, publish, ScopeOps
<1>5. /\ Click /\ secret' = secret
      /\ UNCHANGED <<token, tokenReady, view, load, selected, editor, server, mounted, faults>>
  BY DEF removeSchema, publish, session
<1> QED BY <1>2, <1>3, <1>4, <1>5, AskStep

LEMMA QueueFacts ==
    ASSUME IInv, selectedQueue # None PROVE selectedQueue \in Range(Queues) /\ tokenReady
<1>1. "queues" \in AllPanels /\ TypeOK /\ SignedOut
  BY PanelNames DEF IInv
<1>2. load["queues"].status = "ready" /\ load["queues"].data.items # <<>>
      /\ selectedQueue = load["queues"].data.items[1]
  BY DEF selectedQueue
<1>3. load["queues"].data.items = Queues
  BY <1>1, <1>2, TypeFacts DEF PanelOK
<1>4. Queues[1] \in Range(Queues)
  <2>1. Queues \in Seq(Range(Queues)) /\ Queues # <<>>
    BY <1>2, <1>3, ServerAssumption
  <2> QED BY <2>1
<1>5. tokenReady
  BY <1>1, <1>2 DEF SignedOut
<1> QED BY <1>2, <1>3, <1>4, <1>5

LEMMA QueueButtonStep ==
    ASSUME IInv, (\E m \in DeadLetters : reprocessDlq(m)) \/ purgeDlq PROVE IInv'
<1>1. /\ Click /\ secret' = secret /\ selectedQueue # None
      /\ UNCHANGED <<token, tokenReady, view, load, selected, editor, server, mounted, faults>>
  BY DEF reprocessDlq, purgeDlq, session
<1>2. selectedQueue \in Range(Queues) /\ tokenReady
  BY <1>1, QueueFacts
<1>3. CASE purgeDlq
  <2>1. PICK a : a = <<selectedQueue>>
    OBVIOUS
  <2>2. a \in About("purgeDlq") /\ "purgeDlq" \in ClickOps /\ Ask("purgeDlq", a)
    BY <1>2, <1>3, <2>1 DEF About, ScopeOps, ClientOps, ClickOps, purgeDlq
  <2> QED BY <1>1, <1>2, <2>2, AskStep
<1>4. ASSUME NEW m \in DeadLetters, reprocessDlq(m) PROVE IInv'
  <2>1. PICK a : a = <<selectedQueue, m>>
    OBVIOUS
  <2>2. a \in About("reprocessDlq") /\ "reprocessDlq" \in ClickOps /\ Ask("reprocessDlq", a)
    BY <1>2, <1>4, <2>1 DEF About, ScopeOps, ClientOps, ClickOps, reprocessDlq
  <2> QED BY <1>1, <1>2, <2>2, AskStep
<1> QED BY <1>3, <1>4

LEMMA ClientsFacts ==
    ASSUME IInv, NEW c, load["clients"].status = "ready" \/ Contains(load["clients"].data.items, c)
    PROVE  tokenReady
<1> SUFFICES ASSUME ~tokenReady PROVE FALSE
  OBVIOUS
<1>1. load["clients"].status = "off" /\ load["clients"].data.items = <<>>
  BY PanelNames DEF IInv, SignedOut
<1> QED BY <1>1 DEF Contains

LEMMA ClientButtonStep ==
    ASSUME IInv, \/ \E c \in Clients \cup {""} : createClient(c)
                 \/ \E c \in Clients : rotateClient(c) \/ deactivateClient(c)
    PROVE  IInv'
<1>1. \A c \in Clients, op \in ClientOps : <<c>> \in About(op) /\ op \in ClickOps
  BY DEF About, ScopeOps, ClientOps, ClickOps
<1>2. \A op \in {"createClient", "rotateClient", "deactivateClient"} : op \in ClientOps
  BY DEF ClientOps
<1>3. ASSUME NEW c \in Clients \cup {""}, createClient(c) PROVE IInv'
  <2>1. /\ Click /\ secret' = NoSecret /\ tokenReady
        /\ UNCHANGED <<token, tokenReady, view, load, selected, editor, server, mounted, faults>>
    BY <1>3, ClientsFacts DEF createClient, session
  <2>2. CASE c = ""
    BY <1>3, <2>1, <2>2, ComplainStep DEF createClient
  <2>3. CASE c # ""
    <3>1. c \in Clients /\ Ask("createClient", <<c>>)
      BY <1>3, <2>3 DEF createClient
    <3>2. <<c>> \in About("createClient") /\ "createClient" \in ClickOps
      BY <1>1, <1>2, <3>1
    <3> QED BY <2>1, <3>1, <3>2, AskStep
  <2> QED BY <2>2, <2>3
<1>4. ASSUME NEW c \in Clients, rotateClient(c) PROVE IInv'
  <2>1. /\ Click /\ secret' = NoSecret /\ tokenReady /\ Ask("rotateClient", <<c>>)
        /\ UNCHANGED <<token, tokenReady, view, load, selected, editor, server, mounted, faults>>
    BY <1>4, ClientsFacts DEF rotateClient, session
  <2> QED BY <1>1, <1>2, <2>1, AskStep
<1>5. ASSUME NEW c \in Clients, deactivateClient(c) PROVE IInv'
  <2>1. /\ Click /\ secret' = secret /\ tokenReady /\ Ask("deactivateClient", <<c>>)
        /\ UNCHANGED <<token, tokenReady, view, load, selected, editor, server, mounted, faults>>
    BY <1>5, ClientsFacts DEF deactivateClient, session
  <2> QED BY <1>1, <1>2, <2>1, AskStep
<1> QED BY <1>3, <1>4, <1>5

-----------------------------------------------------------------------------
(* The server executes the request of a button.                            *)

\* What an operation never does: take a secret back, or forget what was done.
Grows(st) ==
    /\ st \in ServerState /\ st.applied = Present.applied
    /\ \A c \in Clients : st.issued[c] >= Present.issued[c]

LEMMA PutType ==
    ASSUME NEW items \in Seq(Item), NEW k \in ItemKeys, NEW v \in JsonValues PROVE Put(items, k, v) \in Seq(Item)
<1>1. PICK item : item = [key |-> k, value |-> v, deleted |-> FALSE]
  OBVIOUS
<1>2. item \in Item
  BY <1>1 DEF Item
<1>3. PICK I : I = Item
  OBVIOUS
<1>4. [i \in DOMAIN items |-> IF items[i].key = k THEN item ELSE items[i]] \in Seq(I) /\ Append(items, item) \in Seq(I)
  BY <1>2, <1>3
<1> QED BY <1>1, <1>3, <1>4 DEF Put

LEMMA ExecutedGrows ==
    ASSUME TypeOK, NEW op \in ClickOps, NEW a \in About(op)
    PROVE  /\ Grows(Executed(op, a))
           /\ op \in {"createClient", "rotateClient"} =>
                a[1] \in Clients /\ Executed(op, a).issued[a[1]] = Present.issued[a[1]] + 1
<1>1. PICK st : st = Present
  OBVIOUS
<1>2. st \in ServerState
  BY <1>1, ServerFacts
<1>3. /\ st.draft \in [Range(Scopes) -> Seq(Item)] /\ st.schema \in [Range(Scopes) -> Seq(JsonValues)]
      /\ st.releases \in [Range(Scopes) -> Seq(Seq(Item))]
      /\ st.visible \in [Range(Queues) -> SUBSET DeadLetters]
      /\ st.dlq \in [Range(Queues) -> SUBSET DeadLetters]
      /\ st.issued \in [Clients -> Nat] /\ st.applied \in SUBSET Nat
  BY <1>2 DEF ServerState
<1>4. \A c \in Clients : st.issued[c] \in Nat /\ st.issued[c] >= st.issued[c]
  BY <1>3
<1>5. CASE op = "saveItem"
  <2>1. a \in Range(Scopes) \X ItemKeys \X JsonValues
    BY <1>5 DEF About, ScopeOps, ClientOps
  <2>2. PICK s, k, v : s = a[1] /\ k = a[2] /\ v = a[3]
    OBVIOUS
  <2>3. s \in Range(Scopes) /\ k \in ItemKeys /\ v \in JsonValues
    BY <2>1, <2>2
  <2>4. PICK d : d = Put(st.draft[s], k, v)
    OBVIOUS
  <2>5. d \in Seq(Item)
    BY <1>3, <2>3, <2>4, PutType
  <2>6. Executed(op, a) = [st EXCEPT !.draft[s] = d]
    BY <1>1, <1>5, <2>2, <2>4 DEF Executed
  <2>7. PICK D : D = [st.draft EXCEPT ![s] = d]
    OBVIOUS
  <2>8. D \in [Range(Scopes) -> Seq(Item)]
    BY <1>3, <2>5, <2>7
  <2>9. Executed(op, a) = [st EXCEPT !.draft = D]
    BY <2>6, <2>7
  <2>10. PICK e : e = [st EXCEPT !.draft = D]
    OBVIOUS
  <2>11. e \in ServerState /\ e.applied = st.applied /\ e.issued = st.issued
    BY <1>2, <2>8, <2>10 DEF ServerState
  <2> QED BY <1>1, <1>4, <1>5, <2>9, <2>10, <2>11 DEF Grows
<1>6. CASE op \in {"saveSchema", "removeSchema"}
  <2>1. PICK s : s = a[1]
    OBVIOUS
  <2>2. PICK x \in Seq(JsonValues) : Executed(op, a) = [st EXCEPT !.schema[s] = x]
    <3>1. CASE op = "saveSchema"
      <4>1. a \in Range(Scopes) \X JsonValues
        BY <3>1 DEF About, ScopeOps, ClientOps
      <4>2. PICK v : v = a[2]
        OBVIOUS
      <4>3. v \in JsonValues
        BY <4>1, <4>2
      <4>4. <<v>> \in Seq(JsonValues)
        BY <4>3
      <4>5. Executed(op, a) = [st EXCEPT !.schema[s] = <<v>>]
        BY <1>1, <2>1, <3>1, <4>2 DEF Executed
      <4> QED BY <4>4, <4>5
    <3>2. CASE op = "removeSchema"
      <4>1. <<>> \in Seq(JsonValues)
        OBVIOUS
      <4>2. Executed(op, a) = [st EXCEPT !.schema[s] = <<>>]
        BY <1>1, <2>1, <3>2 DEF Executed
      <4> QED BY <4>1, <4>2
    <3> QED BY <1>6, <3>1, <3>2
  <2>3. PICK D : D = [st.schema EXCEPT ![s] = x]
    OBVIOUS
  <2>4. D \in [Range(Scopes) -> Seq(JsonValues)]
    BY <1>3, <2>3
  <2>5. PICK e : e = [st EXCEPT !.schema = D]
    OBVIOUS
  <2>6. e \in ServerState /\ e.applied = st.applied /\ e.issued = st.issued
    BY <1>2, <2>4, <2>5 DEF ServerState
  <2>7. Executed(op, a) = e
    BY <2>2, <2>3, <2>5
  <2> QED BY <1>1, <1>4, <1>6, <2>6, <2>7 DEF Grows
<1>7. CASE op = "publish"
  <2>1. PICK s \in Range(Scopes) : s = a[1]
    BY <1>7 DEF About, ScopeOps, ClientOps
  <2>2. PICK I : I = Seq(Item)
    OBVIOUS
  <2>3. PICK x, y : x = st.draft[s] /\ y = st.releases[s]
    OBVIOUS
  <2>4. x \in I /\ y \in Seq(I)
    BY <1>3, <2>1, <2>2, <2>3
  <2>5. PICK z : z = <<x>> \o y
    OBVIOUS
  <2>6. z \in Seq(I)
    BY <2>4, <2>5
  <2>7. PICK D : D = [st.releases EXCEPT ![s] = z]
    OBVIOUS
  <2>8. D \in [Range(Scopes) -> Seq(Seq(Item))]
    BY <1>3, <2>2, <2>6, <2>7
  <2>9. PICK e : e = [st EXCEPT !.releases = D]
    OBVIOUS
  <2>10. e \in ServerState /\ e.applied = st.applied /\ e.issued = st.issued
    BY <1>2, <2>8, <2>9 DEF ServerState
  <2>11. Executed(op, a) = e
    BY <1>1, <1>7, <2>1, <2>3, <2>5, <2>7, <2>9 DEF Executed
  <2> QED BY <1>1, <1>4, <1>7, <2>10, <2>11 DEF Grows
<1>8. CASE op \in {"reprocessDlq", "purgeDlq"}
  <2>1. PICK D, V : /\ D \in [Range(Queues) -> SUBSET DeadLetters] /\ V \in [Range(Queues) -> SUBSET DeadLetters]
                    /\ Executed(op, a) = [st EXCEPT !.dlq = D, !.visible = V]
    <3>1. CASE op = "reprocessDlq"
      <4>1. a \in Range(Queues) \X DeadLetters
        BY <3>1 DEF About, ScopeOps, ClientOps
      <4>2. PICK q, m : q = a[1] /\ m = a[2]
        OBVIOUS
      <4>3. q \in Range(Queues) /\ m \in DeadLetters
        BY <4>1, <4>2
      <4>4. Executed(op, a) = [st EXCEPT !.dlq[q] = @ \ {m}, !.visible[q] = @ \cup {m}]
        BY <1>1, <3>1, <4>2 DEF Executed
      <4>5. PICK D, V : D = [st.dlq EXCEPT ![q] = @ \ {m}] /\ V = [st.visible EXCEPT ![q] = @ \cup {m}]
        OBVIOUS
      <4>6. D \in [Range(Queues) -> SUBSET DeadLetters] /\ V \in [Range(Queues) -> SUBSET DeadLetters]
        BY <1>3, <4>3, <4>5
      <4>7. Executed(op, a) = [st EXCEPT !.dlq = D, !.visible = V]
        BY <1>2, <4>4, <4>5 DEF ServerState
      <4> QED BY <4>6, <4>7
    <3>2. CASE op = "purgeDlq"
      <4>1. PICK q, D, V : q = a[1] /\ D = [st.dlq EXCEPT ![q] = {}] /\ V = st.visible
        OBVIOUS
      <4>2. Executed(op, a) = [st EXCEPT !.dlq[q] = {}]
        BY <1>1, <3>2, <4>1 DEF Executed
      <4>3. D \in [Range(Queues) -> SUBSET DeadLetters] /\ V \in [Range(Queues) -> SUBSET DeadLetters]
        BY <1>3, <4>1
      <4>4. Executed(op, a) = [st EXCEPT !.dlq = D, !.visible = V]
        BY <1>2, <4>1, <4>2 DEF ServerState
      <4> QED BY <4>3, <4>4
    <3> QED BY <1>8, <3>1, <3>2
  <2>2. PICK e : e = [st EXCEPT !.dlq = D, !.visible = V]
    OBVIOUS
  <2>3. e \in ServerState /\ e.applied = st.applied /\ e.issued = st.issued
    BY <1>2, <2>1, <2>2 DEF ServerState
  <2> QED BY <1>1, <1>4, <1>8, <2>1, <2>2, <2>3 DEF Grows
<1>9. CASE op \in {"createClient", "rotateClient"}
  <2>1. PICK c \in Clients : c = a[1]
    BY <1>9 DEF About, ScopeOps, ClientOps
  <2>2. PICK F : F = [st.issued EXCEPT ![c] = @ + 1]
    OBVIOUS
  <2>3. F \in [Clients -> Nat] /\ F[c] = st.issued[c] + 1 /\ \A d \in Clients : F[d] >= st.issued[d]
    BY <1>3, <2>2
  <2>4. PICK e : e = [st EXCEPT !.issued = F]
    OBVIOUS
  <2>5. e \in ServerState /\ e.applied = st.applied /\ e.issued = F
    BY <1>2, <2>3, <2>4 DEF ServerState
  <2>6. Executed(op, a) = e
    BY <1>1, <1>9, <2>1, <2>2, <2>4 DEF Executed
  <2> QED BY <1>1, <2>1, <2>3, <2>5, <2>6 DEF Grows
<1>10. CASE op = "deactivateClient"
  <2>1. Executed(op, a) = st
    BY <1>1, <1>10 DEF Executed
  <2> QED BY <1>1, <1>2, <1>4, <1>10, <2>1 DEF Grows
<1> QED BY <1>5, <1>6, <1>7, <1>8, <1>9, <1>10 DEF ClickOps, ScopeOps, ClientOps

LEMMA ExecuteStep == ASSUME IInv, NEW i \in DOMAIN net, Execute(i) PROVE IInv'
<1>0. TypeOK /\ ClicksSound /\ ClickUnderWay /\ HonestFeedback /\ SecretIsOfTheNamed /\ SignedOut
      /\ EditorFollowsDraft
  BY DEF IInv
<1>1. /\ i[1] = "click" /\ ~net[i].executed
      /\ net' = [net EXCEPT ![i].executed = TRUE, ![i].reply = Reply(net[i])]
      /\ server' = Append(server, [Executed(net[i].op, net[i].about) EXCEPT !.applied = @ \cup {i[2]}])
      /\ UNCHANGED <<token, tokenReady, view, load, selected, editor, feedback, secret, clicks, mounted, faults>>
  BY DEF Execute, session, forms
<1>2. PICK r, n, op, a : r = net[i] /\ n = Reply(net[i]) /\ op = r.op /\ a = r.about
  OBVIOUS
<1>3. RequestOK(i) /\ net = [j \in DOMAIN net |-> net[j]]
  BY <1>0, TypeFacts, FormsFacts
<1>4. r \in [op : ClickOps, about : About(op), token : {"wrong", "right"}, cancelled : BOOLEAN,
             sent : 1 .. Now, executed : BOOLEAN, reply : Nat]
  BY <1>1, <1>2, <1>3 DEF RequestOK
<1>5. op \in ClickOps /\ a \in About(op) /\ i[2] \in Nat
  BY <1>2, <1>3, <1>4 DEF RequestOK
<1>6. PICK e : e = Executed(op, a)
  OBVIOUS
<1>7. /\ Grows(e)
      /\ op \in {"createClient", "rotateClient"} => a[1] \in Clients /\ e.issued[a[1]] = Present.issued[a[1]] + 1
  BY <1>0, <1>5, <1>6, ExecutedGrows
<1>8. PICK st : st = [e EXCEPT !.applied = @ \cup {i[2]}]
  OBVIOUS
<1>9. /\ st \in ServerState /\ st.applied = Present.applied \cup {i[2]} /\ st.issued = e.issued
  <2>1. e \in ServerState /\ e.applied = Present.applied
    BY <1>7 DEF Grows
  <2> QED BY <1>5, <1>8, <2>1 DEF ServerState
<1>10. PICK S : S = ServerState
  OBVIOUS
<1>11. server' = Append(server, st) /\ server \in Seq(S) /\ st \in S
  BY <1>0, <1>1, <1>2, <1>6, <1>8, <1>9, <1>10, FormsFacts
<1>12. /\ server' \in Seq(S) /\ server' # <<>> /\ Now \in Nat /\ Now' = Now + 1 /\ Present' = st
  BY <1>11 DEF Now, Present
<1>13. Now' \in Nat /\ Now <= Now'
  BY <1>12
<1>14. \A c \in Clients : Present.issued[c] \in Nat /\ st.issued[c] \in Nat /\ st.issued[c] >= Present.issued[c]
  <2>1. Present.issued \in [Clients -> Nat] /\ st.issued \in [Clients -> Nat]
    BY <1>0, <1>9, ServerFacts DEF ServerState
  <2> QED BY <1>7, <1>9, <2>1 DEF Grows
<1>15. n \in Nat /\ (op \in {"createClient", "rotateClient"} => n \in 1 .. st.issued[a[1]])
  <2>1. CASE op \in {"createClient", "rotateClient"}
    <3>1. n = Present.issued[a[1]] + 1 /\ a[1] \in Clients
      BY <1>2, <1>7, <2>1 DEF Reply, Issues
    <3>2. st.issued[a[1]] = Present.issued[a[1]] + 1
      BY <1>7, <1>9, <2>1
    <3>3. PICK k : k = Present.issued[a[1]]
      OBVIOUS
    <3>4. k \in Nat
      BY <1>14, <3>1, <3>3
    <3> QED BY <3>1, <3>2, <3>3, <3>4
  <2>2. CASE op \notin {"createClient", "rotateClient"}
    BY <1>2, <2>2 DEF Reply, Issues
  <2> QED BY <2>1, <2>2
<1>16. PICK x : x = [r EXCEPT !.executed = TRUE, !.reply = n]
  OBVIOUS
<1>17. /\ x \in [op : ClickOps, about : About(op), token : {"wrong", "right"}, cancelled : BOOLEAN,
                 sent : 1 .. Now', executed : BOOLEAN, reply : Nat]
       /\ x.op = op /\ x.about = a /\ x.reply = n
  <2>1. 1 .. Now \subseteq 1 .. Now'
    BY <1>12
  <2>2. PICK A, O : A = About(op) /\ O = ClickOps
    OBVIOUS
  <2>3. r \in [op : O, about : A, token : {"wrong", "right"}, cancelled : BOOLEAN,
               sent : 1 .. Now, executed : BOOLEAN, reply : Nat]
    BY <1>4, <2>2
  <2>4. x \in [op : O, about : A, token : {"wrong", "right"}, cancelled : BOOLEAN,
               sent : 1 .. Now', executed : BOOLEAN, reply : Nat]
    BY <1>15, <1>16, <2>1, <2>3
  <2>5. x.op = r.op /\ x.about = r.about /\ x.reply = n
    BY <1>16, <2>3
  <2> QED BY <1>2, <2>2, <2>4, <2>5
<1>18. x.cancelled = r.cancelled
  BY <1>4, <1>16
<1>19. net' = [net EXCEPT ![i] = x]
  BY <1>1, <1>2, <1>3, <1>16
<1>20. /\ DOMAIN net' = DOMAIN net /\ net'[i] = x /\ \A j \in DOMAIN net : j # i => net'[j] = net[j]
       /\ net' = [j \in DOMAIN net' |-> net'[j]]
  BY <1>3, <1>19
<1>21. clicks' \in Nat /\ clicks <= clicks' /\ clicks' \in 0 .. MaxClicks
  BY <1>0, <1>1, TypeFacts, FormsFacts
<1>22. ASSUME NEW j \in DOMAIN net' PROVE RequestOK(j)'
  <2>1. CASE j = i
    <3>1. i \in (AllPanels \cup {"click"}) \X (0 .. clicks')
      BY <1>1, <1>3 DEF RequestOK
    <3> QED BY <1>1, <1>17, <1>20, <2>1, <3>1 DEF RequestOK
  <2>2. CASE j # i
    BY <1>0, <1>13, <1>20, <1>21, <2>2, RequestKept
  <2> QED BY <2>1, <2>2
<1>23. TypeOK'
  <2>1. \A p \in AllPanels : PanelOK(p, load[p])'
    BY <1>0, <1>1, <1>13, PanelKept
  <2>2. /\ faults' \in 0 .. MaxFaults /\ selected' \in Range(Scopes) \cup {None} /\ secret' \in Secrets
        /\ editor' \in Editors /\ load' = [p \in AllPanels |-> load'[p]] /\ feedback' \in Feedbacks'
    BY <1>0, <1>1, <1>21, FormsFacts, FeedbackKept
  <2>3. server' \in Seq(ServerState) /\ server' # <<>>
    BY <1>10, <1>12
  <2> QED BY <1>0, <1>1, <1>20, <1>21, <1>22, <2>1, <2>2, <2>3, TypeOKKept
<1>24. PanelsBelong' /\ OneEffect' /\ FreshPanels' /\ LoadsUnderWay'
  BY <1>1, <1>20, PanelsKept
<1>25. ClicksSound'
  <2> SUFFICES ASSUME NEW j \in DOMAIN net', j[1] = "click"
               PROVE  /\ ~net'[j].cancelled => j[2] > mounted
                      /\ net'[j].executed =>
                           /\ j[2] \in st.applied
                           /\ Issues(net'[j]) => net'[j].reply \in 1 .. st.issued[net'[j].about[1]]
    BY <1>1, <1>12 DEF ClicksSound
  <2>1. CASE j = i
    <3>1. ~x.cancelled => i[2] > mounted
      BY <1>0, <1>1, <1>2, <1>18 DEF ClicksSound
    <3>2. i[2] \in st.applied /\ (Issues(x) => x.reply \in 1 .. st.issued[x.about[1]])
      BY <1>9, <1>15, <1>17 DEF Issues
    <3> QED BY <1>20, <2>1, <3>1, <3>2
  <2>2. CASE j # i
    <3>1. net'[j] = net[j] /\ j \in DOMAIN net
      BY <1>20, <2>2
    <3>2. ~net[j].cancelled => j[2] > mounted
      BY <1>0, <3>1 DEF ClicksSound
    <3>3. net[j].executed => j[2] \in st.applied
      BY <1>0, <1>9, <3>1 DEF ClicksSound
    <3>4. ASSUME net[j].executed, Issues(net[j]) PROVE net[j].reply \in 1 .. st.issued[net[j].about[1]]
      <4>1. PICK m, c : m = net[j].reply /\ c = net[j].about[1]
        OBVIOUS
      <4>2. m \in 1 .. Present.issued[c]
        BY <1>0, <3>1, <3>4, <4>1 DEF ClicksSound
      <4>3. c \in Clients
        <5>1. RequestOK(j) /\ net[j].op \in {"createClient", "rotateClient"}
          BY <1>0, <3>1, <3>4, TypeFacts DEF Issues
        <5>2. PICK o : o = net[j].op
          OBVIOUS
        <5>3. net[j].about \in About(o) /\ o \in {"createClient", "rotateClient"}
          BY <5>1, <5>2 DEF RequestOK
        <5> QED BY <4>1, <5>3 DEF About, ScopeOps, ClientOps
      <4>4. PICK k, l : k = Present.issued[c] /\ l = st.issued[c]
        OBVIOUS
      <4>5. k \in Nat /\ l \in Nat /\ l >= k
        BY <1>14, <4>3, <4>4
      <4> QED BY <4>1, <4>2, <4>4, <4>5
    <3> QED BY <3>1, <3>2, <3>3, <3>4
  <2> QED BY <2>1, <2>2
<1>26. ClickUnderWay'
  <2>1. \A j \in DOMAIN net : ~net[j].cancelled => ~net'[j].cancelled
    BY <1>2, <1>18, <1>20
  <2> QED BY <1>0, <1>1, <1>20, <2>1 DEF ClickUnderWay
<1>27. HonestFeedback'
  BY <1>0, <1>1, <1>9, <1>12 DEF HonestFeedback
<1>28. SecretIsOfTheNamed'
  <2> SUFFICES ASSUME feedback.subject # None
               PROVE  secret.client = feedback.subject /\ secret.no \in 1 .. st.issued[feedback.subject]
    BY <1>1, <1>12 DEF SecretIsOfTheNamed
  <2>1. PICK c, m, k, l : c = feedback.subject /\ m = secret.no /\ k = Present.issued[c] /\ l = st.issued[c]
    OBVIOUS
  <2>2. secret.client = c /\ m \in 1 .. k
    BY <1>0, <2>1 DEF SecretIsOfTheNamed
  <2>3. c \in Clients
    BY <1>0, <2>1, FormsFacts DEF Feedbacks
  <2>4. k \in Nat /\ l \in Nat /\ l >= k
    BY <1>14, <2>1, <2>3
  <2> QED BY <2>1, <2>2, <2>4
<1>29. SignedOut' /\ EditorFollowsDraft'
  BY <1>0, <1>1, <1>20 DEF SignedOut, EditorFollowsDraft
<1> QED BY <1>23, <1>24, <1>25, <1>26, <1>27, <1>28, <1>29 DEF IInv

-----------------------------------------------------------------------------
(* Answers.                                                                *)

LEMMA RestFacts ==
    ASSUME NEW i, NEW rest, rest = Rest(i)
    PROVE  /\ DOMAIN rest = DOMAIN net \ {i} /\ \A j \in DOMAIN rest : rest[j] = net[j]
           /\ rest = [j \in DOMAIN rest |-> rest[j]]
  BY DEF Rest

\* What every answer leaves alone, and what its effect on the rest must be.
LEMMA AnswerTyped ==
    ASSUME TypeOK, UNCHANGED <<token, tokenReady, view, server, clicks, mounted>>,
           faults' \in 0 .. MaxFaults, selected' \in Range(Scopes) \cup {None}, editor' \in Editors,
           secret' \in Secrets, feedback' \in Feedbacks,
           load' = [p \in AllPanels |-> load'[p]], \A p \in AllPanels : PanelOK(p, load[p])',
           net' = [i \in DOMAIN net' |-> net'[i]], \A i \in DOMAIN net' : RequestOK(i)'
    PROVE  TypeOK'
<1>1. clicks' \in 0 .. MaxClicks /\ clicks <= clicks'
  BY TypeFacts, FormsFacts
<1>2. feedback' \in Feedbacks'
  BY DEF Feedbacks
<1>3. server' \in Seq(ServerState) /\ server' # <<>>
  BY FormsFacts
<1> QED BY <1>1, <1>2, <1>3, TypeOKKept

LEMMA DoneFacts ==
    ASSUME NEW n, NEW c
    PROVE  /\ Done(n, c).tells = "done" /\ Done(n, c).click = n /\ Done(n, c).subject = c
           /\ n \in 0 .. clicks /\ c \in Clients \cup {None} => Done(n, c) \in Feedbacks
  BY DEF Done, Feedbacks

LEMMA AnsweredStep ==
    ASSUME IInv, NEW i \in DOMAIN net, NEW response \in Responses, Answered(i, response),
           UNCHANGED <<token, tokenReady, view, server, clicks, mounted>>, faults' \in 0 .. MaxFaults
    PROVE  IInv'
<1>0. TypeOK /\ ClicksSound /\ ClickUnderWay /\ HonestFeedback /\ SecretIsOfTheNamed /\ SignedOut
      /\ EditorFollowsDraft
  BY DEF IInv
<1>1. i[1] = "click" /\ net' = Rest(i) /\ UNCHANGED <<load, selected>>
  BY DEF Answered
<1>2. /\ DOMAIN net' = DOMAIN net \ {i} /\ \A j \in DOMAIN net' : net'[j] = net[j]
      /\ net' = [j \in DOMAIN net' |-> net'[j]]
  BY <1>1 DEF Rest
<1>3. Now' = Now /\ Now \in Nat /\ Present' = Present /\ clicks \in Nat
  BY <1>0, ServerFacts, TypeFacts DEF Now, Present
<1>4. PICK r : r = net[i]
  OBVIOUS
<1>5. /\ i[2] \in 0 .. clicks /\ r.op \in ClickOps /\ r.about \in About(r.op) /\ r.reply \in Nat
      /\ i = <<"click", i[2]>>
  BY <1>0, <1>1, <1>4, TypeFacts DEF RequestOK
<1>6. Issues(r) => r.about[1] \in Clients
  <2>1. PICK o : o = r.op
    OBVIOUS
  <2> QED BY <1>5, <2>1 DEF Issues, About, ScopeOps, ClientOps
<1>7. UNCHANGED <<editor, feedback, secret>> \/ Succeeded(i[2], r) \/ Failed
  BY <1>4 DEF Answered, forms
<1>9. editor' \in Editors /\ editor'.key = editor.key /\ editor'.text = editor.text
      /\ (editor'.edited <=> editor.edited)
  <2>1. PICK e : e = editor
    OBVIOUS
  <2>2. e \in Editors
    BY <1>0, <2>1, FormsFacts
  <2>3. Text(EmptyObject) \in JsonTexts
    BY DEF Text, JsonTexts, JsonValues
  <2>4. editor' = e \/ editor' = [e EXCEPT !.schema = Text(EmptyObject)]
    BY <1>7, <2>1 DEF Succeeded, Failed
  <2> QED BY <2>1, <2>2, <2>3, <2>4 DEF Editors
<1>10. secret' \in Secrets /\ feedback' \in Feedbacks
  <2>1. CASE Succeeded(i[2], r)
    <3>1. Show(r) \in Secrets \/ ~Issues(r)
      BY <1>5, <1>6 DEF Show, Secrets
    <3>2. feedback' \in Feedbacks
      BY <1>5, <1>6, <2>1, DoneFacts DEF Succeeded
    <3> QED BY <1>0, <2>1, <3>1, <3>2, FormsFacts DEF Succeeded
  <2>2. CASE Failed
    <3>1. Failure \in Feedbacks
      BY <1>3 DEF Failure, Feedbacks
    <3> QED BY <1>0, <2>2, <3>1, FormsFacts DEF Failed
  <2> QED BY <1>0, <1>7, <2>1, <2>2, FormsFacts
<1>11. /\ \A p \in AllPanels : PanelOK(p, load[p])'
       /\ \A j \in DOMAIN net' : RequestOK(j)'
  BY <1>0, <1>1, <1>2, <1>3, PanelKept, RequestKept
<1>12. TypeOK'
  <2>1. load' = [p \in AllPanels |-> load'[p]] /\ selected' \in Range(Scopes) \cup {None}
    BY <1>0, <1>1, FormsFacts
  <2> QED BY <1>0, <1>2, <1>9, <1>10, <1>11, <2>1, AnswerTyped
<1>13. PanelsBelong' /\ OneEffect' /\ FreshPanels' /\ LoadsUnderWay'
  BY <1>1, <1>2, PanelsKept
<1>14. ClicksSound'
  BY <1>0, <1>2, <1>3 DEF ClicksSound, Issues
<1>15. SignedOut' /\ EditorFollowsDraft'
  BY <1>0, <1>1, <1>2, <1>9 DEF SignedOut, EditorFollowsDraft
<1>16. ClickUnderWay' /\ HonestFeedback' /\ SecretIsOfTheNamed'
  <2>1. CASE Succeeded(i[2], r) /\ ~r.cancelled /\ r.executed
    <3>1. feedback'.tells = "done" /\ feedback'.click = i[2]
          /\ feedback'.subject = (IF Issues(r) THEN r.about[1] ELSE None)
      BY <2>1, DoneFacts DEF Succeeded
    <3>2. i[2] > mounted /\ i[2] \in Present.applied
          /\ (Issues(r) => r.reply \in 1 .. Present.issued[r.about[1]])
      BY <1>0, <1>1, <1>4, <2>1 DEF ClicksSound
    <3>3. Issues(r) => secret'.client = r.about[1] /\ secret'.no = r.reply
      BY <2>1 DEF Succeeded, Show
    <3> QED BY <1>3, <3>1, <3>2, <3>3 DEF ClickUnderWay, HonestFeedback, SecretIsOfTheNamed
  <2>2. CASE Failed
    BY <2>2, FailureType DEF Failed, ClickUnderWay, HonestFeedback, SecretIsOfTheNamed
  <2>3. CASE UNCHANGED <<editor, feedback, secret>> /\ r.cancelled
    <3>1. ClickUnderWay'
      BY <1>0, <1>2, <1>4, <1>5, <2>3 DEF ClickUnderWay
    <3> QED BY <1>0, <1>3, <2>3, <3>1 DEF HonestFeedback, SecretIsOfTheNamed
  <2>4. \/ Succeeded(i[2], r) /\ ~r.cancelled /\ r.executed
        \/ Failed
        \/ UNCHANGED <<editor, feedback, secret>> /\ r.cancelled
    <3>1. fetchJson(response) => response = "ok"
      BY DEF fetchJson, Responses
    <3> QED BY <1>4, <3>1 DEF Answered, forms
  <2> QED BY <2>1, <2>2, <2>3, <2>4
<1> QED BY <1>12, <1>13, <1>14, <1>15, <1>16 DEF IInv

\* The answer of a panel's request leaves the buttons alone.
LEMMA LoadedClicks ==
    ASSUME IInv, NEW i \in DOMAIN net, i[1] # "click", net' = Rest(i),
           UNCHANGED <<feedback, secret, server, mounted>>
    PROVE  ClicksSound' /\ ClickUnderWay' /\ HonestFeedback' /\ SecretIsOfTheNamed'
<1>1. /\ \A j \in DOMAIN net : j[1] = "click" => j \in DOMAIN net' /\ net'[j] = net[j]
      /\ \A j \in DOMAIN net' : j[1] = "click" => j \in DOMAIN net
  BY DEF Rest
<1> QED BY <1>1, ClicksKept

\* A request under way is one of a user who has signed in.
LEMMA SignedInKept ==
    ASSUME IInv, NEW i \in DOMAIN net, UNCHANGED tokenReady PROVE SignedOut'
<1>1. SignedOut
  BY DEF IInv
<1> QED BY <1>1 DEF SignedOut

LEMMA LoadedCancelledStep ==
    ASSUME IInv, NEW i \in DOMAIN net, i[1] # "click", net[i].cancelled, net' = Rest(i),
           UNCHANGED <<load, selected, editor, feedback, secret>>,
           UNCHANGED <<token, tokenReady, view, server, clicks, mounted>>, faults' \in 0 .. MaxFaults
    PROVE  IInv'
<1>0. TypeOK /\ EditorFollowsDraft
  BY DEF IInv
<1>1. /\ DOMAIN net' = DOMAIN net \ {i} /\ \A j \in DOMAIN net' : net'[j] = net[j]
      /\ net' = [j \in DOMAIN net' |-> net'[j]]
  BY DEF Rest
<1>2. Now' = Now /\ Now \in Nat /\ clicks \in Nat
  BY <1>0, ServerFacts, TypeFacts DEF Now
<1>3. /\ \A p \in AllPanels : PanelOK(p, load[p])'
      /\ \A j \in DOMAIN net' : RequestOK(j)'
  BY <1>0, <1>1, <1>2, PanelKept, RequestKept
<1>4. TypeOK'
  <2>1. /\ load' = [p \in AllPanels |-> load'[p]] /\ selected' \in Range(Scopes) \cup {None}
        /\ editor' \in Editors /\ secret' \in Secrets /\ feedback' \in Feedbacks
    BY <1>0, FormsFacts
  <2> QED BY <1>0, <1>1, <1>3, <2>1, AnswerTyped
<1>5. PanelsBelong' /\ OneEffect' /\ FreshPanels' /\ LoadsUnderWay'
  <2>1. \A j \in DOMAIN net : j[1] # "click" /\ ~net[j].cancelled => j \in DOMAIN net' /\ net'[j] = net[j]
    BY <1>1
  <2> QED BY <1>1, <2>1, PanelsKept
<1>6. ClicksSound' /\ ClickUnderWay' /\ HonestFeedback' /\ SecretIsOfTheNamed'
  BY LoadedClicks
<1>7. SignedOut'
  BY SignedInKept
<1>8. EditorFollowsDraft'
  BY <1>0 DEF EditorFollowsDraft
<1> QED BY <1>4, <1>5, <1>6, <1>7, <1>8 DEF IInv

\* What is known of the request that a panel is waiting for.
LEMMA AwaitedFacts ==
    ASSUME IInv, NEW i \in DOMAIN net, i[1] # "click", ~net[i].cancelled
    PROVE  /\ i[1] \in AllPanels /\ load[i[1]].status = "loading"
           /\ net[i].about = <<Query(i[1])>> /\ net[i].about[1] = Query(i[1])
           /\ net[i].sent \in 1 .. Now /\ net[i].sent >= load[i[1]].since /\ load[i[1]].since \in 0 .. Now
           /\ i[1] \in App \cup Under(view) /\ (i[1] \in ConfigDetails => selected # None)
           /\ \A j \in DOMAIN net : j # i /\ j[1] = i[1] => net[j].cancelled
           /\ tokenReady
<1>0. TypeOK /\ OneEffect /\ PanelsBelong /\ SignedOut
  BY DEF IInv
<1>1. i[1] \in AllPanels /\ net[i].sent \in 1 .. Now
  BY <1>0, TypeFacts DEF RequestOK
<1>2. /\ load[i[1]].status = "loading" /\ net[i].about = <<Query(i[1])>>
      /\ net[i].sent >= load[i[1]].since
  BY <1>0 DEF OneEffect
<1>3. i[1] \in App \cup Under(view) /\ (i[1] \in ConfigDetails => selected # None)
  BY <1>0, <1>1, <1>2 DEF PanelsBelong
<1>4. \A j \in DOMAIN net : j # i /\ j[1] = i[1] => net[j].cancelled
  BY <1>0 DEF OneEffect
<1>5. load[i[1]].since \in 0 .. Now
  BY <1>0, <1>1, TypeFacts DEF PanelOK
<1>6. tokenReady
  BY <1>0 DEF SignedOut
<1>7. net[i].about[1] = Query(i[1])
  BY <1>2
<1> QED BY <1>1, <1>2, <1>3, <1>4, <1>5, <1>6, <1>7

LEMMA RejectedStep ==
    ASSUME IInv, NEW i \in DOMAIN net, i[1] # "click", ~net[i].cancelled, Rejected(i[1], Rest(i)),
           UNCHANGED <<feedback, secret>>,
           UNCHANGED <<token, tokenReady, view, server, clicks, mounted>>, faults' \in 0 .. MaxFaults
    PROVE  IInv'
<1>0. TypeOK /\ PanelsBelong /\ OneEffect /\ FreshPanels /\ LoadsUnderWay /\ EditorFollowsDraft
  BY DEF IInv
<1>1. PICK p, s : p = i[1] /\ s = load[i[1]]
  OBVIOUS
<1>2. /\ p \in AllPanels /\ s.status = "loading" /\ p \in App \cup Under(view)
      /\ (p \in ConfigDetails => selected # None)
      /\ \A j \in DOMAIN net : j # i /\ j[1] = p => net[j].cancelled
  BY <1>1, AwaitedFacts
<1>3. /\ load' = [load EXCEPT ![p].status = "error"] /\ net' = Rest(i) /\ UNCHANGED <<selected, editor>>
  BY <1>1 DEF Rejected
<1>4. /\ DOMAIN net' = DOMAIN net \ {i} /\ \A j \in DOMAIN net' : net'[j] = net[j]
      /\ net' = [j \in DOMAIN net' |-> net'[j]]
  BY <1>3 DEF Rest
<1>5. load = [q \in AllPanels |-> load[q]] /\ PanelOK(p, s)
  BY <1>0, <1>1, <1>2, FormsFacts, TypeFacts
<1>6. PICK x : x = [s EXCEPT !.status = "error"]
  OBVIOUS
<1>7. x.status = "error" /\ x.since = s.since /\ x.data = s.data /\ PanelOK(p, x)
  <2>1. s = [status |-> s.status, since |-> s.since, data |-> Page(s.data.items, s.data.query, s.data.at)]
    BY <1>5 DEF PanelOK
  <2>2. x = [status |-> "error", since |-> s.since, data |-> s.data] /\ s.data = Page(s.data.items, s.data.query, s.data.at)
    BY <1>6, <2>1
  <2>3. x.status = "error" /\ x.since = s.since /\ x.data = s.data
    BY <2>2
  <2> QED BY <1>5, <2>2, <2>3 DEF PanelOK
<1>8. /\ load'[p] = x /\ (\A q \in AllPanels : q # p => load'[q] = load[q])
      /\ load' = [q \in AllPanels |-> load'[q]]
  BY <1>1, <1>2, <1>3, <1>5, <1>6
<1>9. Now' = Now /\ Now \in Nat /\ clicks \in Nat
  BY <1>0, ServerFacts, TypeFacts DEF Now
<1>10. TypeOK'
  <2>1. ASSUME NEW q \in AllPanels PROVE PanelOK(q, load[q])'
    <3>1. PanelOK(q, load'[q])
      BY <1>0, <1>7, <1>8, TypeFacts
    <3> QED BY <1>9, <3>1 DEF PanelOK
  <2>2. \A j \in DOMAIN net' : RequestOK(j)'
    BY <1>0, <1>4, <1>9, RequestKept
  <2>3. /\ selected' \in Range(Scopes) \cup {None}
        /\ editor' \in Editors /\ secret' \in Secrets /\ feedback' \in Feedbacks
    BY <1>0, <1>3, FormsFacts
  <2> QED BY <1>0, <1>4, <1>8, <2>1, <2>2, <2>3, AnswerTyped
<1>11. \A q : Query(q)' = Query(q)
  <2>1. selectedQueue' = selectedQueue
    <3>1. CASE p = "queues"
      BY <1>1, <1>2, <1>7, <1>8, <3>1 DEF selectedQueue
    <3>2. CASE p # "queues"
      <4>1. load'["queues"] = load["queues"]
        BY <1>8, <3>2, PanelNames
      <4> QED BY <4>1 DEF selectedQueue
    <3> QED BY <3>1, <3>2
  <2> QED BY <1>3, <2>1 DEF Query
<1>12. PanelsBelong'
  BY <1>0, <1>2, <1>3, <1>8 DEF PanelsBelong
<1>13. FreshPanels'
  BY <1>0, <1>7, <1>8, <1>11 DEF FreshPanels
<1>14. LoadsUnderWay'
  <2> SUFFICES ASSUME NEW q \in AllPanels, load'[q].status = "loading"
               PROVE  \E j \in DOMAIN net' : j[1] = q /\ ~net'[j].cancelled
    BY DEF LoadsUnderWay
  <2>1. q # p /\ load[q].status = "loading"
    BY <1>7, <1>8
  <2>2. PICK j \in DOMAIN net : j[1] = q /\ ~net[j].cancelled
    BY <1>0, <2>1 DEF LoadsUnderWay
  <2>3. j # i
    BY <1>1, <2>1, <2>2
  <2> QED BY <1>4, <2>2, <2>3
<1>15. OneEffect'
  <2>1. ASSUME NEW j \in DOMAIN net', j[1] # "click", ~net'[j].cancelled
        PROVE  /\ j \in DOMAIN net /\ net'[j] = net[j] /\ load'[j[1]] = load[j[1]]
    <3>1. j \in DOMAIN net /\ j # i /\ net'[j] = net[j]
      BY <1>4
    <3>2. j[1] # p
      BY <1>2, <2>1, <3>1
    <3>3. j[1] \in AllPanels
      BY <1>0, <2>1, <3>1, TypeFacts DEF RequestOK
    <3> QED BY <1>8, <3>1, <3>2, <3>3
  <2> QED BY <1>0, <1>11, <2>1 DEF OneEffect
<1>16. ClicksSound' /\ ClickUnderWay' /\ HonestFeedback' /\ SecretIsOfTheNamed'
  BY <1>3, LoadedClicks
<1>17. SignedOut'
  BY SignedInKept
<1>18. EditorFollowsDraft'
  <2>1. "draft" \in AllPanels
    BY PanelNames
  <2>2. load'["draft"].status = "ready" => load'["draft"] = load["draft"]
    BY <1>7, <1>8, <2>1
  <2> QED BY <1>0, <1>3, <2>2 DEF EditorFollowsDraft
<1> QED BY <1>10, <1>12, <1>13, <1>14, <1>15, <1>16, <1>17, <1>18 DEF IInv

-----------------------------------------------------------------------------
(* A panel gets what it asked for, and what it brings starts effects.      *)

\* The state of the panels when p takes an answer, and the requests without it.
Takes(p, items, q, at, current) ==
    /\ current[p].status = "ready" /\ current[p].since = load[p].since
    /\ current[p].data.query = q /\ current[p].data.at = at /\ current[p].data.items = items
    /\ current[p] = [status |-> current[p].status, since |-> current[p].since,
                     data |-> Page(current[p].data.items, current[p].data.query, current[p].data.at)]
    /\ \A h \in AllPanels : h # p => current[h] = load[h]

Drops(i, rest) == DOMAIN rest = DOMAIN net \ {i} /\ \A j \in DOMAIN rest : rest[j] = net[j]

LEMMA ResolvedCurrent ==
    ASSUME TypeOK, NEW p \in AllPanels, NEW items, NEW q, NEW at, NEW current,
           current = [load EXCEPT ![p].status = "ready", ![p].data = Page(items, q, at)]
    PROVE  Takes(p, items, q, at, current)
<1>1. PICK s : s = load[p]
  OBVIOUS
<1>5. load = [h \in AllPanels |-> load[h]] /\ PanelOK(p, s)
  BY <1>1, FormsFacts, TypeFacts
<1>6. PICK x : x = [s EXCEPT !.status = "ready", !.data = Page(items, q, at)]
  OBVIOUS
<1>7. /\ x.status = "ready" /\ x.since = s.since /\ x.data = Page(items, q, at)
      /\ x.data.query = q /\ x.data.at = at /\ x.data.items = items
      /\ x = [status |-> x.status, since |-> x.since, data |-> Page(x.data.items, x.data.query, x.data.at)]
  <2>1. s = [status |-> s.status, since |-> s.since, data |-> Page(s.data.items, s.data.query, s.data.at)]
    BY <1>5 DEF PanelOK
  <2>2. x = [status |-> "ready", since |-> s.since, data |-> Page(items, q, at)]
    BY <1>6, <2>1
  <2>3. x.status = "ready" /\ x.since = s.since /\ x.data = Page(items, q, at)
    BY <2>2
  <2>4. x.data.query = q /\ x.data.at = at /\ x.data.items = items
    BY <2>3 DEF Page
  <2> QED BY <2>2, <2>3, <2>4
<1>8. current[p] = x /\ \A h \in AllPanels : h # p => current[h] = load[h]
  BY <1>1, <1>5, <1>6
<1> QED BY <1>1, <1>7, <1>8 DEF Takes

LEMMA ResolvedSuits ==
    ASSUME IInv, NEW i \in DOMAIN net, i[1] # "click", ~net[i].cancelled,
           NEW at \in net[i].sent .. Now, NEW items, NEW current, NEW rest, NEW P \in SUBSET AllPanels,
           Takes(i[1], items, Query(i[1]), at, current), Drops(i, rest), UNCHANGED view,
           i[1] = "queues" => items \in {<<>>, Queues},
           \A h \in AllPanels \ P : Query(h)' = Query(h),
           selected # None => selected' # None
    PROVE  /\ \A h \in AllPanels \ P : Suits(h, current[h], rest)
           /\ \A h \in AllPanels : PanelOK(h, current[h])
           /\ \A j \in DOMAIN rest : j \in DOMAIN net /\ rest[j] = net[j]
           /\ \A j \in DOMAIN net : j[1] = "click" => j \in DOMAIN rest
<1>0. TypeOK
  BY DEF IInv
<1>1. PICK p, s, q : p = i[1] /\ s = load[p] /\ q = Query(p)
  OBVIOUS
<1>2. /\ p \in AllPanels /\ p \in App \cup Under(view) /\ (p \in ConfigDetails => selected # None)
      /\ net[i].sent \in 1 .. Now /\ net[i].sent >= s.since /\ s.since \in 0 .. Now
      /\ (\A j \in DOMAIN net : j # i /\ j[1] = p => net[j].cancelled)
  BY <1>1, AwaitedFacts
<1>3. Now \in Nat
  BY <1>0, ServerFacts
<1>4. /\ DOMAIN rest = DOMAIN net \ {i} /\ \A j \in DOMAIN rest : rest[j] = net[j]
  BY DEF Drops
<1>6. PICK x : x = current[p]
  OBVIOUS
<1>7. /\ x.status = "ready" /\ x.since = s.since
      /\ x.data.query = q /\ x.data.at = at /\ x.data.items = items
      /\ x = [status |-> x.status, since |-> x.since, data |-> Page(x.data.items, x.data.query, x.data.at)]
  BY <1>1, <1>6 DEF Takes
<1>8. current[p] = x /\ \A h \in AllPanels : h # p => current[h] = load[h]
  BY <1>1, <1>6 DEF Takes
<1>9. at >= s.since
  <2>1. PICK m, n, k : m = net[i].sent /\ n = Now /\ k = s.since
    OBVIOUS
  <2>2. at \in m .. n /\ m \in 1 .. n /\ n \in Nat /\ k \in 0 .. n /\ m >= k
    BY <1>2, <1>3, <2>1
  <2>3. at >= k
    BY <2>2
  <2> QED BY <2>1, <2>3
<1>10. PanelOK(p, x)
  BY <1>1, <1>2, <1>7 DEF PanelOK
<1>11. \A h \in AllPanels : PanelOK(h, current[h])
  BY <1>0, <1>8, <1>10, TypeFacts
<1>12. ASSUME NEW h \in AllPanels \ P PROVE Suits(h, current[h], rest)
  <2>1. CASE h = p
    <3>1. p \in App \cup Under(view') /\ (p \in ConfigDetails => selected' # None)
      BY <1>2
    <3>5. Query(p)' = Query(p)
      BY <1>12, <2>1
    <3>6. x.data.query = Query(p)'
      BY <1>1, <1>7, <3>5
    <3>2. x.data.query = Query(p)' /\ x.data.at >= x.since
      BY <1>7, <1>9, <3>6
    <3>3. \A j \in DOMAIN rest : ~(j[1] = p /\ ~rest[j].cancelled)
      BY <1>2, <1>4
    <3>4. Suits(p, x, rest)
      BY <1>7, <3>1, <3>2, <3>3 DEF Suits
    <3> QED BY <1>8, <2>1, <3>4
  <2>2. CASE h # p
    <3>1. \A j \in DOMAIN net : j[1] = h => j \in DOMAIN rest
      BY <1>1, <1>4, <2>2
    <3>2. Suits(h, load[h], rest)
      BY <1>4, <1>12, <3>1, KeptSuits
    <3> QED BY <1>8, <2>2, <3>2
  <2> QED BY <2>1, <2>2
<1>13. \A j \in DOMAIN net : j[1] = "click" => j \in DOMAIN rest
  BY <1>4
<1> QED BY <1>4, <1>11, <1>12, <1>13

\* What a load finds is of the right kind.
LEMMA ContentsType ==
    ASSUME NEW st \in ServerState
    PROVE  /\ \A q : Contents(st, "scopes", q) \in {<<>>, Scopes} /\ Contents(st, "queues", q) \in {<<>>, Queues}
           /\ \A q \in Range(Scopes) : /\ Contents(st, "draft", q) \in Seq(Item)
                                       /\ Contents(st, "schema", q) \in Seq(JsonValues)
<1>1. /\ st.scopes \in {<<>>, Scopes} /\ st.queues \in {<<>>, Queues}
      /\ st.draft \in [Range(Scopes) -> Seq(Item)] /\ st.schema \in [Range(Scopes) -> Seq(JsonValues)]
  BY DEF ServerState
<1>2. \A q : /\ Contents(st, "scopes", q) = st.scopes /\ Contents(st, "queues", q) = st.queues
             /\ Contents(st, "draft", q) = st.draft[q] /\ Contents(st, "schema", q) = st.schema[q]
  BY DEF Contents
<1> QED BY <1>1, <1>2

LEMMA FillType ==
    ASSUME TypeOK
    PROVE  /\ \A items \in Seq(Item) : FillEditor(items) \in Editors
           /\ \A items \in Seq(JsonValues) : FillSchema(items) \in Editors
<1>1. PICK e : e = editor
  OBVIOUS
<1>2. e \in Editors
  BY <1>1, FormsFacts
<1>3. ASSUME NEW items \in Seq(Item) PROVE FillEditor(items) \in Editors
  <2>1. CASE items = <<>>
    <3>1. Text(EmptyObject) \in JsonTexts
      BY DEF Text, JsonTexts, JsonValues
    <3>2. PICK t : t = Text(EmptyObject)
      OBVIOUS
    <3>3. [e EXCEPT !.key = "", !.text = t, !.edited = FALSE] \in Editors
      BY <1>2, <3>1, <3>2 DEF Editors
    <3> QED BY <1>1, <2>1, <3>2, <3>3 DEF FillEditor
  <2>2. CASE items # <<>>
    <3>1. PICK k, t : k = First(items).key /\ t = Text(First(items).value)
      OBVIOUS
    <3>2. First(items).key \in ItemKeys /\ First(items).value \in JsonValues
      BY <2>2, FirstIsItem DEF Item
    <3>3. k \in ItemKeys /\ t \in JsonTexts
      BY <3>1, <3>2 DEF Text, JsonTexts
    <3>4. [e EXCEPT !.key = k, !.text = t, !.edited = FALSE] \in Editors
      BY <1>2, <3>3 DEF Editors
    <3> QED BY <1>1, <2>2, <3>1, <3>4 DEF FillEditor
  <2> QED BY <2>1, <2>2
<1>4. ASSUME NEW items \in Seq(JsonValues) PROVE FillSchema(items) \in Editors
  <2>1. PICK t : t = IF items = <<>> THEN Text(EmptyObject) ELSE Text(items[1])
    OBVIOUS
  <2>2. items = <<>> \/ items[1] \in JsonValues
    OBVIOUS
  <2>3. t \in JsonTexts
    BY <2>1, <2>2 DEF Text, JsonTexts, JsonValues
  <2>4. [e EXCEPT !.schema = t] \in Editors
    BY <1>2, <2>3 DEF Editors
  <2> QED BY <1>1, <2>1, <2>4 DEF FillSchema
<1> QED BY <1>3, <1>4

LEMMA FillFields ==
    ASSUME TypeOK
    PROVE  /\ \A items :
                IF items = <<>>
                THEN FillEditor(items).key = "" /\ FillEditor(items).text = Text(EmptyObject)
                ELSE /\ FillEditor(items).key = First(items).key
                     /\ FillEditor(items).text = Text(First(items).value)
           /\ \A items : /\ FillSchema(items).key = editor.key /\ FillSchema(items).text = editor.text
                         /\ (FillSchema(items).edited <=> editor.edited)
<1>1. editor \in Editors
  BY FormsFacts
<1> QED BY <1>1 DEF FillEditor, FillSchema, Editors

\* The effects that an answer starts, and the rest of the invariant.
LEMMA ResolvedSound ==
    ASSUME IInv, NEW i \in DOMAIN net, i[1] # "click", ~net[i].cancelled,
           NEW at \in net[i].sent .. Now, NEW items, NEW current, NEW rest, NEW starts,
           Takes(i[1], items, Query(i[1]), at, current), Drops(i, rest),
           i[1] = "queues" => items \in {<<>>, Queues},
           Effects(current, rest, starts, {}), DOMAIN starts \subseteq AllPanels,
           \A h \in DOMAIN starts :
             /\ starts[h] \in Queries /\ starts[h] = Query(h)'
             /\ h \in App \cup Under(view) /\ (h \in ConfigDetails => selected' # None),
           \A h \in AllPanels \ DOMAIN starts : Query(h)' = Query(h),
           selected # None => selected' # None, selected' # None => view = "config",
           selected' \in Range(Scopes) \cup {None}, editor' \in Editors, EditorFollowsDraft',
           UNCHANGED <<feedback, secret>>,
           UNCHANGED <<token, tokenReady, view, server, clicks, mounted>>, faults' \in 0 .. MaxFaults
    PROVE  IInv'
<1>0. TypeOK
  BY DEF IInv
<1>1. PICK P \in SUBSET AllPanels : P = DOMAIN starts
  OBVIOUS
<1>2. /\ \A h \in AllPanels \ P : Suits(h, current[h], rest)
      /\ \A h \in AllPanels : PanelOK(h, current[h])
      /\ \A j \in DOMAIN rest : j \in DOMAIN net /\ rest[j] = net[j]
      /\ \A j \in DOMAIN net : j[1] = "click" => j \in DOMAIN rest
  <2>1. \A h \in AllPanels \ P : Query(h)' = Query(h)
    BY <1>1
  <2>2. view' = view
    OBVIOUS
  <2> QED BY <2>1, <2>2, ResolvedSuits
<1>3. PICK stops : stops = {}
  OBVIOUS
<1>4. Effects(current, rest, starts, stops)
  BY <1>3
<1>5. clicks' \in Nat /\ clicks <= clicks' /\ token' \in {"wrong", "right"}
  BY <1>0, AwaitedFacts, TokenFacts, TypeFacts
<1>6. PanelsBelong' /\ OneEffect' /\ FreshPanels' /\ LoadsUnderWay'
  <2>1. \A h \in DOMAIN starts :
          /\ starts[h] = Query(h)'
          /\ h \in App \cup Under(view') /\ (h \in ConfigDetails => selected' # None)
    OBVIOUS
  <2>2. \A h \in AllPanels \ DOMAIN starts : h \notin stops => Suits(h, current[h], rest)
    BY <1>1, <1>2
  <2>3. selected' # None => view' = "config"
    OBVIOUS
  <2> QED BY <1>2, <1>4, <1>5, <2>1, <2>2, <2>3, EffectsSound
<1>7. /\ load' = [h \in AllPanels |-> load'[h]] /\ \A h \in AllPanels : PanelOK(h, load[h])'
      /\ net' = [j \in DOMAIN net' |-> net'[j]] /\ \A j \in DOMAIN net' : RequestOK(j)'
  BY <1>0, <1>2, <1>4, <1>5, EffectsTyped
<1>8. TypeOK'
  <2>1. secret' \in Secrets /\ feedback' \in Feedbacks
    BY <1>0, FormsFacts
  <2> QED BY <1>0, <1>7, <2>1, AnswerTyped
<1>9. ClicksSound' /\ ClickUnderWay' /\ HonestFeedback' /\ SecretIsOfTheNamed'
  <2>1. /\ \A j \in DOMAIN net : j[1] = "click" => j \in DOMAIN net' /\ net'[j] = net[j]
        /\ \A j \in DOMAIN net' : j[1] = "click" => j \in DOMAIN net
    BY <1>2, EffectsOnClicks
  <2> QED BY <2>1, ClicksKept
<1>10. SignedOut'
  BY SignedInKept
<1> QED BY <1>6, <1>8, <1>9, <1>10 DEF IInv

LEMMA PickersBelong ==
    /\ \A v \in Views : "queues" \in App \cup Under(v) => {"messages", "dlq"} \subseteq Under(v)
    /\ \A v \in Views : "scopes" \in App \cup Under(v) => v = "config" /\ ConfigDetails \subseteq Under(v)
    /\ ConfigDetails \subseteq AllPanels /\ {"messages", "dlq"} \subseteq AllPanels
    /\ ConfigDetails \cap {"messages", "dlq", "queues", "scopes"} = {}
  BY PanelNames DEF App, Under, Panels, Views, MqView, CacheView, ConfigView, ConfigDetails, LogsView, ClientsView

\* MqView has its queues and picks the first.
LEMMA QueuesResolved ==
    ASSUME IInv, NEW i \in DOMAIN net, i[1] = "queues", ~net[i].cancelled,
           NEW at \in net[i].sent .. Now, NEW items, NEW current, NEW rest, NEW starts,
           Takes(i[1], items, Query(i[1]), at, current), Drops(i, rest),
           items = Queues, items # <<>>,
           starts = [h \in {"messages", "dlq"} |-> items[1]], Effects(current, rest, starts, {}),
           UNCHANGED <<selected, editor, feedback, secret>>,
           UNCHANGED <<token, tokenReady, view, server, clicks, mounted>>, faults' \in 0 .. MaxFaults
    PROVE  IInv'
<1>0. TypeOK /\ PanelsBelong /\ EditorFollowsDraft
  BY DEF IInv
<1>1. /\ DOMAIN starts = {"messages", "dlq"} /\ \A h \in DOMAIN starts : starts[h] = items[1]
      /\ DOMAIN starts \subseteq AllPanels
  BY PickersBelong
<1>2. items[1] \in Range(Queues) /\ items[1] \in Queries
  BY ServerAssumption DEF Range, Queries
<1>3. /\ \A h \in AllPanels \ DOMAIN starts : load'[h] = current[h]
      /\ "queues" \in AllPanels \ DOMAIN starts /\ "draft" \in AllPanels \ DOMAIN starts
  BY <1>1, PanelNames, EffectsOnPanels
<1>4. selectedQueue' = items[1]
  <2>1. load'["queues"].status = "ready" /\ load'["queues"].data.items = items
    BY <1>3 DEF Takes
  <2> QED BY <2>1 DEF selectedQueue
<1>5. /\ \A h \in DOMAIN starts : Query(h)' = items[1]
      /\ \A h \in AllPanels \ DOMAIN starts : Query(h)' = Query(h)
  BY <1>1, <1>4, PickersBelong DEF Query
<1>6. \A h \in DOMAIN starts :
        /\ starts[h] \in Queries /\ starts[h] = Query(h)'
        /\ h \in App \cup Under(view) /\ (h \in ConfigDetails => selected' # None)
  <2>1. "queues" \in App \cup Under(view) /\ view \in Views
    BY <1>0, AwaitedFacts, TokenFacts
  <2> QED BY <1>1, <1>2, <1>5, <2>1, PickersBelong
<1>7. EditorFollowsDraft'
  <2>1. load'["draft"] = load["draft"]
    BY <1>3 DEF Takes
  <2> QED BY <1>0, <2>1 DEF EditorFollowsDraft
<1>8. /\ selected # None => selected' # None
      /\ selected' # None => view = "config"
      /\ selected' \in Range(Scopes) \cup {None} /\ editor' \in Editors
  BY <1>0, FormsFacts DEF PanelsBelong
<1>9. i[1] # "click" /\ (i[1] = "queues" => items \in {<<>>, Queues})
  OBVIOUS
<1> QED BY <1>1, <1>5, <1>6, <1>7, <1>8, <1>9, ResolvedSound

\* ConfigView has its scopes and opens ConfigDetails with the first.
LEMMA ScopesResolved ==
    ASSUME IInv, NEW i \in DOMAIN net, i[1] = "scopes", ~net[i].cancelled,
           NEW at \in net[i].sent .. Now, NEW items, NEW current, NEW rest, NEW starts,
           Takes(i[1], items, Query(i[1]), at, current), Drops(i, rest),
           items = Scopes, items # <<>>, selected' = items[1],
           starts = [h \in ConfigDetails |-> items[1]], Effects(current, rest, starts, {}),
           UNCHANGED <<editor, feedback, secret>>,
           UNCHANGED <<token, tokenReady, view, server, clicks, mounted>>, faults' \in 0 .. MaxFaults
    PROVE  IInv'
<1>0. TypeOK
  BY DEF IInv
<1>1. /\ DOMAIN starts = ConfigDetails /\ \A h \in DOMAIN starts : starts[h] = items[1]
      /\ DOMAIN starts \subseteq AllPanels
  BY PickersBelong
<1>2. items[1] \in Range(Scopes) /\ items[1] \in Queries /\ items[1] # None
  BY ServerAssumption DEF Range, Queries
<1>3. /\ \A h \in AllPanels \ DOMAIN starts : load'[h] = current[h]
      /\ "queues" \in AllPanels \ DOMAIN starts /\ "queues" # "scopes"
  BY <1>1, PanelNames, PickersBelong, EffectsOnPanels
<1>4. selectedQueue' = selectedQueue
  <2>1. load'["queues"] = load["queues"]
    BY <1>3 DEF Takes
  <2> QED BY <2>1 DEF selectedQueue
<1>5. /\ \A h \in DOMAIN starts : Query(h)' = items[1]
      /\ \A h \in AllPanels \ DOMAIN starts : Query(h)' = Query(h)
  BY <1>1, <1>4, PickersBelong DEF Query
<1>6. "scopes" \in App \cup Under(view) /\ view \in Views
  BY <1>0, AwaitedFacts, TokenFacts
<1>7. \A h \in DOMAIN starts :
        /\ starts[h] \in Queries /\ starts[h] = Query(h)'
        /\ h \in App \cup Under(view) /\ (h \in ConfigDetails => selected' # None)
  BY <1>1, <1>2, <1>5, <1>6, PickersBelong
<1>8. EditorFollowsDraft'
  <2>1. "draft" \in AllPanels \cap DOMAIN starts
    BY <1>1, PanelNames DEF ConfigDetails
  <2>2. load'["draft"] = LoadState("loading")
    BY <2>1, EffectsOnPanels
  <2> QED BY <2>2, LoadStateFacts DEF EditorFollowsDraft
<1>9. /\ selected # None => selected' # None
      /\ selected' # None => view = "config"
      /\ selected' \in Range(Scopes) \cup {None} /\ editor' \in Editors
  BY <1>0, <1>2, <1>6, FormsFacts, PickersBelong
<1>10. i[1] # "click" /\ (i[1] = "queues" => items \in {<<>>, Queues})
  OBVIOUS
<1> QED BY <1>1, <1>5, <1>7, <1>8, <1>9, <1>10, ResolvedSound

\* Any other answer starts nothing.
LEMMA PlainResolved ==
    ASSUME IInv, NEW i \in DOMAIN net, i[1] # "click", ~net[i].cancelled,
           NEW at \in net[i].sent .. Now, NEW items, NEW current, NEW rest, NEW starts,
           Takes(i[1], items, Query(i[1]), at, current), Drops(i, rest),
           i[1] = "queues" => items = <<>>,
           starts = Starting({}), Effects(current, rest, starts, {}),
           i[1] = "draft" => items \in Seq(Item), i[1] = "schema" => items \in Seq(JsonValues),
           editor' = CASE i[1] = "draft" -> FillEditor(items)
                       [] i[1] = "schema" -> FillSchema(items)
                       [] OTHER -> editor,
           UNCHANGED <<selected, feedback, secret>>,
           UNCHANGED <<token, tokenReady, view, server, clicks, mounted>>, faults' \in 0 .. MaxFaults
    PROVE  IInv'
<1>0. TypeOK /\ PanelsBelong /\ EditorFollowsDraft
  BY DEF IInv
<1>1. DOMAIN starts = {} /\ DOMAIN starts \subseteq AllPanels
  BY StartingFacts
<1>2. \A h \in AllPanels : load'[h] = current[h]
  <2>1. \A h \in AllPanels \ DOMAIN starts : load'[h] = current[h]
    BY EffectsOnPanels
  <2> QED BY <1>1, <2>1
<1>3. i[1] \in AllPanels /\ load[i[1]].status = "loading"
  BY AwaitedFacts
<1>4. selectedQueue' = selectedQueue
  <2>1. CASE i[1] = "queues"
    <3>1. load'["queues"].data.items = <<>>
      BY <1>2, <1>3, <2>1 DEF Takes
    <3> QED BY <1>3, <2>1, <3>1 DEF selectedQueue
  <2>2. CASE i[1] # "queues"
    <3>1. load'["queues"] = load["queues"]
      BY <1>2, <2>2, PanelNames DEF Takes
    <3> QED BY <3>1 DEF selectedQueue
  <2> QED BY <2>1, <2>2
<1>5. \A h \in AllPanels \ DOMAIN starts : Query(h)' = Query(h)
  BY <1>4 DEF Query
<1>6. EditorFollowsDraft' /\ editor' \in Editors
  <2>1. "draft" \in AllPanels
    BY PanelNames
  <2>2. CASE i[1] = "draft"
    <3>1. editor' = FillEditor(items) /\ load'["draft"].data.items = items
      BY <1>2, <2>1, <2>2 DEF Takes
    <3>2. editor' \in Editors
      BY <1>0, <2>2, <3>1, FillType
    <3>3. IF items = <<>> THEN editor'.key = "" /\ editor'.text = Text(EmptyObject)
          ELSE editor'.key = First(items).key /\ editor'.text = Text(First(items).value)
      BY <1>0, <3>1, FillFields
    <3> QED BY <3>1, <3>2, <3>3 DEF EditorFollowsDraft
  <2>3. CASE i[1] # "draft"
    <3>1. load'["draft"] = load["draft"]
      BY <1>2, <2>1, <2>3 DEF Takes
    <3>2. editor' \in Editors /\ editor'.key = editor.key /\ editor'.text = editor.text
          /\ (editor'.edited <=> editor.edited)
      <4>1. CASE i[1] = "schema"
        <5>1. editor' = FillSchema(items)
          BY <4>1
        <5> QED BY <1>0, <4>1, <5>1, FillType, FillFields
      <4>2. CASE i[1] # "schema"
        BY <1>0, <2>3, <4>2, FormsFacts
      <4> QED BY <4>1, <4>2
    <3> QED BY <1>0, <3>1, <3>2 DEF EditorFollowsDraft
  <2> QED BY <2>2, <2>3
<1>7. /\ selected # None => selected' # None
      /\ selected' # None => view = "config"
      /\ selected' \in Range(Scopes) \cup {None}
  BY <1>0, FormsFacts DEF PanelsBelong
<1>8. \A h \in DOMAIN starts :
        /\ starts[h] \in Queries /\ starts[h] = Query(h)'
        /\ h \in App \cup Under(view) /\ (h \in ConfigDetails => selected' # None)
  BY <1>1
<1>9. i[1] = "queues" => items \in {<<>>, Queues}
  OBVIOUS
<1> QED BY <1>1, <1>5, <1>6, <1>7, <1>8, <1>9, ResolvedSound

LEMMA ResolvedStep ==
    ASSUME IInv, NEW i \in DOMAIN net, i[1] # "click", ~net[i].cancelled,
           NEW at \in net[i].sent .. Now, Resolved(i[1], net[i].about[1], at, Rest(i)),
           UNCHANGED <<feedback, secret>>,
           UNCHANGED <<token, tokenReady, view, server, clicks, mounted>>, faults' \in 0 .. MaxFaults
    PROVE  IInv'
<1>0. TypeOK
  BY DEF IInv
<1>1. PICK p, q, rest : p = i[1] /\ q = net[i].about[1] /\ rest = Rest(i)
  OBVIOUS
<1>2. /\ p \in AllPanels /\ q = Query(p) /\ (p \in ConfigDetails => selected # None)
      /\ net[i].sent \in 1 .. Now
  BY <1>1, AwaitedFacts
<1>3. PICK items : items = Contents(server[at], p, q)
  OBVIOUS
<1>4. PICK current : current = [load EXCEPT ![p].status = "ready", ![p].data = Page(items, q, at)]
  OBVIOUS
<1>5. PICK starts : starts = CASE p = "queues" /\ items # <<>> -> [h \in {"messages", "dlq"} |-> items[1]]
                               [] p = "scopes" /\ items # <<>> -> [h \in ConfigDetails |-> items[1]]
                               [] OTHER -> Starting({})
  OBVIOUS
<1>6. /\ selected' = IF p = "scopes" /\ items # <<>> THEN items[1] ELSE selected
      /\ editor' = CASE p = "draft" -> FillEditor(items)
                     [] p = "schema" -> FillSchema(items)
                     [] OTHER -> editor
      /\ Effects(current, rest, starts, {})
  BY <1>1, <1>3, <1>4, <1>5 DEF Resolved
<1>7. Takes(p, items, Query(p), at, current)
  BY <1>0, <1>2, <1>4, ResolvedCurrent
<1>8. Drops(i, rest)
  BY <1>1 DEF Drops, Rest
<1>9. /\ (p = "scopes" => items \in {<<>>, Scopes}) /\ (p = "queues" => items \in {<<>>, Queues})
      /\ (p = "draft" => items \in Seq(Item)) /\ (p = "schema" => items \in Seq(JsonValues))
  <2>1. server[at] \in ServerState
    <3>1. PICK m, n : m = net[i].sent /\ n = Now
      OBVIOUS
    <3>2. m \in 1 .. n /\ n \in Nat /\ at \in m .. n
      BY <1>0, <1>2, <3>1, ServerFacts
    <3>3. at \in 1 .. n
      BY <3>2
    <3> QED BY <1>0, <3>1, <3>3, FormsFacts DEF Now
  <2>2. p \in {"draft", "schema"} => q \in Range(Scopes)
    BY <1>0, <1>2, FormsFacts DEF ConfigDetails, Query
  <2> QED BY <1>3, <2>1, <2>2, ContentsType
<1>10. CASE p = "queues" /\ items # <<>>
  <2>1. /\ starts = [h \in {"messages", "dlq"} |-> items[1]] /\ items = Queues
        /\ UNCHANGED <<selected, editor>>
    BY <1>5, <1>6, <1>9, <1>10
  <2> QED BY <1>1, <1>6, <1>7, <1>8, <1>10, <2>1, QueuesResolved
<1>11. CASE p = "scopes" /\ items # <<>>
  <2>1. /\ starts = [h \in ConfigDetails |-> items[1]] /\ items = Scopes
        /\ selected' = items[1] /\ UNCHANGED editor
    BY <1>5, <1>6, <1>9, <1>11
  <2> QED BY <1>1, <1>6, <1>7, <1>8, <1>11, <2>1, ScopesResolved
<1>12. CASE ~(p = "queues" /\ items # <<>>) /\ ~(p = "scopes" /\ items # <<>>)
  <2>1. starts = Starting({}) /\ UNCHANGED selected /\ (p = "queues" => items = <<>>)
    BY <1>5, <1>6, <1>12
  <2> QED BY <1>1, <1>6, <1>7, <1>8, <1>9, <2>1, PlainResolved
<1> QED BY <1>10, <1>11, <1>12

LEMMA SettleStep ==
    ASSUME IInv, NEW i \in DOMAIN net, NEW response \in Responses, Settle(i, response) PROVE IInv'
<1>0. TypeOK
  BY DEF IInv
<1>1. faults' \in 0 .. MaxFaults
  <2>1. faults' \in {faults, faults + 1} /\ faults' <= MaxFaults
    BY DEF Settle
  <2> QED BY <1>0, <2>1, FormsFacts, BoundsAssumption
<1>2. UNCHANGED <<token, tokenReady, view, server, clicks, mounted>>
  BY DEF Settle, session
<1>3. CASE Answered(i, response)
  BY <1>1, <1>2, <1>3, AnsweredStep
<1>4. CASE Loaded(i, response)
  <2>1. i[1] # "click" /\ UNCHANGED <<feedback, secret>>
    BY <1>4 DEF Loaded
  <2>2. CASE net[i].cancelled /\ net' = Rest(i) /\ UNCHANGED <<load, selected, editor>>
    BY <1>1, <1>2, <2>1, <2>2, LoadedCancelledStep
  <2>3. CASE ~net[i].cancelled /\ \E at \in net[i].sent .. Now : Resolved(i[1], net[i].about[1], at, Rest(i))
    <3>1. PICK at \in net[i].sent .. Now : Resolved(i[1], net[i].about[1], at, Rest(i))
      BY <2>3
    <3> QED BY <1>1, <1>2, <2>1, <2>3, <3>1, ResolvedStep
  <2>4. CASE ~net[i].cancelled /\ Rejected(i[1], Rest(i))
    BY <1>1, <1>2, <2>1, <2>4, RejectedStep
  <2> QED BY <1>4, <2>2, <2>3, <2>4 DEF Loaded
<1> QED BY <1>3, <1>4 DEF Settle

-----------------------------------------------------------------------------
(* The theorems. *)

LEMMA StutteringStep == ASSUME IInv, UNCHANGED vars PROVE IInv'
<1>1. UNCHANGED <<token, tokenReady, view, load, selected, editor, feedback, secret, net, server, clicks, mounted, faults>>
  BY DEF vars, session, forms
<1>2. TypeOK'
  <2>1. Now' = Now /\ Now \in Nat /\ clicks \in Nat
    BY <1>1, ServerFacts, TypeFacts DEF IInv, Now
  <2>2. \A p \in AllPanels : PanelOK(p, load[p])'
    BY <1>1, <2>1, PanelKept DEF IInv
  <2>3. \A i \in DOMAIN net' : RequestOK(i)'
    BY <1>1, <2>1, RequestKept DEF IInv
  <2>4. TypeOK
    BY DEF IInv
  <2>5. /\ faults' \in 0 .. MaxFaults /\ selected' \in Range(Scopes) \cup {None} /\ editor' \in Editors
        /\ secret' \in Secrets /\ feedback' \in Feedbacks
        /\ load' = [p \in AllPanels |-> load'[p]] /\ net' = [i \in DOMAIN net' |-> net'[i]]
    BY <1>1, <2>4, FormsFacts
  <2> QED BY <1>1, <2>2, <2>3, <2>4, <2>5, AnswerTyped
<1>3. PanelsBelong' /\ OneEffect' /\ FreshPanels' /\ LoadsUnderWay'
  BY <1>1, PanelsKept
<1>4. ClicksSound' /\ ClickUnderWay' /\ HonestFeedback' /\ SecretIsOfTheNamed'
  BY <1>1, ClicksKept
<1>5. EditorFollowsDraft'
  BY <1>1 DEF IInv, EditorFollowsDraft
<1>6. SignedOut'
  BY <1>1 DEF IInv, SignedOut
<1> QED BY <1>2, <1>3, <1>4, <1>5, <1>6 DEF IInv

LEMMA NextIInv == IInv /\ [Next]_vars => IInv'
<1> SUFFICES ASSUME IInv, [Next]_vars PROVE IInv'
  OBVIOUS
<1>1. ASSUME NEW t \in {"blank", "wrong", "right"}, SaveToken(t) PROVE IInv'
  BY <1>1, SaveTokenStep
<1>2. ASSUME NEW v \in Views, Navigate(v) PROVE IInv'
  BY <1>2, NavigateStep
<1>3. CASE Reload
  BY <1>3, ReloadStep
<1>4. ASSUME NEW s \in Range(Scopes), SelectScope(s) PROVE IInv'
  BY <1>4, SelectScopeStep
<1>5. ASSUME NEW k \in Keys \cup {""}, TypeKey(k) PROVE IInv'
  BY <1>5, TypeKeyStep
<1>6. ASSUME NEW t \in Texts, TypeValue(t) \/ TypeSchema(t) PROVE IInv'
  BY <1>6, TypeValueStep, TypeSchemaStep
<1>7. CASE saveItem \/ saveSchema \/ removeSchema \/ publish
  BY <1>7, saveItemStep, saveSchemaStep, ScopeButtonStep
<1>8. CASE (\E m \in DeadLetters : reprocessDlq(m)) \/ purgeDlq
  BY <1>8, QueueButtonStep
<1>9. CASE \/ \E c \in Clients \cup {""} : createClient(c)
           \/ \E c \in Clients : rotateClient(c) \/ deactivateClient(c)
  BY <1>9, ClientButtonStep
<1>10. ASSUME NEW i \in DOMAIN net, Execute(i) PROVE IInv'
  BY <1>10, ExecuteStep
<1>11. ASSUME NEW i \in DOMAIN net, NEW response \in Responses, Settle(i, response) PROVE IInv'
  BY <1>11, SettleStep
<1>12. CASE UNCHANGED vars
  BY <1>12, StutteringStep
<1> QED BY <1>1, <1>2, <1>3, <1>4, <1>5, <1>6, <1>7, <1>8, <1>9, <1>10, <1>11, <1>12 DEF Next

\* The inductive invariant of the Admin UI, for any scopes, queues, items and
\* clients and any number of clicks and failures: panels, requests, editor,
\* feedback and secret stay consistent in every order of clicks and answers.
THEOREM Invariance == Spec => []IInv
<1>1. Init => IInv
  BY InitIInv
<1>2. IInv /\ [Next]_vars => IInv'
  BY NextIInv
<1> QED BY <1>1, <1>2, PTL DEF Spec

\* useAsyncData: however late the answers of earlier selections come, a panel
\* shows what is selected, as it was when it was selected or later, and only
\* under the view it belongs to.
THEOREM FreshnessCorrect == Spec => []FreshPanels
<1>1. IInv => FreshPanels
  BY DEF IInv
<1> QED BY <1>1, Invariance, PTL

\* ConfigDetails: the editor the user has not typed in holds the first live
\* item of the draft beside it, so Save writes nothing of another scope.
THEOREM EditorCorrect == Spec => []EditorFollowsDraft
<1>1. IInv => EditorFollowsDraft
  BY DEF IInv
<1> QED BY <1>1, Invariance, PTL

\* The handlers of the buttons: success is told only of a request that the
\* server executed and that this mounting of the view made.
THEOREM FeedbackCorrect == Spec => []HonestFeedback
<1>1. IInv => HonestFeedback
  BY DEF IInv
<1> QED BY <1>1, Invariance, PTL

\* ClientsView: the secret beside "Created c" or "Rotated c" was issued to c.
THEOREM SecretCorrect == Spec => []SecretIsOfTheNamed
<1>1. IInv => SecretIsOfTheNamed
  BY DEF IInv
<1> QED BY <1>1, Invariance, PTL
=============================================================================
