------------------------------ MODULE DeckProofs ------------------------------
(***************************************************************************)
(* A tab shows the request it saves to, and a request has one tab, for any *)
(* number of tabs, requests, opens and saves under way.                    *)
(***************************************************************************)
EXTENDS Deck, SequenceTheorems, TLAPS

Requests == Saved \union Ids \union {None}
Plain == Saved \ Cases
Kinds == Workbenches \union Homes \union {"__scripts"}
Tab == [id : Ids, workbenchId : Kinds, requestId : Requests]
Contents == [of : Requests, case : BOOLEAN]
Saving == [sessionId : Ids, envelope : Contents, workbenchId : Workbenches, requestId : Saved \union Ids]
Stash == [workbenchId : Workbenches \union {None}, sessionId : Nat \union {None}, envelope : Contents]
Entry == [workbenchId : Workbenches, case : BOOLEAN]
Views == [sessions : Seq(Tab), active : Tab \union {NoSession}]
Opening == [kind : {"case", "curl"}, id : Saved \union Ids, view : Views]

TabsOf(tabs) == {tabs[i] : i \in DOMAIN tabs}

(* Tabs with ids of their own, all made before `next`.                     *)
Tabs(tabs, next) ==
    /\ tabs \in Seq(Tab)
    /\ \A i \in DOMAIN tabs : tabs[i].id < next
    /\ \A i, j \in DOMAIN tabs : tabs[i].id = tabs[j].id => i = j

(* What a view calls active may be closed, but its id still means a tab of *)
(* the same workbench.                                                     *)
Known(active, tabs, next) ==
    \/ active = NoSession
    \/ /\ active \in Tab /\ active.id < next
       /\ \A tab \in TabsOf(tabs) : tab.id = active.id => tab.workbenchId = active.workbenchId

(* A saved interface or socket request is no case, unless a tab that was   *)
(* overtaken has saved one over it; a socket editor never holds a case.    *)
Honest(content, lost) == content.case /\ content.of \in Plain => content.of \in lost
NoCase(workbench, content) == workbench = "tcp" => ~content.case
Fits(workbench, content, lost) == Honest(content, lost) /\ NoCase(workbench, content)

Shows(tab, content, lost) ==
    tab.workbenchId = "http" /\ tab.requestId \notin {None, tab.id} /\ tab.id \notin lost
        => content.of = tab.requestId

Apart(a, b, lost) ==
    a.id # b.id /\ a.requestId = b.requestId /\ a.requestId \in Plain
        => {a.id, b.id, a.requestId} \intersect lost # {}

(* A save under way writes what its tab shows, to the request of the tab,  *)
(* unless the tab was overtaken or the request deleted.                    *)
Agrees(save, tab, content, lost) ==
    tab.id = save.sessionId /\ tab.id \notin lost =>
        /\ save.requestId \notin lost \union {tab.id} => tab.requestId = save.requestId
        /\ tab.requestId \notin lost \union {tab.id, None} => save.requestId = tab.requestId
        /\ tab.workbenchId = "http" /\ save.requestId # tab.id => content.of = save.requestId
Allowed(save, lost) ==
    save.envelope.case /\ save.requestId \in Plain => {save.sessionId, save.requestId} \intersect lost # {}

-------------------------------------------------------------------------------
DeckTypes ==
    /\ nextId \in Nat \ {0} /\ Tabs(sessions, nextId)
    /\ shown \in [IdsOf(sessions) -> Contents] /\ drafts \in [Workbenches -> Contents]
    /\ pending \in Stash /\ saving \subseteq Saving
    /\ DOMAIN stored \subseteq Saved \union Ids /\ \A r \in DOMAIN stored : stored[r] \in Entry
    /\ opening \in [Slots -> {None} \union Opening]

(* The listeners know every open tab; a handler that has awaited knows the *)
(* workbench of the tab it found active.                                   *)
ViewsKnown ==
    /\ listener \in Views /\ listener.sessions = sessions /\ Known(listener.active, sessions, nextId)
    /\ \A s \in Slots : opening[s] # None => Known(opening[s].view.active, sessions, nextId)

CasesKnown ==
    /\ \A r \in DOMAIN stored : Honest(Content(r, stored[r].case), overtaken)
    /\ \A s \in Slots : opening[s] # None => (opening[s].id \in Plain => opening[s].id \in overtaken)

ContentsKnown ==
    /\ \A tab \in TabsOf(sessions) : Fits(tab.workbenchId, shown[tab.id], overtaken)
    /\ \A w \in Workbenches : Fits(w, drafts[w], overtaken)
    /\ Fits(pending.workbenchId, pending.envelope, overtaken)

SavesFit ==
    \A save \in saving :
        /\ Allowed(save, overtaken) /\ save.sessionId < nextId
        /\ \A tab \in TabsOf(sessions) : Agrees(save, tab, shown[tab.id], overtaken)

TabsShow == \A tab \in TabsOf(sessions) : Shows(tab, shown[tab.id], overtaken)
TabsApart == \A a, b \in TabsOf(sessions) : Apart(a, b, overtaken)

DeckInv ==
    /\ DeckTypes /\ ViewsKnown /\ CasesKnown /\ ContentsKnown /\ SavesFit /\ TabsShow /\ TabsApart

-------------------------------------------------------------------------------
(* Lists of tabs.                                                          *)

LEMMA FunctionIsSequence ==
  ASSUME NEW S, NEW n \in Nat, NEW s \in [1 .. n -> S]
  PROVE  s \in Seq(S) /\ Len(s) = n /\ DOMAIN s = 1 .. n
<1>1. s \in Seq(S)
  BY SeqDef
<1> QED
  BY <1>1, LenProperties

LEMMA OneNone == ASSUME NEW i \in Ids PROVE i # None /\ i \notin Saved /\ i \in Nat \ {0}
  BY DeckAssumption DEF Ids

LEMMA IdsOfTabs ==
  ASSUME NEW tabs, NEW next, Tabs(tabs, next)
  PROVE  /\ \A tab \in TabsOf(tabs) : tab \in Tab /\ tab.id \in IdsOf(tabs) /\ tab.id < next /\ tab.id \in Ids
         /\ \A a, b \in TabsOf(tabs) : a.id = b.id => a = b
         /\ \A id \in IdsOf(tabs) : Get(tabs, id) \in TabsOf(tabs) /\ Get(tabs, id).id = id
         /\ \A tab \in TabsOf(tabs) : Get(tabs, tab.id) = tab
         /\ \A id \in IdsOf(tabs) : IndexOf(tabs, id) \in DOMAIN tabs /\ tabs[IndexOf(tabs, id)].id = id
<1>1. DOMAIN tabs = 1 .. Len(tabs) /\ \A i \in DOMAIN tabs : tabs[i] \in Tab
  BY LenProperties, ElementOfSeq DEF Tabs
<1>2. \A tab \in TabsOf(tabs) : tab \in Tab /\ tab.id \in IdsOf(tabs) /\ tab.id < next /\ tab.id \in Ids
  BY <1>1 DEF TabsOf, IdsOf, Tabs, Tab
<1>3. \A a, b \in TabsOf(tabs) : a.id = b.id => a = b
  BY DEF TabsOf, Tabs
<1>4. ASSUME NEW id \in IdsOf(tabs) PROVE IndexOf(tabs, id) \in DOMAIN tabs /\ tabs[IndexOf(tabs, id)].id = id
  <2>1. \E i \in DOMAIN tabs : tabs[i].id = id
    BY <1>4 DEF IdsOf
  <2> QED
    BY <2>1 DEF IndexOf
<1>5. \A id \in IdsOf(tabs) : Get(tabs, id) \in TabsOf(tabs) /\ Get(tabs, id).id = id
  BY <1>4 DEF Get, TabsOf
<1>6. \A tab \in TabsOf(tabs) : Get(tabs, tab.id) = tab
  BY <1>2, <1>3, <1>5
<1> QED
  BY <1>2, <1>3, <1>4, <1>5, <1>6

LEMMA TabsLater ==
  ASSUME NEW tabs, NEW next \in Nat, Tabs(tabs, next)
  PROVE  Tabs(tabs, next + 1)
<1>1. \A i \in DOMAIN tabs : tabs[i] \in Tab
  BY LenProperties, ElementOfSeq DEF Tabs
<1>2. \A i \in DOMAIN tabs : tabs[i].id \in Nat
  BY <1>1 DEF Tab, Ids
<1> QED
  BY <1>2 DEF Tabs

(* A tab takes the place of the tab with its id, or of a tab that goes.    *)
LEMMA ReplaceTabs ==
  ASSUME NEW tabs, NEW next \in Nat, Tabs(tabs, next), NEW id, NEW tab \in Tab, tab.id < next,
         tab.id = id \/ tab.id \notin IdsOf(tabs)
  PROVE  /\ Tabs(Replace(tabs, id, tab), next) /\ Len(Replace(tabs, id, tab)) = Len(tabs)
         /\ \A t \in TabsOf(Replace(tabs, id, tab)) :
               (t = tab /\ id \in IdsOf(tabs)) \/ (t \in TabsOf(tabs) /\ t.id # id)
         /\ id \notin IdsOf(tabs) => Replace(tabs, id, tab) = tabs
<1> DEFINE new == Replace(tabs, id, tab)
<1>1. /\ Len(tabs) \in Nat /\ DOMAIN tabs = 1 .. Len(tabs) /\ tabs \in [1 .. Len(tabs) -> Tab]
      /\ \A i \in DOMAIN tabs : tabs[i] \in Tab
  BY LenProperties, ElementOfSeq DEF Tabs
<1>2. new = [i \in DOMAIN tabs |-> IF tabs[i].id = id THEN tab ELSE tabs[i]]
  BY DEF Replace
<1>3. new \in [1 .. Len(tabs) -> Tab]
  BY <1>1, <1>2
<1>4. new \in Seq(Tab) /\ Len(new) = Len(tabs) /\ DOMAIN new = DOMAIN tabs
  BY <1>1, <1>3, FunctionIsSequence
<1>5. \A i \in DOMAIN tabs : new[i] = IF tabs[i].id = id THEN tab ELSE tabs[i]
  BY <1>2
<1>6. \A i \in DOMAIN tabs : tabs[i].id \in IdsOf(tabs)
  BY DEF IdsOf
<1> HIDE DEF new
<1>7. \A i \in DOMAIN new : new[i].id < next
  BY <1>4, <1>5 DEF Tabs
<1>8. \A i, j \in DOMAIN new : new[i].id = new[j].id => i = j
  BY <1>4, <1>5, <1>6 DEF Tabs
<1>9. \A t \in TabsOf(new) : (t = tab /\ id \in IdsOf(tabs)) \/ (t \in TabsOf(tabs) /\ t.id # id)
  BY <1>4, <1>5, <1>6 DEF TabsOf
<1>10. ASSUME id \notin IdsOf(tabs) PROVE new = tabs
  <2>1. \A i \in 1 .. Len(tabs) : new[i] = tabs[i]
    BY <1>1, <1>5, <1>6, <1>10
  <2> QED
    BY <1>1, <1>3, <2>1
<1>11. Tabs(new, next)
  BY <1>4, <1>7, <1>8 DEF Tabs
<1> QED
  BY <1>4, <1>9, <1>10, <1>11 DEF new

LEMMA AppendTabs ==
  ASSUME NEW tabs, NEW next \in Nat, Tabs(tabs, next), NEW tab \in Tab, tab.id = next
  PROVE  /\ Tabs(Append(tabs, tab), next + 1)
         /\ \A t \in TabsOf(Append(tabs, tab)) : t = tab \/ t \in TabsOf(tabs)
<1> DEFINE new == Append(tabs, tab)
<1>1. /\ Len(tabs) \in Nat /\ DOMAIN tabs = 1 .. Len(tabs)
      /\ \A i \in DOMAIN tabs : tabs[i] \in Tab
  BY LenProperties, ElementOfSeq DEF Tabs
<1>2. /\ new \in Seq(Tab) /\ Len(new) = Len(tabs) + 1
      /\ \A i \in 1 .. Len(tabs) : new[i] = tabs[i]
      /\ new[Len(tabs) + 1] = tab
  BY AppendProperties DEF Tabs
<1>3. DOMAIN new = 1 .. Len(tabs) + 1
  BY <1>2, LenProperties
<1> HIDE DEF new
<1>4. \A i \in DOMAIN tabs : tabs[i].id \in Nat /\ tabs[i].id < next
  BY <1>1 DEF Tab, Ids, Tabs
<1>5. \A i \in DOMAIN new : (i = Len(tabs) + 1 /\ new[i] = tab) \/ (i \in DOMAIN tabs /\ new[i] = tabs[i])
  BY <1>1, <1>2, <1>3
<1>6. \A i \in DOMAIN new : new[i].id < next + 1
  BY <1>4, <1>5
<1>7. \A i, j \in DOMAIN new : new[i].id = new[j].id => i = j
  BY <1>4, <1>5 DEF Tabs
<1>8. \A t \in TabsOf(new) : t = tab \/ t \in TabsOf(tabs)
  BY <1>5 DEF TabsOf
<1>9. Tabs(new, next + 1)
  BY <1>2, <1>6, <1>7 DEF Tabs
<1> QED
  BY <1>8, <1>9 DEF new

LEMMA WithoutTabs ==
  ASSUME NEW tabs, NEW next, Tabs(tabs, next), NEW id \in IdsOf(tabs)
  PROVE  Tabs(Without(tabs, id), next) /\ TabsOf(Without(tabs, id)) \subseteq TabsOf(tabs)
<1> DEFINE n == Len(tabs)
           k == IndexOf(tabs, id)
           at(i) == IF i < k THEN i ELSE i + 1
           new == Without(tabs, id)
<1>1. n \in Nat /\ DOMAIN tabs = 1 .. n /\ \A i \in DOMAIN tabs : tabs[i] \in Tab
  BY LenProperties, ElementOfSeq DEF Tabs
<1>2. k \in 1 .. n
  BY <1>1, IdsOfTabs
<1>3. new = [i \in 1 .. n - 1 |-> tabs[at(i)]] /\ n - 1 \in Nat
  BY <1>1, <1>2 DEF Without
<1>4. \A i \in 1 .. n - 1 : at(i) \in 1 .. n
  BY <1>1, <1>2
<1>5. \A i, j \in 1 .. n - 1 : at(i) = at(j) => i = j
  BY <1>1, <1>2
<1> HIDE DEF at, k, new
<1>6. new \in [1 .. n - 1 -> Tab] /\ \A i \in 1 .. n - 1 : new[i] = tabs[at(i)]
  BY <1>1, <1>3, <1>4
<1>7. new \in Seq(Tab) /\ DOMAIN new = 1 .. n - 1
  BY <1>3, <1>6, FunctionIsSequence
<1>8. \A i \in DOMAIN new : at(i) \in DOMAIN tabs /\ new[i] = tabs[at(i)]
  BY <1>1, <1>4, <1>6, <1>7
<1>9. \A i \in DOMAIN new : new[i].id < next
  BY <1>8 DEF Tabs
<1>10. \A i, j \in DOMAIN new : new[i].id = new[j].id => i = j
  BY <1>5, <1>7, <1>8 DEF Tabs
<1>11. TabsOf(new) \subseteq TabsOf(tabs)
  BY <1>8 DEF TabsOf
<1>12. Tabs(new, next)
  BY <1>7, <1>9, <1>10 DEF Tabs
<1> QED
  BY <1>11, <1>12 DEF new

LEMMA OneTab ==
  ASSUME NEW tab \in Tab, NEW next, tab.id < next
  PROVE  Tabs(<<tab>>, next) /\ TabsOf(<<tab>>) = {tab}
<1>1. <<tab>> \in Seq(Tab) /\ DOMAIN <<tab>> = {1} /\ <<tab>>[1] = tab
  OBVIOUS
<1> QED
  BY <1>1 DEF Tabs, TabsOf

LEMMA NoTabs == ASSUME NEW next PROVE Tabs(<<>>, next) /\ TabsOf(<<>>) = {}
<1>1. <<>> \in Seq(Tab) /\ DOMAIN <<>> = {}
  BY EmptySeq, LenProperties
<1> QED
  BY <1>1 DEF Tabs, TabsOf

LEMMA ForgottenTabs ==
  ASSUME NEW next, Tabs(sessions, next), NEW id
  PROVE  /\ Tabs(Forgotten(id), next)
         /\ \A t \in TabsOf(Forgotten(id)) : \E o \in TabsOf(sessions) :
               /\ t.id = o.id /\ t.workbenchId = o.workbenchId
               /\ (o.requestId = id /\ t.requestId = None) \/ (o.requestId # id /\ t = o)
<1> DEFINE forget(tab) == IF tab.requestId = id THEN [tab EXCEPT !.requestId = None] ELSE tab
           new == Forgotten(id)
<1>1. /\ Len(sessions) \in Nat /\ DOMAIN sessions = 1 .. Len(sessions)
      /\ \A i \in DOMAIN sessions : sessions[i] \in Tab
  BY LenProperties, ElementOfSeq DEF Tabs
<1>2. ASSUME NEW tab \in Tab
      PROVE  /\ forget(tab) \in Tab /\ forget(tab).id = tab.id /\ forget(tab).workbenchId = tab.workbenchId
             /\ (tab.requestId = id /\ forget(tab).requestId = None) \/ (tab.requestId # id /\ forget(tab) = tab)
  BY DEF Tab, Requests
<1>3. new = [i \in DOMAIN sessions |-> forget(sessions[i])]
  BY DEF Forgotten
<1> HIDE DEF forget, new
<1>4. new \in [1 .. Len(sessions) -> Tab]
  BY <1>1, <1>2, <1>3
<1>5. new \in Seq(Tab) /\ DOMAIN new = DOMAIN sessions /\ \A i \in DOMAIN sessions : new[i] = forget(sessions[i])
  BY <1>1, <1>3, <1>4, FunctionIsSequence
<1>6. \A i \in DOMAIN sessions : new[i].id = sessions[i].id
  BY <1>1, <1>2, <1>5
<1>7. Tabs(new, next)
  BY <1>5, <1>6 DEF Tabs
<1>8. \A t \in TabsOf(new) : \E o \in TabsOf(sessions) : t = forget(o) /\ o \in Tab
  BY <1>1, <1>5 DEF TabsOf
<1> QED
  BY <1>2, <1>7, <1>8 DEF new

-------------------------------------------------------------------------------
(* Contents.                                                               *)

LEMMA ContentFacts ==
  ASSUME NEW id \in Requests, NEW case \in BOOLEAN
  PROVE  Content(id, case) \in Contents /\ Content(id, case).of = id /\ Content(id, case).case = case
  BY DEF Content, Contents

LEMMA BlankFacts ==
  ASSUME NEW id \in Requests, NEW workbench, NEW lost
  PROVE  Blank(id) \in Contents /\ Blank(id).of = id /\ Fits(workbench, Blank(id), lost)
<1>1. Blank(id) \in Contents /\ Blank(id).of = id /\ Blank(id).case = FALSE
  BY ContentFacts DEF Blank
<1> QED
  BY <1>1 DEF Fits, Honest, NoCase

LEMMA StashFacts ==
  ASSUME NEW lost
  PROVE  NoStash \in Stash /\ Fits(NoStash.workbenchId, NoStash.envelope, lost)
<1>1. NoDraft \in Contents /\ Fits(NoStash.workbenchId, NoDraft, lost)
  BY BlankFacts DEF NoDraft, Requests
<1> HIDE DEF NoDraft
<1> QED
  BY <1>1 DEF NoStash, Stash

(* More overtaken tabs and requests only weaken what must hold of the rest. *)
LEMMA Later ==
  ASSUME NEW lost, NEW more, lost \subseteq more
  PROVE  /\ \A c : Honest(c, lost) => Honest(c, more)
         /\ \A w, c : Fits(w, c, lost) => Fits(w, c, more)
         /\ \A tab, c : Shows(tab, c, lost) => Shows(tab, c, more)
         /\ \A a, b : Apart(a, b, lost) => Apart(a, b, more)
         /\ \A save, tab, c : Agrees(save, tab, c, lost) => Agrees(save, tab, c, more)
         /\ \A save : Allowed(save, lost) => Allowed(save, more)
<1>1. \A c : Honest(c, lost) => Honest(c, more)
  BY DEF Honest
<1>2. \A w, c : Fits(w, c, lost) => Fits(w, c, more)
  BY <1>1 DEF Fits
<1>3. \A tab, c : Shows(tab, c, lost) => Shows(tab, c, more)
  BY DEF Shows
<1>4. \A a, b : Apart(a, b, lost) => Apart(a, b, more)
  BY DEF Apart
<1>5. \A save, tab, c : Agrees(save, tab, c, lost) => Agrees(save, tab, c, more)
  BY DEF Agrees
<1>6. \A save : Allowed(save, lost) => Allowed(save, more)
  BY DEF Allowed
<1> QED
  BY <1>1, <1>2, <1>3, <1>4, <1>5, <1>6

LEMMA MountedFacts ==
  ASSUME NEW lost, NEW tab \in Tab, NEW stash \in Stash, NEW drafted \in [Workbenches -> Contents],
         Fits(stash.workbenchId, stash.envelope, lost), \A w \in Workbenches : Fits(w, drafted[w], lost)
  PROVE  LET content == Mounted(tab, stash, drafted) IN
         /\ content \in Contents /\ Fits(tab.workbenchId, content, lost)
         /\ Matches(stash, tab) => content = stash.envelope
<1>1. CASE Matches(stash, tab)
  BY <1>1 DEF Mounted, Matches, Stash
<1>2. CASE ~Matches(stash, tab) /\ tab.workbenchId \in Workbenches /\ drafted[tab.workbenchId] # NoDraft
  BY <1>2 DEF Mounted
<1>3. CASE ~Matches(stash, tab) /\ ~(tab.workbenchId \in Workbenches /\ drafted[tab.workbenchId] # NoDraft)
  <2>1. tab.id \in Requests
    BY DEF Tab, Requests
  <2> QED
    BY <1>3, <2>1, BlankFacts DEF Mounted
<1> QED
  BY <1>1, <1>2, <1>3

-------------------------------------------------------------------------------
(* Views and renders.                                                      *)

(* Every tab was there before with its workbench, or has a new id.         *)
Descend(tabs, before, next) ==
    \A tab \in TabsOf(tabs) :
        \/ tab.id = next
        \/ \E o \in TabsOf(before) : o.id = tab.id /\ o.workbenchId = tab.workbenchId

LEMMA KnownLater ==
  ASSUME NEW active, NEW before, NEW next \in Nat, Known(active, before, next),
         NEW tabs, NEW later \in Nat, next <= later, Descend(tabs, before, next)
  PROVE  Known(active, tabs, later)
<1>1. CASE active = NoSession
  BY <1>1 DEF Known
<1>2. CASE active # NoSession
  <2>1. active \in Tab /\ active.id < next /\ active.id \in Nat
    BY <1>2 DEF Known, Tab, Ids
  <2>2. \A tab \in TabsOf(before) : tab.id = active.id => tab.workbenchId = active.workbenchId
    BY <1>2 DEF Known
  <2>3. ASSUME NEW tab \in TabsOf(tabs), tab.id = active.id PROVE tab.workbenchId = active.workbenchId
    BY <2>1, <2>2, <2>3 DEF Descend
  <2> QED
    BY <2>1, <2>3 DEF Known
<1> QED
  BY <1>1, <1>2

LEMMA ViewFacts ==
  ASSUME NEW tabs, NEW next, Tabs(tabs, next), NEW id
  PROVE  /\ View(tabs, id) \in Views /\ View(tabs, id).sessions = tabs
         /\ View(tabs, id).active \in TabsOf(tabs) \union {NoSession}
         /\ Known(View(tabs, id).active, tabs, next)
<1>1. ActiveSession(tabs, id) \in TabsOf(tabs) \union {NoSession}
  <2>1. CASE id \in IdsOf(tabs)
    BY <2>1, IdsOfTabs DEF ActiveSession
  <2>2. CASE id \notin IdsOf(tabs) /\ tabs # <<>>
    <3>1. 1 \in DOMAIN tabs
      BY <2>2, EmptySeq, LenProperties DEF Tabs
    <3> QED
      BY <2>2, <3>1 DEF ActiveSession, TabsOf
  <2> QED
    BY <2>1, <2>2 DEF ActiveSession
<1>2. tabs \in Seq(Tab) /\ TabsOf(tabs) \subseteq Tab
  BY IdsOfTabs DEF Tabs
<1>3. View(tabs, id) \in Views
  BY <1>1, <1>2 DEF View, Views
<1>4. Known(ActiveSession(tabs, id), tabs, next)
  BY <1>1, IdsOfTabs DEF Known
<1> QED
  BY <1>1, <1>3, <1>4 DEF View

LEMMA RenderFacts ==
  ASSUME NEW next, Tabs(sessions, next), shown \in [IdsOf(sessions) -> Contents],
         NEW tabs, NEW later, Tabs(tabs, later), NEW active, NEW lost,
         NEW held \in [IdsOf(sessions) -> Contents], NEW stash \in Stash,
         NEW drafted \in [Workbenches -> Contents],
         \A tab \in TabsOf(sessions) : Fits(tab.workbenchId, held[tab.id], lost),
         Fits(stash.workbenchId, stash.envelope, lost), \A w \in Workbenches : Fits(w, drafted[w], lost),
         NEW new, new \notin IdsOf(sessions), Descend(tabs, sessions, new),
         Render(tabs, active, held, stash, drafted)
  PROVE  /\ sessions' = tabs /\ drafts' = drafted /\ pending' \in Stash
         /\ listener' \in Views /\ listener'.sessions = tabs /\ Known(listener'.active, tabs, later)
         /\ shown' \in [IdsOf(tabs) -> Contents]
         /\ \A tab \in TabsOf(tabs) :
               /\ shown'[tab.id] =
                     IF tab.id \in IdsOf(sessions) THEN held[tab.id] ELSE Mounted(tab, stash, drafted)
               /\ Fits(tab.workbenchId, shown'[tab.id], lost)
         /\ Fits(pending'.workbenchId, pending'.envelope, lost)
<1>1. sessions' = tabs /\ drafts' = drafted /\ listener' = View(tabs, active)
  BY DEF Render
<1>2. pending' \in {NoStash, stash}
  BY DEF Render
<1>3. pending' \in Stash /\ Fits(pending'.workbenchId, pending'.envelope, lost)
  BY <1>2, StashFacts
<1>4. shown' = [id \in IdsOf(tabs) |->
                   IF id \in IdsOf(tabs) \ DOMAIN shown THEN Mounted(Get(tabs, id), stash, drafted) ELSE held[id]]
  BY DEF Render
<1>5. DOMAIN shown = IdsOf(sessions)
  OBVIOUS
<1>6. \A id \in IdsOf(tabs) :
         shown'[id] = IF id \in IdsOf(sessions) THEN held[id] ELSE Mounted(Get(tabs, id), stash, drafted)
  BY <1>4, <1>5
<1>7. \A tab \in TabsOf(tabs) : tab \in Tab /\ tab.id \in IdsOf(tabs) /\ Get(tabs, tab.id) = tab
  BY IdsOfTabs
<1>8. \A tab \in Tab : Mounted(tab, stash, drafted) \in Contents
                       /\ Fits(tab.workbenchId, Mounted(tab, stash, drafted), lost)
  BY MountedFacts
<1>9. ASSUME NEW tab \in TabsOf(tabs)
      PROVE  /\ shown'[tab.id] =
                   IF tab.id \in IdsOf(sessions) THEN held[tab.id] ELSE Mounted(tab, stash, drafted)
             /\ Fits(tab.workbenchId, shown'[tab.id], lost)
  <2>1. shown'[tab.id] = IF tab.id \in IdsOf(sessions) THEN held[tab.id] ELSE Mounted(tab, stash, drafted)
    BY <1>6, <1>7
  <2>2. CASE tab.id \in IdsOf(sessions)
    <3>1. PICK o \in TabsOf(sessions) : o.id = tab.id /\ o.workbenchId = tab.workbenchId
      BY <2>2 DEF Descend
    <3> QED
      BY <2>1, <2>2, <3>1
  <2>3. CASE tab.id \notin IdsOf(sessions)
    BY <1>7, <1>8, <2>1, <2>3
  <2> QED
    BY <2>1, <2>2, <2>3
<1>10. \A id \in IdsOf(tabs) : Get(tabs, id) \in Tab
  BY <1>7, IdsOfTabs
<1>11. \A id \in IdsOf(tabs) : shown'[id] \in Contents
  BY <1>6, <1>8, <1>10
<1>12. shown' \in [IdsOf(tabs) -> Contents]
  BY <1>4, <1>11
<1>13. listener' \in Views /\ listener'.sessions = tabs /\ Known(listener'.active, tabs, later)
  BY <1>1, ViewFacts
<1> QED
  BY <1>1, <1>3, <1>9, <1>12, <1>13

(* Opens under way stay as they are, or come to an end.                    *)
OpensSettle == opening' = opening \/ \E slot \in Slots : opening' = [opening EXCEPT ![slot] = None]

(* What a render leaves to show of the types and of what is known.         *)
LEMMA RenderKeeps ==
  ASSUME DeckInv, NEW tabs, NEW active, NEW held \in [IdsOf(sessions) -> Contents], NEW stash \in Stash,
         NEW drafted \in [Workbenches -> Contents], Render(tabs, active, held, stash, drafted),
         nextId' \in {nextId, nextId + 1}, Tabs(tabs, nextId'), Descend(tabs, sessions, nextId),
         overtaken \subseteq overtaken',
         \A tab \in TabsOf(sessions) : Fits(tab.workbenchId, held[tab.id], overtaken'),
         Fits(stash.workbenchId, stash.envelope, overtaken'),
         \A w \in Workbenches : Fits(w, drafted[w], overtaken'),
         saving' \subseteq Saving,
         DOMAIN stored' \subseteq Saved \union Ids,
         \A r \in DOMAIN stored' : stored'[r] \in Entry /\ Honest(Content(r, stored'[r].case), overtaken'),
         OpensSettle
  PROVE  /\ DeckTypes' /\ ViewsKnown' /\ CasesKnown' /\ ContentsKnown' /\ sessions' = tabs
         /\ \A tab \in TabsOf(tabs) :
               shown'[tab.id] = IF tab.id \in IdsOf(sessions) THEN held[tab.id] ELSE Mounted(tab, stash, drafted)
<1>1. /\ nextId \in Nat \ {0} /\ Tabs(sessions, nextId) /\ shown \in [IdsOf(sessions) -> Contents]
      /\ opening \in [Slots -> {None} \union Opening]
  BY DEF DeckInv, DeckTypes
<1>2. nextId' \in Nat \ {0} /\ nextId <= nextId'
  BY <1>1
<1>3. nextId \notin IdsOf(sessions)
  BY <1>1 DEF IdsOf, Tabs
<1>4. /\ sessions' = tabs /\ drafts' = drafted /\ pending' \in Stash
      /\ listener' \in Views /\ listener'.sessions = tabs /\ Known(listener'.active, tabs, nextId')
      /\ shown' \in [IdsOf(tabs) -> Contents]
      /\ \A tab \in TabsOf(tabs) :
            /\ shown'[tab.id] =
                  IF tab.id \in IdsOf(sessions) THEN held[tab.id] ELSE Mounted(tab, stash, drafted)
            /\ Fits(tab.workbenchId, shown'[tab.id], overtaken')
      /\ Fits(pending'.workbenchId, pending'.envelope, overtaken')
  BY <1>1, <1>3, RenderFacts
<1>5. /\ opening' \in [Slots -> {None} \union Opening]
      /\ \A s \in Slots : opening'[s] # None => opening'[s] = opening[s]
  BY <1>1 DEF OpensSettle
<1>6. DeckTypes'
  BY <1>2, <1>4, <1>5 DEF DeckTypes
<1>7. \A s \in Slots : opening[s] # None => Known(opening[s].view.active, tabs, nextId')
  BY <1>1, <1>2, KnownLater DEF DeckInv, ViewsKnown
<1>8. ViewsKnown'
  BY <1>4, <1>5, <1>7 DEF ViewsKnown
<1>9. CasesKnown'
  BY <1>5 DEF DeckInv, CasesKnown
<1>10. ContentsKnown'
  BY <1>4 DEF ContentsKnown
<1> QED
  BY <1>4, <1>6, <1>8, <1>9, <1>10

-------------------------------------------------------------------------------
(* What holds of the tabs that a step leaves alone, and of one it adds.    *)

(* Of a socket tab only the identity matters.                              *)
Same(tab) == tab \in TabsOf(sessions) /\ (tab.workbenchId = "http" => shown'[tab.id] = shown[tab.id])

(* A new tab that shows its request, which no other tab has.               *)
Added(tab) ==
    /\ tab.id = nextId /\ Shows(tab, shown'[tab.id], overtaken')
    /\ tab.requestId \in Plain =>
          tab.requestId \in overtaken' \/ \A o \in TabsOf(sessions) : o.requestId # tab.requestId

SaveStays(save) ==
    /\ Allowed(save, overtaken') /\ save.sessionId < nextId'
    /\ \A tab \in TabsOf(sessions') : Agrees(save, tab, shown'[tab.id], overtaken')

LEMMA SameStay ==
  ASSUME DeckInv, overtaken \subseteq overtaken', nextId <= nextId', nextId' \in Nat
  PROVE  /\ \A tab : Same(tab) => Shows(tab, shown'[tab.id], overtaken')
         /\ \A a, b : Same(a) /\ Same(b) => Apart(a, b, overtaken')
         /\ \A save \in saving : \A tab : Same(tab) => Agrees(save, tab, shown'[tab.id], overtaken')
         /\ \A save \in saving : Allowed(save, overtaken') /\ save.sessionId < nextId /\ save.sessionId < nextId'
<1>1. nextId \in Nat /\ saving \subseteq Saving
  BY DEF DeckInv, DeckTypes
<1>2. ASSUME NEW tab, Same(tab) PROVE Shows(tab, shown'[tab.id], overtaken')
  <2>1. Shows(tab, shown[tab.id], overtaken')
    BY <1>2, Later DEF Same, DeckInv, TabsShow
  <2> QED
    BY <1>2, <2>1 DEF Same, Shows
<1>3. ASSUME NEW a, NEW b, Same(a), Same(b) PROVE Apart(a, b, overtaken')
  BY <1>3, Later DEF Same, DeckInv, TabsApart
<1>4. ASSUME NEW save \in saving, NEW tab, Same(tab) PROVE Agrees(save, tab, shown'[tab.id], overtaken')
  <2>1. Agrees(save, tab, shown[tab.id], overtaken')
    BY <1>4, Later DEF Same, DeckInv, SavesFit
  <2> QED
    BY <1>4, <2>1 DEF Same, Agrees
<1>5. ASSUME NEW save \in saving
      PROVE  Allowed(save, overtaken') /\ save.sessionId < nextId /\ save.sessionId < nextId'
  <2>1. Allowed(save, overtaken) /\ save.sessionId < nextId /\ save.sessionId \in Nat
    BY <1>1 DEF DeckInv, SavesFit, Saving, Ids
  <2> QED
    BY <1>1, <2>1, Later
<1> QED
  BY <1>2, <1>3, <1>4, <1>5

LEMMA TabsStay ==
  ASSUME DeckInv, overtaken \subseteq overtaken', nextId' \in {nextId, nextId + 1},
         \A tab \in TabsOf(sessions') : Same(tab) \/ Added(tab)
  PROVE  TabsShow' /\ TabsApart' /\ \A save \in saving : SaveStays(save)
<1>1. nextId \in Nat /\ nextId <= nextId' /\ nextId' \in Nat
  BY DEF DeckInv, DeckTypes
<1>2. \A tab \in TabsOf(sessions') : Shows(tab, shown'[tab.id], overtaken')
  BY <1>1, SameStay DEF Added
<1>3. ASSUME NEW a \in TabsOf(sessions'), NEW b \in TabsOf(sessions') PROVE Apart(a, b, overtaken')
  <2>1. CASE Same(a) /\ Same(b)
    BY <1>1, <2>1, SameStay
  <2>2. CASE Same(a) /\ Added(b)
    BY <2>2 DEF Same, Added, Apart
  <2>3. CASE Added(a) /\ Same(b)
    BY <2>3 DEF Same, Added, Apart
  <2>4. CASE Added(a) /\ Added(b)
    BY <2>4 DEF Added, Apart
  <2> QED
    BY <1>3, <2>1, <2>2, <2>3, <2>4
<1>4. ASSUME NEW save \in saving PROVE SaveStays(save)
  <2>1. save.sessionId \in Nat /\ save.sessionId < nextId /\ save.sessionId < nextId' /\ Allowed(save, overtaken')
    BY <1>1, SameStay DEF DeckInv, DeckTypes, Saving, Ids
  <2>2. \A tab : Added(tab) => Agrees(save, tab, shown'[tab.id], overtaken')
    BY <1>1, <2>1 DEF Added, Agrees
  <2>3. \A tab \in TabsOf(sessions') : Agrees(save, tab, shown'[tab.id], overtaken')
    BY <1>1, <2>2, SameStay
  <2> QED
    BY <2>1, <2>3 DEF SaveStays
<1> QED
  BY <1>2, <1>3, <1>4 DEF TabsShow, TabsApart

LEMMA DeckGoal ==
  ASSUME DeckTypes', ViewsKnown', CasesKnown', ContentsKnown', TabsShow', TabsApart',
         \A save \in saving' : SaveStays(save)
  PROVE  DeckInv'
  BY DEF DeckInv, SavesFit, SaveStays

deckVars == <<sessions, listener, pending, shown, drafts, stored, opening, saving, nextId, overtaken>>

LEMMA NothingMoves == ASSUME DeckInv, UNCHANGED deckVars PROVE DeckInv'
<1>1. DeckTypes' /\ ViewsKnown' /\ CasesKnown' /\ ContentsKnown' /\ TabsShow' /\ TabsApart'
  BY DEF DeckInv, deckVars, DeckTypes, ViewsKnown, CasesKnown, ContentsKnown, TabsShow, TabsApart, IdsOf
<1>2. SavesFit'
  BY DEF DeckInv, deckVars, SavesFit
<1> QED
  BY <1>1, <1>2 DEF DeckInv

LEMMA InitKeeps == Init => DeckInv
<1> SUFFICES ASSUME Init PROVE DeckInv
  OBVIOUS
<1>1. PICK first \in Workbenches \union Homes :
         LET tabs == <<Session(1, first, None)>> IN
         /\ sessions = tabs /\ activeSessionId = 1 /\ listener = View(tabs, 1)
         /\ shown = [id \in {1} |-> Blank(1)]
  BY DEF Init
<1> DEFINE tab == Session(1, first, None)
<1>2. tab \in Tab /\ tab.id = 1 /\ tab.requestId = None
  BY DeckAssumption DEF Session, Tab, Ids, Kinds, Requests
<1> HIDE DEF tab
<1>3. sessions = <<tab>> /\ shown = [id \in {1} |-> Blank(1)] /\ listener = View(<<tab>>, 1)
  BY <1>1 DEF tab
<1>4. /\ pending = NoStash /\ drafts = [w \in Workbenches |-> NoDraft] /\ saving = {} /\ nextId = 2
      /\ stored = [r \in Saved |-> [workbenchId |-> IF r \in SocketRequests THEN "tcp" ELSE "http",
                                    case |-> r \in Cases]]
      /\ opening = [s \in Slots |-> None] /\ overtaken = {}
  BY DEF Init
<1>5. Tabs(sessions, nextId) /\ TabsOf(sessions) = {tab}
  BY <1>2, <1>3, <1>4, OneTab
<1>6. IdsOf(sessions) = {1}
  <2>1. DOMAIN <<tab>> = {1} /\ <<tab>>[1] = tab
    OBVIOUS
  <2> QED
    BY <1>2, <1>3, <2>1 DEF IdsOf
<1>7. \A id \in Requests : \A w, lost : Blank(id) \in Contents /\ Fits(w, Blank(id), lost)
  BY BlankFacts
<1>8. 1 \in Requests /\ None \in Requests
  BY DeckAssumption DEF Requests, Ids
<1>9. shown \in [IdsOf(sessions) -> Contents] /\ Fits(tab.workbenchId, shown[tab.id], overtaken)
  BY <1>2, <1>3, <1>6, <1>7, <1>8
<1>10. drafts \in [Workbenches -> Contents] /\ \A w \in Workbenches : Fits(w, drafts[w], overtaken)
  BY <1>4, <1>7, <1>8 DEF NoDraft
<1>11. \A r \in DOMAIN stored : stored[r] \in Entry /\ stored[r].case = (r \in Cases)
  BY <1>4 DEF Entry, Workbenches
<1>12. \A r \in DOMAIN stored : Honest(Content(r, stored[r].case), overtaken)
  BY <1>11 DEF Honest, Content, Plain
<1>13. opening \in [Slots -> {None} \union Opening] /\ \A s \in Slots : opening[s] = None
  BY <1>4
<1>14. DeckTypes
  BY <1>4, <1>5, <1>9, <1>10, <1>11, <1>13, StashFacts DEF DeckTypes
<1>15. ViewsKnown
  BY <1>3, <1>5, <1>13, ViewFacts DEF ViewsKnown
<1>16. CasesKnown
  BY <1>12, <1>13 DEF CasesKnown
<1>17. ContentsKnown
  BY <1>4, <1>5, <1>9, <1>10, StashFacts DEF ContentsKnown
<1>18. SavesFit
  BY <1>4 DEF SavesFit
<1>19. TabsShow
  BY <1>2, <1>5 DEF TabsShow, Shows
<1>20. TabsApart
  BY <1>2, <1>5 DEF TabsApart, Apart
<1> QED
  BY <1>14, <1>15, <1>16, <1>17, <1>18, <1>19, <1>20 DEF DeckInv

-------------------------------------------------------------------------------
(* Tabs that come without a request, and tabs that go.                     *)

LEMMA DraftsReset ==
  ASSUME DeckInv, NEW workbench \in Workbenches
  PROVE  /\ Reset(drafts, workbench) \in [Workbenches -> Contents]
         /\ \A w \in Workbenches : Fits(w, Reset(drafts, workbench)[w], overtaken)
<1>1. drafts \in [Workbenches -> Contents] /\ \A w \in Workbenches : Fits(w, drafts[w], overtaken)
  BY DEF DeckInv, DeckTypes, ContentsKnown
<1>2. NoDraft \in Contents /\ \A w : Fits(w, NoDraft, overtaken)
  BY BlankFacts DEF NoDraft, Requests
<1> HIDE DEF NoDraft
<1> QED
  BY <1>1, <1>2 DEF Reset

(* A render whose tabs are old ones, or one new without a request.         *)
LEMMA QuietRender ==
  ASSUME DeckInv, NEW tabs, NEW active, NEW drafted \in [Workbenches -> Contents],
         Render(tabs, active, shown, pending, drafted),
         \A w \in Workbenches : Fits(w, drafted[w], overtaken),
         nextId' \in {nextId, nextId + 1}, Tabs(tabs, nextId'),
         \A tab \in TabsOf(tabs) : tab \in TabsOf(sessions) \/ (tab.id = nextId /\ tab.requestId = None),
         UNCHANGED unopened
  PROVE  DeckInv'
<1>1. Descend(tabs, sessions, nextId)
  BY DEF Descend
<1>2. UNCHANGED <<stored, opening, saving, overtaken>>
  BY DEF unopened
<1>3. /\ shown \in [IdsOf(sessions) -> Contents] /\ pending \in Stash /\ saving \subseteq Saving
      /\ DOMAIN stored \subseteq Saved \union Ids /\ \A r \in DOMAIN stored : stored[r] \in Entry
      /\ \A r \in DOMAIN stored : Honest(Content(r, stored[r].case), overtaken)
      /\ \A tab \in TabsOf(sessions) : Fits(tab.workbenchId, shown[tab.id], overtaken)
      /\ Fits(pending.workbenchId, pending.envelope, overtaken)
      /\ Tabs(sessions, nextId)
  BY DEF DeckInv, DeckTypes, CasesKnown, ContentsKnown
<1>4. /\ DeckTypes' /\ ViewsKnown' /\ CasesKnown' /\ ContentsKnown' /\ sessions' = tabs
      /\ \A tab \in TabsOf(tabs) :
            shown'[tab.id] = IF tab.id \in IdsOf(sessions) THEN shown[tab.id] ELSE Mounted(tab, pending, drafted)
  BY <1>1, <1>2, <1>3, RenderKeeps DEF OpensSettle
<1>5. \A tab \in TabsOf(tabs) : Same(tab) \/ Added(tab)
  BY <1>3, <1>4, IdsOfTabs, DeckAssumption DEF Same, Added, Shows, Plain
<1>6. TabsShow' /\ TabsApart' /\ \A save \in saving : SaveStays(save)
  BY <1>2, <1>4, <1>5, TabsStay
<1> QED
  BY <1>2, <1>4, <1>6, DeckGoal

LEMMA PlacedTabs ==
  ASSUME DeckInv, nextId \in Ids, NEW view, NEW workbench \in Kinds, NEW requestId \in Requests,
         NEW tab, tab = Session(nextId, workbench, requestId)
  PROVE  /\ tab \in Tab /\ tab.id = nextId /\ tab.workbenchId = workbench /\ tab.requestId = requestId
         /\ Tabs(Placed(view, tab), nextId + 1)
         /\ \A t \in TabsOf(Placed(view, tab)) : t = tab \/ t \in TabsOf(sessions)
<1>1. tab \in Tab /\ tab.id = nextId /\ tab.workbenchId = workbench /\ tab.requestId = requestId
  BY DEF Session, Tab
<1>2. nextId \in Nat /\ Tabs(sessions, nextId) /\ Tabs(sessions, nextId + 1)
  BY TabsLater DEF DeckInv, DeckTypes
<1>3. tab.id \notin IdsOf(sessions)
  BY <1>1, <1>2 DEF IdsOf, Tabs
<1>4. /\ Tabs(Replace(sessions, view.active.id, tab), nextId + 1)
      /\ \A t \in TabsOf(Replace(sessions, view.active.id, tab)) : t = tab \/ t \in TabsOf(sessions)
  BY <1>1, <1>2, <1>3, ReplaceTabs
<1>5. /\ Tabs(Append(sessions, tab), nextId + 1)
      /\ \A t \in TabsOf(Append(sessions, tab)) : t = tab \/ t \in TabsOf(sessions)
  BY <1>1, <1>2, AppendTabs
<1>6. /\ Tabs(Placed(view, tab), nextId + 1)
      /\ \A t \in TabsOf(Placed(view, tab)) : t = tab \/ t \in TabsOf(sessions)
  BY <1>4, <1>5 DEF Placed
<1> QED
  BY <1>1, <1>6

LEMMA NextIsId == ASSUME DeckInv, nextId <= MaxIds PROVE nextId \in Ids
  BY DeckAssumption DEF DeckInv, DeckTypes, Ids

LEMMA BlankTab ==
  ASSUME DeckInv, NEW view, NEW workbench \in Workbenches, NEW drafted \in [Workbenches -> Contents],
         CreateTab(view, workbench, None, shown, pending, drafted),
         \A w \in Workbenches : Fits(w, drafted[w], overtaken), UNCHANGED unopened
  PROVE  DeckInv'
<1> DEFINE tab == Session(nextId, workbench, None)
           tabs == Placed(view, tab)
<1>1. nextId \in Ids /\ nextId' = nextId + 1 /\ Render(tabs, nextId, shown, pending, drafted)
  BY NextIsId DEF CreateTab
<1>2. /\ Tabs(tabs, nextId')
      /\ \A t \in TabsOf(tabs) : t \in TabsOf(sessions) \/ (t.id = nextId /\ t.requestId = None)
  <2>1. workbench \in Kinds /\ None \in Requests
    BY DEF Kinds, Requests
  <2> HIDE DEF tab
  <2>2. tab = Session(nextId, workbench, None)
    BY DEF tab
  <2> QED
    BY <1>1, <2>1, <2>2, PlacedTabs
<1> HIDE DEF tabs
<1> QED
  BY <1>1, <1>2, QuietRender

LEMMA DraftsKnown ==
  ASSUME DeckInv
  PROVE  drafts \in [Workbenches -> Contents] /\ \A w \in Workbenches : Fits(w, drafts[w], overtaken)
  BY DEF DeckInv, DeckTypes, ContentsKnown

LEMMA CreateWorkbenchKeeps ==
  ASSUME DeckInv, NEW view, NEW w \in Workbenches, CreateWorkbench(view, w) PROVE DeckInv'
  BY BlankTab, DraftsReset DEF CreateWorkbench

LEMMA ActivateKeeps ==
  ASSUME DeckInv, NEW view, NEW w \in Workbenches, NEW drafted \in {drafts, Reset(drafts, w)},
         Activate(view, w, drafted)
  PROVE  DeckInv'
<1>1. CASE UNCHANGED deckVars
  BY <1>1, NothingMoves
<1>2. CASE CreateTab(view, w, None, shown, pending, drafted)
  <2>1. drafted \in [Workbenches -> Contents] /\ \A v \in Workbenches : Fits(v, drafted[v], overtaken)
    BY DraftsKnown, DraftsReset
  <2> QED
    BY <1>2, <2>1, BlankTab DEF Activate
<1> QED
  BY <1>1, <1>2 DEF Activate, ActivateSession, deckVars, unopened

LEMMA OpenPageKeeps ==
  ASSUME DeckInv, NEW view, NEW page \in {"__project", "__scripts", "__new"}, OpenPage(view, page)
  PROVE  DeckInv'
<1>1. CASE UNCHANGED deckVars
  BY <1>1, NothingMoves
<1>2. CASE /\ nextId <= MaxIds /\ nextId' = nextId + 1
           /\ ShowTabs(Append(sessions, Session(nextId, page, None)), nextId)
  <2> DEFINE tab == Session(nextId, page, None)
  <2>1. nextId \in Ids /\ nextId \in Nat /\ Tabs(sessions, nextId)
    BY <1>2, NextIsId DEF DeckInv, DeckTypes
  <2>2. tab \in Tab /\ tab.id = nextId /\ tab.requestId = None
    BY <2>1 DEF Session, Tab, Kinds, Homes, Requests
  <2> HIDE DEF tab
  <2>3. /\ Tabs(Append(sessions, tab), nextId + 1)
        /\ \A t \in TabsOf(Append(sessions, tab)) : t = tab \/ t \in TabsOf(sessions)
    BY <2>1, <2>2, AppendTabs
  <2>4. Render(Append(sessions, tab), nextId, shown, pending, drafts) /\ nextId' = nextId + 1
    BY <1>2 DEF ShowTabs, tab
  <2>5. UNCHANGED unopened
    BY DEF OpenPage
  <2> QED
    BY <2>2, <2>3, <2>4, <2>5, DraftsKnown, QuietRender
<1> QED
  BY <1>1, <1>2 DEF OpenPage, ActivateSession, deckVars, unopened

LEMMA FewerTabs ==
  ASSUME DeckInv, NEW tabs, NEW active, ShowTabs(tabs, active), Tabs(tabs, nextId),
         TabsOf(tabs) \subseteq TabsOf(sessions), UNCHANGED <<unopened, nextId>>
  PROVE  DeckInv'
<1>1. Render(tabs, active, shown, pending, drafts)
  BY DEF ShowTabs
<1> QED
  BY <1>1, DraftsKnown, QuietRender

LEMMA ClosingKeeps ==
  ASSUME DeckInv, (\E id \in Ids : CloseSession(id)) \/ CloseAllSessions \/ CloseOtherSessions
  PROVE  DeckInv'
<1>1. Tabs(sessions, nextId)
  BY DEF DeckInv, DeckTypes
<1>2. ASSUME NEW id \in Ids, CloseSession(id) PROVE DeckInv'
  BY <1>1, <1>2, WithoutTabs, FewerTabs DEF CloseSession
<1>3. CASE CloseAllSessions
  BY <1>3, NoTabs, FewerTabs DEF CloseAllSessions
<1>4. CASE CloseOtherSessions
  <2>1. sessions # <<>>
    BY <1>4 DEF CloseOtherSessions
  <2>2. Current.active \in TabsOf(sessions)
    <3>1. CASE activeSessionId \in IdsOf(sessions)
      BY <1>1, <3>1, IdsOfTabs DEF Current, View, ActiveSession
    <3>2. CASE activeSessionId \notin IdsOf(sessions)
      <4>1. 1 \in DOMAIN sessions
        BY <1>1, <2>1, EmptySeq, LenProperties DEF Tabs
      <4> QED
        BY <2>1, <3>2, <4>1 DEF Current, View, ActiveSession, TabsOf
    <3> QED
      BY <3>1, <3>2
  <2>3. Tabs(<<Current.active>>, nextId) /\ TabsOf(<<Current.active>>) \subseteq TabsOf(sessions)
    BY <1>1, <2>2, IdsOfTabs, OneTab
  <2> QED
    BY <1>4, <2>3, FewerTabs DEF CloseOtherSessions
<1> QED
  BY <1>2, <1>3, <1>4

LEMMA ParentRenderKeeps == ASSUME DeckInv, ParentRender PROVE DeckInv'
<1>1. listener' = Current /\ UNCHANGED <<sessions, pending, shown, drafts, stored, opening, saving, nextId, overtaken>>
  BY DEF ParentRender, unopened
<1>2. DeckTypes' /\ CasesKnown' /\ ContentsKnown' /\ SavesFit' /\ TabsShow' /\ TabsApart'
  BY <1>1 DEF DeckInv, DeckTypes, CasesKnown, ContentsKnown, SavesFit, TabsShow, TabsApart, IdsOf
<1>3. Current \in Views /\ Current.sessions = sessions /\ Known(Current.active, sessions, nextId)
  BY ViewFacts DEF Current, DeckInv, DeckTypes
<1>4. ViewsKnown'
  BY <1>1, <1>3 DEF DeckInv, ViewsKnown
<1> QED
  BY <1>2, <1>4 DEF DeckInv

LEMMA AutosaveKeeps == ASSUME DeckInv, NEW id \in Ids, Autosave(id) PROVE DeckInv'
<1> DEFINE tab == Get(sessions, id)
<1>1. tab \in TabsOf(sessions) /\ tab.id = id /\ tab.workbenchId \in Workbenches
  BY IdsOfTabs DEF Autosave, DeckInv, DeckTypes
<1>2. /\ drafts' = [drafts EXCEPT ![tab.workbenchId] = shown[id]]
      /\ UNCHANGED <<sessions, pending, shown, stored, opening, saving, nextId, overtaken, listener>>
  BY DEF Autosave, unopened
<1> HIDE DEF tab
<1>3. shown[id] \in Contents /\ Fits(tab.workbenchId, shown[id], overtaken)
  BY <1>1, IdsOfTabs DEF DeckInv, DeckTypes, ContentsKnown
<1>4. drafts' \in [Workbenches -> Contents] /\ \A w \in Workbenches : Fits(w, drafts'[w], overtaken)
  BY <1>1, <1>2, <1>3, DraftsKnown
<1>5. DeckTypes' /\ ViewsKnown' /\ CasesKnown' /\ SavesFit' /\ TabsShow' /\ TabsApart'
  BY <1>2, <1>4 DEF DeckInv, DeckTypes, ViewsKnown, CasesKnown, SavesFit, TabsShow, TabsApart, IdsOf
<1>6. ContentsKnown'
  BY <1>2, <1>4 DEF DeckInv, ContentsKnown
<1> QED
  BY <1>5, <1>6 DEF DeckInv

-------------------------------------------------------------------------------
(* Opening a request.                                                      *)

(* What the editors hold once the socket editors have heard of the open.   *)
Heard(held) ==
    /\ held \in [IdsOf(sessions) -> Contents]
    /\ \A tab \in TabsOf(sessions) :
          /\ Fits(tab.workbenchId, held[tab.id], overtaken)
          /\ tab.workbenchId = "http" => held[tab.id] = shown[tab.id]

(* The request is complete, and no tab has it unless it is a case.         *)
Complete(id, workbench, envelope) ==
    /\ id \in Saved \union Ids /\ workbench \in Workbenches
    /\ envelope \in Contents /\ envelope.of = id /\ Fits(workbench, envelope, overtaken)
Unopened(id) ==
    id \in Plain => id \in overtaken \/ \A o \in TabsOf(sessions) : o.requestId # id

LEMMA ShownHeard == ASSUME DeckInv PROVE Heard(shown)
  BY DEF Heard, DeckInv, DeckTypes, ContentsKnown

LEMMA DeliverFacts ==
  ASSUME DeckInv, NEW held, Heard(held), NEW payload \in Stash,
         Fits(payload.workbenchId, payload.envelope, overtaken)
  PROVE  /\ Deliver(payload, held) \in [IdsOf(sessions) -> Contents]
         /\ \A tab \in TabsOf(sessions) :
               /\ Deliver(payload, held)[tab.id] =
                     IF Matches(payload, tab) THEN payload.envelope ELSE held[tab.id]
               /\ Fits(tab.workbenchId, Deliver(payload, held)[tab.id], overtaken)
<1>1. DOMAIN held = IdsOf(sessions) /\ payload.envelope \in Contents
  BY DEF Heard, Stash
<1>2. \A id \in IdsOf(sessions) :
         Deliver(payload, held)[id] = IF Matches(payload, Get(sessions, id)) THEN payload.envelope ELSE held[id]
  BY <1>1 DEF Deliver
<1>3. Deliver(payload, held) \in [IdsOf(sessions) -> Contents]
  BY <1>1 DEF Deliver, Heard
<1>4. \A tab \in TabsOf(sessions) : tab.id \in IdsOf(sessions) /\ Get(sessions, tab.id) = tab
  BY IdsOfTabs DEF DeckInv, DeckTypes
<1>5. \A tab \in TabsOf(sessions) :
         Deliver(payload, held)[tab.id] = IF Matches(payload, tab) THEN payload.envelope ELSE held[tab.id]
  BY <1>2, <1>4
<1>6. \A tab \in TabsOf(sessions) : Fits(tab.workbenchId, Deliver(payload, held)[tab.id], overtaken)
  BY <1>5 DEF Heard, Matches
<1> QED
  BY <1>3, <1>5, <1>6

LEMMA OpenFinds ==
  ASSUME DeckInv, NEW held, Heard(held), shown' = held,
         UNCHANGED <<sessions, listener, pending, drafts, stored, saving, nextId, overtaken>>,
         OpensSettle
  PROVE  DeckInv'
<1>1. nextId \in Nat /\ nextId' = nextId /\ overtaken' = overtaken /\ sessions' = sessions
  BY DEF DeckInv, DeckTypes
<1>2. /\ opening' \in [Slots -> {None} \union Opening]
      /\ \A s \in Slots : opening'[s] # None => opening'[s] = opening[s]
  BY DEF DeckInv, DeckTypes, OpensSettle
<1>3. DeckTypes'
  BY <1>2 DEF DeckInv, DeckTypes, Heard, IdsOf
<1>4. ViewsKnown' /\ CasesKnown'
  BY <1>2 DEF DeckInv, ViewsKnown, CasesKnown
<1>5. ContentsKnown'
  BY DEF DeckInv, ContentsKnown, Heard
<1>6. \A tab \in TabsOf(sessions') : Same(tab)
  BY <1>1 DEF Same, Heard
<1>7. TabsShow' /\ TabsApart' /\ \A save \in saving : SaveStays(save)
  BY <1>1, <1>6, TabsStay
<1> QED
  BY <1>3, <1>4, <1>5, <1>7, DeckGoal

LEMMA AlignedFacts ==
  ASSUME NEW tab \in Tab, NEW envelope \in Contents, NEW differs,
         NEW save \in Aligned(tab, envelope, differs)
  PROVE  /\ save \in Saving /\ save.sessionId = tab.id /\ save.envelope = envelope
         /\ save.requestId = Identity(tab)
<1>1. /\ save = [sessionId |-> tab.id, envelope |-> envelope, workbenchId |-> "http",
                 requestId |-> IF tab.requestId = None THEN tab.id ELSE tab.requestId]
  BY DEF Aligned
<1> QED
  BY <1>1 DEF Saving, Tab, Requests, Workbenches, Identity

(* The tab that is restored holds the request; of the saves it has under   *)
(* way those of other requests make it overtaken.                          *)
LEMMA OpenRestores ==
  ASSUME DeckInv, NEW id, NEW workbench, NEW envelope, Complete(id, workbench, envelope), Unopened(id),
         NEW held, Heard(held), NEW focus,
         NEW restored \in Tab, restored.id < nextId, restored.workbenchId = workbench,
         restored.requestId = id,
         \A tab \in TabsOf(sessions) : tab.id = restored.id => tab.workbenchId = workbench,
         NEW payload \in Stash, payload.workbenchId = workbench, payload.envelope = envelope,
         payload.sessionId = IF workbench = "http" THEN restored.id ELSE None,
         NEW tabs, tabs = Replace(sessions, restored.id, restored),
         Render(tabs, focus, Deliver(payload, held), payload, drafts),
         saving \subseteq saving', saving' \subseteq Saving,
         \A save \in saving' \ saving : save.sessionId = restored.id /\ save.envelope = envelope,
         overtaken \subseteq overtaken',
         \A save \in saving' :
            save.sessionId = restored.id => save.requestId = id \/ restored.id \in overtaken',
         nextId' = nextId, stored' = stored,
         OpensSettle
  PROVE  DeckInv'
<1>1. /\ nextId \in Nat /\ Tabs(sessions, nextId)
      /\ DOMAIN stored \subseteq Saved \union Ids
      /\ \A r \in DOMAIN stored : stored[r] \in Entry /\ Honest(Content(r, stored[r].case), overtaken)
  BY DEF DeckInv, DeckTypes, CasesKnown
<1>5. restored.id \in Ids /\ restored.id # None
  BY OneNone DEF Tab
<1>7. /\ Tabs(tabs, nextId)
      /\ \A tab \in TabsOf(tabs) :
            \/ tab = restored /\ restored.id \in IdsOf(sessions)
            \/ tab \in TabsOf(sessions) /\ tab.id # restored.id
  BY <1>1, ReplaceTabs
<1>8. \A tab \in TabsOf(sessions) : tab \in Tab /\ tab.id \in IdsOf(sessions)
  BY <1>1, IdsOfTabs
<1>9. \A i \in IdsOf(sessions) : Get(sessions, i) \in TabsOf(sessions) /\ Get(sessions, i).id = i
  BY <1>1, IdsOfTabs
<1>10. Descend(tabs, sessions, nextId)
  BY <1>7, <1>9 DEF Descend
<1>15. /\ Deliver(payload, held) \in [IdsOf(sessions) -> Contents]
       /\ \A tab \in TabsOf(sessions) :
             /\ Deliver(payload, held)[tab.id] = IF Matches(payload, tab) THEN envelope ELSE held[tab.id]
             /\ Fits(tab.workbenchId, Deliver(payload, held)[tab.id], overtaken)
  BY DeliverFacts DEF Complete
<1>16. \A tab \in TabsOf(sessions) : Fits(tab.workbenchId, Deliver(payload, held)[tab.id], overtaken')
  BY <1>15, Later
<1>17. Fits(payload.workbenchId, payload.envelope, overtaken')
  BY Later DEF Complete
<1>18. \A w \in Workbenches : Fits(w, drafts[w], overtaken')
  BY DraftsKnown, Later
<1>19. \A r \in DOMAIN stored : Honest(Content(r, stored[r].case), overtaken')
  BY <1>1, Later
<1>20. drafts \in [Workbenches -> Contents]
  BY DraftsKnown
<1>21. /\ Render(tabs, focus, Deliver(payload, held), payload, drafts)
       /\ nextId' \in {nextId, nextId + 1} /\ Tabs(tabs, nextId')
       /\ DOMAIN stored' \subseteq Saved \union Ids
       /\ \A r \in DOMAIN stored' : stored'[r] \in Entry /\ Honest(Content(r, stored'[r].case), overtaken')
  BY <1>1, <1>7, <1>19
<1>22. /\ DeckTypes' /\ ViewsKnown' /\ CasesKnown' /\ ContentsKnown' /\ sessions' = tabs
       /\ \A tab \in TabsOf(tabs) :
             shown'[tab.id] = IF tab.id \in IdsOf(sessions) THEN Deliver(payload, held)[tab.id]
                              ELSE Mounted(tab, payload, drafts)
  BY <1>10, <1>15, <1>16, <1>17, <1>18, <1>20, <1>21, RenderKeeps, ZenonT(60)
<1>23. ASSUME NEW tab \in TabsOf(tabs), tab # restored PROVE Same(tab)
  <2>1. tab \in TabsOf(sessions) /\ tab.id # restored.id /\ tab.id \in IdsOf(sessions)
    BY <1>7, <1>8, <1>23
  <2>2. shown'[tab.id] = IF Matches(payload, tab) THEN envelope ELSE held[tab.id]
    BY <1>15, <1>22, <2>1
  <2>3. tab.workbenchId = "http" => ~Matches(payload, tab)
    BY <1>5, <2>1 DEF Matches
  <2> QED
    BY <2>1, <2>2, <2>3 DEF Same, Heard
<1>24. ASSUME restored \in TabsOf(tabs) PROVE shown'[restored.id] = envelope
  <2>1. PICK o \in TabsOf(sessions) : o.id = restored.id /\ o.workbenchId = workbench /\ o.id \in IdsOf(sessions)
    BY <1>7, <1>8, <1>9, <1>24
  <2>2. Matches(payload, o)
    BY <2>1 DEF Matches
  <2>3. Deliver(payload, held)[restored.id] = envelope
    BY <1>15, <2>1, <2>2
  <2>4. shown'[restored.id] = Deliver(payload, held)[restored.id]
    BY <1>22, <1>24, <2>1
  <2> QED
    BY <2>3, <2>4
<1>25. restored \in TabsOf(tabs) => Shows(restored, shown'[restored.id], overtaken')
  BY <1>24 DEF Shows, Complete
<1>26. \A tab \in TabsOf(tabs) : Same(tab) => Apart(tab, restored, overtaken') /\ Apart(restored, tab, overtaken')
  BY DEF Same, Apart, Unopened
<1>27. \A save \in saving' : restored \in TabsOf(tabs) =>
           Agrees(save, restored, shown'[restored.id], overtaken')
  BY <1>24 DEF Agrees, Complete
<1>28. Apart(restored, restored, overtaken')
  BY DEF Apart
<1>29. TabsShow'
  <2>1. \A tab \in TabsOf(tabs) : Shows(tab, shown'[tab.id], overtaken')
    <3> TAKE tab \in TabsOf(tabs)
    <3>1. CASE tab = restored
      BY <1>25, <3>1
    <3>2. CASE tab # restored
      BY <1>1, <1>23, <3>2, SameStay
    <3> QED
      BY <3>1, <3>2
  <2> QED
    BY <1>22, <2>1 DEF TabsShow
<1>30. TabsApart'
  <2>1. \A a, b \in TabsOf(tabs) : Apart(a, b, overtaken')
    BY <1>1, <1>23, <1>26, <1>28, SameStay
  <2> QED
    BY <1>22, <2>1 DEF TabsApart
<1>31. ASSUME NEW save \in saving PROVE SaveStays(save)
  <2>1. Allowed(save, overtaken') /\ save.sessionId < nextId'
    BY <1>1, SameStay
  <2>2. \A tab \in TabsOf(tabs) : Agrees(save, tab, shown'[tab.id], overtaken')
    <3> TAKE tab \in TabsOf(tabs)
    <3>1. CASE tab = restored
      BY <1>27, <3>1
    <3>2. CASE tab # restored
      BY <1>1, <1>23, <3>2, SameStay
    <3> QED
      BY <3>1, <3>2
  <2> QED
    BY <1>22, <2>1, <2>2 DEF SaveStays
<1>32. ASSUME NEW save \in saving' \ saving PROVE SaveStays(save)
  <2>1. save.sessionId = restored.id /\ save.envelope = envelope
    OBVIOUS
  <2>2. Allowed(save, overtaken')
    BY <2>1 DEF Allowed, Complete, Fits, Honest
  <2>3. \A tab \in TabsOf(tabs) : tab # restored => Agrees(save, tab, shown'[tab.id], overtaken')
    BY <1>7, <2>1 DEF Agrees
  <2>4. \A tab \in TabsOf(tabs) : Agrees(save, tab, shown'[tab.id], overtaken')
    BY <1>27, <2>3
  <2> QED
    BY <1>1, <1>22, <2>1, <2>2, <2>4 DEF SaveStays
<1> QED
  BY <1>22, <1>29, <1>30, <1>31, <1>32, DeckGoal

(* A new tab takes the request from the stash.                             *)
LEMMA OpenCreates ==
  ASSUME DeckInv, NEW id, NEW workbench, NEW envelope, Complete(id, workbench, envelope), Unopened(id),
         NEW held, Heard(held), NEW focus, NEW view,
         NEW payload \in Stash, payload.workbenchId = workbench, payload.envelope = envelope,
         payload.sessionId \in {nextId, None}, workbench = "http" => payload.sessionId = nextId,
         NEW heard \in {held, Deliver(payload, held)},
         NEW drafted \in [Workbenches -> Contents], \A w \in Workbenches : Fits(w, drafted[w], overtaken),
         nextId \in Ids, nextId' = nextId + 1,
         NEW tab, tab = Session(nextId, workbench, id),
         NEW tabs, tabs = Placed(view, tab), Render(tabs, focus, heard, payload, drafted),
         saving \subseteq saving', saving' \subseteq Saving,
         \A save \in saving' \ saving :
            save.sessionId = nextId /\ save.envelope = envelope /\ save.requestId = id,
         overtaken' = overtaken, stored' = stored, OpensSettle
  PROVE  DeckInv'
<1>1. /\ nextId \in Nat /\ Tabs(sessions, nextId)
      /\ DOMAIN stored \subseteq Saved \union Ids
      /\ \A r \in DOMAIN stored : stored[r] \in Entry /\ Honest(Content(r, stored[r].case), overtaken)
  BY DEF DeckInv, DeckTypes, CasesKnown
<1>2. workbench \in Kinds /\ id \in Requests
  BY DEF Complete, Kinds, Requests
<1>3. /\ tab \in Tab /\ tab.id = nextId /\ tab.workbenchId = workbench /\ tab.requestId = id
      /\ Tabs(tabs, nextId') /\ \A t \in TabsOf(tabs) : t = tab \/ t \in TabsOf(sessions)
  BY <1>2, PlacedTabs
<1>4. \A t \in TabsOf(sessions) : t.id \in IdsOf(sessions) /\ t.id \in Nat /\ t.id < nextId
  BY <1>1, IdsOfTabs DEF Ids
<1>5. nextId \notin IdsOf(sessions) /\ nextId # None
  BY <1>1, OneNone DEF IdsOf, Tabs
<1>6. Descend(tabs, sessions, nextId)
  BY <1>3 DEF Descend
<1>7. /\ heard \in [IdsOf(sessions) -> Contents]
      /\ \A t \in TabsOf(sessions) : Fits(t.workbenchId, heard[t.id], overtaken')
  BY DeliverFacts DEF Heard, Complete
<1>8. \A t \in TabsOf(sessions) : t.workbenchId = "http" => heard[t.id] = shown[t.id]
  <2>1. \A t \in TabsOf(sessions) : t.workbenchId = "http" => ~Matches(payload, t)
    BY <1>4, <1>5 DEF Matches
  <2> QED
    BY <2>1, DeliverFacts DEF Heard, Complete
<1>9. /\ nextId' \in {nextId, nextId + 1} /\ overtaken \subseteq overtaken'
      /\ Fits(payload.workbenchId, payload.envelope, overtaken')
      /\ \A w \in Workbenches : Fits(w, drafted[w], overtaken')
      /\ DOMAIN stored' \subseteq Saved \union Ids
      /\ \A r \in DOMAIN stored' : stored'[r] \in Entry /\ Honest(Content(r, stored'[r].case), overtaken')
  BY <1>1 DEF Complete
<1>10. /\ DeckTypes' /\ ViewsKnown' /\ CasesKnown' /\ ContentsKnown' /\ sessions' = tabs
       /\ \A t \in TabsOf(tabs) :
             shown'[t.id] = IF t.id \in IdsOf(sessions) THEN heard[t.id] ELSE Mounted(t, payload, drafted)
  BY <1>3, <1>6, <1>7, <1>9, RenderKeeps, ZenonT(60)
<1>11. tab \in TabsOf(tabs) => shown'[tab.id] = envelope
  <2>1. Matches(payload, tab)
    BY <1>3 DEF Matches
  <2> QED
    BY <1>3, <1>5, <1>10, <2>1 DEF Mounted
<1>12. \A t \in TabsOf(tabs) : Same(t) \/ (t = tab /\ Added(t))
  <2> TAKE t \in TabsOf(tabs)
  <2>1. CASE t = tab
    BY <1>3, <1>11, <2>1 DEF Added, Shows, Complete, Unopened
  <2>2. CASE t # tab
    BY <1>3, <1>4, <1>8, <1>10, <2>2 DEF Same
  <2> QED
    BY <2>1, <2>2
<1>13. TabsShow' /\ TabsApart' /\ \A save \in saving : SaveStays(save)
  BY <1>9, <1>10, <1>12, TabsStay
<1>14. ASSUME NEW save \in saving' \ saving PROVE SaveStays(save)
  <2>1. save.sessionId = nextId /\ save.envelope = envelope /\ save.requestId = id
    OBVIOUS
  <2>2. Allowed(save, overtaken')
    BY <1>9, <2>1 DEF Allowed, Complete, Fits, Honest
  <2>3. ASSUME NEW t \in TabsOf(tabs) PROVE Agrees(save, t, shown'[t.id], overtaken')
    <3>1. CASE t = tab
      BY <1>3, <1>11, <2>1, <3>1 DEF Agrees, Complete
    <3>2. CASE t # tab
      BY <1>1, <1>3, <1>4, <2>1, <3>2 DEF Agrees
    <3> QED
      BY <3>1, <3>2
  <2> QED
    BY <1>1, <1>10, <2>1, <2>2, <2>3 DEF SaveStays
<1> QED
  BY <1>10, <1>13, <1>14, DeckGoal

LEMMA OpenKeeps ==
  ASSUME DeckInv, NEW view, Known(view.active, sessions, nextId), NEW id, NEW workbench, NEW envelope,
         Complete(id, workbench, envelope), id \in Plain => id \in overtaken \/ view.sessions = sessions,
         NEW held, Heard(held), NEW differs, Open(view, id, workbench, envelope, held, differs),
         stored' = stored, OpensSettle
  PROVE  DeckInv'
<1> DEFINE existing == Existing(view, id)
           blank == view.active.workbenchId = workbench /\ view.active.requestId = None
           Payload(tab) == [workbenchId |-> workbench, envelope |-> envelope,
                            sessionId |-> IF workbench = "http" THEN tab ELSE None]
<1>1. /\ nextId \in Nat /\ Tabs(sessions, nextId) /\ saving \subseteq Saving
  BY DEF DeckInv, DeckTypes
<1>2. existing = {} => Unopened(id)
  BY DEF Existing, Unopened, TabsOf
<1>3. CASE existing # {}
  <2>1. /\ shown' = held
        /\ UNCHANGED <<sessions, listener, pending, drafts, saving, nextId, overtaken>>
    BY <1>3 DEF Open
  <2> QED
    BY <2>1, OpenFinds
<1>4. CASE existing = {} /\ blank
  <2> DEFINE me == view.active.id
             restored == [view.active EXCEPT !.requestId = id]
             payload == Payload(restored.id)
             added == IF me \in IdsOf(sessions)
                      THEN Aligned(Get(sessions, restored.id), envelope, differs) ELSE {}
             lost == {w.sessionId : w \in {w \in saving' : w.sessionId = restored.id /\ w.requestId # id}}
             tabs == Replace(sessions, restored.id, restored)
  <2>1. /\ Render(tabs, activeSessionId, Deliver(payload, held), payload, drafts)
        /\ saving' = saving \union added /\ overtaken' = overtaken \union lost /\ nextId' = nextId
    BY <1>4 DEF Open
  <2>2. /\ view.active \in Tab /\ me < nextId
        /\ \A tab \in TabsOf(sessions) : tab.id = me => tab.workbenchId = workbench
    BY <1>4, DeckAssumption DEF Known, Complete, NoSession, Session
  <2>3. /\ restored \in Tab /\ restored.id = me /\ restored.workbenchId = workbench /\ restored.requestId = id
    BY <1>4, <2>2 DEF Tab, Complete, Requests
  <2>4. me \in Ids /\ me \in Nat
    BY <2>2 DEF Tab, Ids
  <2> HIDE DEF restored, me
  <2>5. /\ payload \in Stash /\ payload.workbenchId = workbench /\ payload.envelope = envelope
        /\ payload.sessionId = IF workbench = "http" THEN restored.id ELSE None
    BY <2>3, <2>4 DEF Stash, Complete
  <2> HIDE DEF payload, Payload
  <2>6. \A save \in added : save \in Saving /\ save.sessionId = restored.id /\ save.envelope = envelope
    <3>1. CASE me \in IdsOf(sessions)
      <4>1. Get(sessions, me) \in Tab /\ Get(sessions, me).id = me
        BY <1>1, <3>1, IdsOfTabs
      <4> QED
        BY <2>3, <3>1, <4>1, AlignedFacts DEF Complete
    <3> QED
      BY <3>1
  <2>7. \A save \in saving' : save.sessionId = restored.id => save.requestId = id \/ restored.id \in lost
    OBVIOUS
  <2> HIDE DEF added, lost, tabs
  <2>8. tabs = Replace(sessions, restored.id, restored)
    BY DEF tabs
  <2>9. /\ saving \subseteq saving' /\ saving' \subseteq Saving
        /\ \A save \in saving' \ saving : save.sessionId = restored.id /\ save.envelope = envelope
    BY <1>1, <2>1, <2>6
  <2>10. /\ overtaken \subseteq overtaken'
         /\ \A save \in saving' :
               save.sessionId = restored.id => save.requestId = id \/ restored.id \in overtaken'
    BY <2>1, <2>7
  <2> QED
    BY <1>2, <1>4, <2>1, <2>2, <2>3, <2>5, <2>8, <2>9, <2>10, OpenRestores
<1>5. CASE existing = {} /\ ~blank
  <2> DEFINE tab == Session(nextId, workbench, id)
             tabs == Placed(view, tab)
             payload == Payload(nextId)
             added == IF nextId \in IdsOf(sessions')
                      THEN Aligned(Get(sessions', nextId), envelope, differs) ELSE {}
  <2>1. /\ CreateTab(view, workbench, id, Deliver(payload, held), payload, drafts)
        /\ saving' = saving \union added /\ overtaken' = overtaken
    BY <1>5 DEF Open
  <2>2. /\ nextId <= MaxIds /\ nextId' = nextId + 1
        /\ Render(tabs, nextId, Deliver(payload, held), payload, drafts)
    BY <2>1 DEF CreateTab
  <2>3. nextId \in Ids
    BY <2>2, NextIsId
  <2>4. /\ payload \in Stash /\ payload.workbenchId = workbench /\ payload.envelope = envelope
        /\ payload.sessionId = IF workbench = "http" THEN nextId ELSE None
    BY <1>1 DEF Stash, Complete
  <2> HIDE DEF payload, Payload
  <2>5. /\ tab \in Tab /\ tab.id = nextId /\ tab.requestId = id
        /\ Tabs(tabs, nextId') /\ \A t \in TabsOf(tabs) : t = tab \/ t \in TabsOf(sessions)
    <3>1. workbench \in Kinds /\ id \in Requests
      BY DEF Complete, Kinds, Requests
    <3> HIDE DEF tab
    <3>2. tab = Session(nextId, workbench, id)
      BY DEF tab
    <3> QED
      BY <2>2, <2>3, <3>1, <3>2, PlacedTabs
  <2>6. sessions' = tabs
    BY <2>2 DEF Render
  <2> HIDE DEF tab, tabs
  <2>7. \A save \in added :
           /\ save \in Saving /\ save.sessionId = nextId /\ save.envelope = envelope /\ save.requestId = id
    <3>1. CASE nextId \in IdsOf(sessions')
      <4>1. Get(tabs, nextId) \in TabsOf(tabs) /\ Get(tabs, nextId).id = nextId
        BY <2>5, <2>6, <3>1, IdsOfTabs
      <4>2. \A t \in TabsOf(sessions) : t.id # nextId
        BY <1>1, IdsOfTabs DEF Ids
      <4>3. Get(sessions', nextId) = tab
        BY <2>5, <2>6, <4>1, <4>2
      <4>4. id # None
        BY DeckAssumption DEF Complete
      <4> QED
        BY <2>5, <3>1, <4>3, <4>4, AlignedFacts DEF Complete, Identity
    <3> QED
      BY <3>1
  <2> HIDE DEF added
  <2>8. /\ saving \subseteq saving' /\ saving' \subseteq Saving
        /\ \A save \in saving' \ saving :
              save.sessionId = nextId /\ save.envelope = envelope /\ save.requestId = id
    BY <1>1, <2>1, <2>7
  <2>9. tab = Session(nextId, workbench, id) /\ tabs = Placed(view, tab)
    BY DEF tab, tabs
  <2> QED
    BY <1>2, <1>5, <2>1, <2>2, <2>3, <2>4, <2>8, <2>9, DraftsKnown, OpenCreates
<1> QED
  BY <1>3, <1>4, <1>5

LEMMA OpenRequestKeeps == ASSUME DeckInv, NEW id, OpenRequest(id) PROVE DeckInv'
<1> DEFINE workbench == stored[id].workbenchId
           heard == [workbenchId |-> workbench, sessionId |-> None, envelope |-> Blank(id)]
           held == IF workbench = "tcp" THEN Deliver(heard, shown) ELSE shown
<1>1. id \in DOMAIN stored /\ ~stored[id].case
      /\ Open(listener, id, workbench, Blank(id), held, FALSE) /\ stored' = stored /\ opening' = opening
  BY DEF OpenRequest
<1>2. id \in Saved \union Ids /\ workbench \in Workbenches
  BY <1>1 DEF DeckInv, DeckTypes, Entry
<1>3. Blank(id) \in Contents /\ Blank(id).of = id /\ \A w : Fits(w, Blank(id), overtaken)
  BY <1>2, BlankFacts DEF Requests
<1>4. Complete(id, workbench, Blank(id))
  BY <1>2, <1>3 DEF Complete
<1>5. Heard(shown)
  BY ShownHeard
<1>6. heard \in Stash /\ heard.workbenchId = workbench /\ heard.envelope = Blank(id)
  BY <1>2, <1>3 DEF Stash
<1> HIDE DEF workbench, heard
<1>7. ASSUME workbench = "tcp" PROVE Heard(Deliver(heard, shown))
  <2>1. /\ Deliver(heard, shown) \in [IdsOf(sessions) -> Contents]
        /\ \A tab \in TabsOf(sessions) :
              /\ Deliver(heard, shown)[tab.id] = IF Matches(heard, tab) THEN heard.envelope ELSE shown[tab.id]
              /\ Fits(tab.workbenchId, Deliver(heard, shown)[tab.id], overtaken)
    BY <1>3, <1>5, <1>6, DeliverFacts
  <2>2. \A tab \in TabsOf(sessions) : tab.workbenchId = "http" => ~Matches(heard, tab)
    BY <1>6, <1>7 DEF Matches
  <2> QED
    BY <1>7, <2>1, <2>2 DEF Heard
<1>8. Heard(held)
  BY <1>5, <1>7
<1> HIDE DEF held
<1>9. Known(listener.active, sessions, nextId) /\ listener.sessions = sessions
  BY DEF DeckInv, ViewsKnown
<1>10. OpensSettle
  BY <1>1 DEF OpensSettle
<1> QED
  BY <1>1, <1>4, <1>8, <1>9, <1>10, OpenKeeps

(* A step that only starts an open keeps the rest.                         *)
LEMMA OpeningStarts ==
  ASSUME DeckInv, NEW slot \in Slots, NEW o \in Opening, opening' = [opening EXCEPT ![slot] = o],
         UNCHANGED <<sessions, listener, pending, shown, drafts, saving, overtaken>>,
         nextId' \in {nextId, nextId + 1}, Known(o.view.active, sessions, nextId),
         o.id \in Plain => o.id \in overtaken,
         DOMAIN stored' \subseteq Saved \union Ids,
         \A r \in DOMAIN stored' : stored'[r] \in Entry /\ Honest(Content(r, stored'[r].case), overtaken)
  PROVE  DeckInv'
<1>1. nextId \in Nat \ {0} /\ Tabs(sessions, nextId) /\ opening \in [Slots -> {None} \union Opening]
  BY DEF DeckInv, DeckTypes
<1>2. nextId' \in Nat \ {0} /\ nextId <= nextId' /\ Tabs(sessions, nextId')
  BY <1>1, TabsLater
<1>3. /\ opening' \in [Slots -> {None} \union Opening]
      /\ \A s \in Slots : opening'[s] = IF s = slot THEN o ELSE opening[s]
  BY <1>1
<1>4. Descend(sessions, sessions, nextId)
  BY DEF Descend
<1>5. \A active : Known(active, sessions, nextId) => Known(active, sessions, nextId')
  BY <1>1, <1>2, <1>4, KnownLater
<1>6. DeckTypes'
  BY <1>2, <1>3 DEF DeckInv, DeckTypes, IdsOf
<1>7. ViewsKnown'
  BY <1>3, <1>5 DEF DeckInv, ViewsKnown
<1>8. CasesKnown'
  BY <1>3 DEF DeckInv, CasesKnown
<1>9. ContentsKnown' /\ TabsShow' /\ TabsApart'
  BY DEF DeckInv, ContentsKnown, TabsShow, TabsApart
<1>10. \A tab \in TabsOf(sessions') : Same(tab)
  BY DEF Same
<1>11. \A save \in saving' : SaveStays(save)
  BY <1>10, TabsStay
<1> QED
  BY <1>6, <1>7, <1>8, <1>9, <1>11, DeckGoal

LEMMA StoredFacts ==
  ASSUME DeckInv, NEW id \in Saved \union Ids, NEW entry \in Entry, NEW lost, overtaken \subseteq lost,
         Honest(Content(id, entry.case), lost)
  PROVE  /\ DOMAIN Stored(id, entry) \subseteq Saved \union Ids
         /\ \A r \in DOMAIN Stored(id, entry) :
               Stored(id, entry)[r] \in Entry /\ Honest(Content(r, Stored(id, entry)[r].case), lost)
<1>1. /\ DOMAIN Stored(id, entry) = DOMAIN stored \union {id}
      /\ \A r \in DOMAIN stored \union {id} : Stored(id, entry)[r] = IF r = id THEN entry ELSE stored[r]
  BY DEF Stored
<1>2. /\ DOMAIN stored \subseteq Saved \union Ids
      /\ \A r \in DOMAIN stored : stored[r] \in Entry /\ Honest(Content(r, stored[r].case), lost)
  BY Later DEF DeckInv, DeckTypes, CasesKnown
<1> QED
  BY <1>1, <1>2

LEMMA OpenCaseKeeps == ASSUME DeckInv, NEW slot \in Slots, NEW id, OpenCase(slot, id) PROVE DeckInv'
<1> DEFINE o == [kind |-> "case", id |-> id, view |-> listener]
<1>1. /\ id \in DOMAIN stored /\ stored[id].case /\ opening' = [opening EXCEPT ![slot] = o]
      /\ UNCHANGED <<sessions, listener, pending, shown, drafts, stored, saving, nextId, overtaken>>
  BY DEF OpenCase
<1>2. id \in Saved \union Ids /\ listener \in Views /\ Known(listener.active, sessions, nextId)
  BY <1>1 DEF DeckInv, DeckTypes, ViewsKnown
<1>3. o \in Opening /\ o.id = id /\ o.view = listener
  BY <1>2 DEF Opening
<1>4. Honest(Content(id, stored[id].case), overtaken)
  BY <1>1 DEF DeckInv, CasesKnown
<1>5. id \in Plain => id \in overtaken
  BY <1>1, <1>4 DEF Honest, Content
<1>6. /\ DOMAIN stored \subseteq Saved \union Ids
      /\ \A r \in DOMAIN stored : stored[r] \in Entry /\ Honest(Content(r, stored[r].case), overtaken)
  BY DEF DeckInv, DeckTypes, CasesKnown
<1> HIDE DEF o
<1> QED
  BY <1>1, <1>2, <1>3, <1>5, <1>6, OpeningStarts

LEMMA CurlSavedKeeps == ASSUME DeckInv, NEW slot \in Slots, CurlSaved(slot) PROVE DeckInv'
<1> DEFINE o == [kind |-> "curl", id |-> nextId, view |-> Current]
           entry == [workbenchId |-> "http", case |-> FALSE]
<1>1. /\ nextId <= MaxIds /\ nextId' = nextId + 1 /\ opening' = [opening EXCEPT ![slot] = o]
      /\ stored' = Stored(nextId, entry)
      /\ UNCHANGED <<sessions, listener, pending, shown, drafts, saving, overtaken>>
  BY DEF CurlSaved
<1>2. nextId \in Ids
  BY <1>1, NextIsId
<1>3. Current \in Views /\ Known(Current.active, sessions, nextId)
  BY ViewFacts DEF Current, DeckInv, DeckTypes
<1>4. o \in Opening /\ o.id = nextId /\ o.view = Current
  BY <1>2, <1>3 DEF Opening
<1>5. nextId \notin Plain
  BY <1>2, OneNone DEF Plain
<1>6. entry \in Entry /\ Honest(Content(nextId, entry.case), overtaken)
  BY DEF Entry, Workbenches, Honest, Content
<1> HIDE DEF o, entry
<1>7. /\ DOMAIN stored' \subseteq Saved \union Ids
      /\ \A r \in DOMAIN stored' : stored'[r] \in Entry /\ Honest(Content(r, stored'[r].case), overtaken)
  BY <1>1, <1>2, <1>6, StoredFacts
<1> QED
  BY <1>1, <1>3, <1>4, <1>5, <1>7, OpeningStarts

LEMMA OpeningFacts ==
  ASSUME DeckInv, NEW slot \in Slots, opening[slot] # None
  PROVE  /\ opening[slot] \in Opening /\ opening[slot].id \in Saved \union Ids
         /\ Known(opening[slot].view.active, sessions, nextId)
         /\ opening[slot].id \in Plain => opening[slot].id \in overtaken
<1>1. opening[slot] \in Opening
  BY DEF DeckInv, DeckTypes
<1> QED
  BY <1>1 DEF Opening, DeckInv, ViewsKnown, CasesKnown

LEMMA CaseLoadedKeeps ==
  ASSUME DeckInv, NEW slot \in Slots, NEW differs, CaseLoaded(slot, differs) PROVE DeckInv'
<1> DEFINE o == opening[slot]
<1>1. /\ o # None /\ Open(o.view, o.id, "http", Content(o.id, TRUE), shown, differs)
      /\ opening' = [opening EXCEPT ![slot] = None] /\ stored' = stored
  BY DEF CaseLoaded
<1>2. /\ o.id \in Saved \union Ids /\ Known(o.view.active, sessions, nextId)
      /\ o.id \in Plain => o.id \in overtaken
  BY <1>1, OpeningFacts
<1> HIDE DEF o
<1>3. Content(o.id, TRUE) \in Contents /\ Content(o.id, TRUE).of = o.id
  BY <1>2, ContentFacts DEF Requests
<1>4. Fits("http", Content(o.id, TRUE), overtaken)
  BY <1>2, <1>3 DEF Fits, Honest, NoCase
<1>5. Complete(o.id, "http", Content(o.id, TRUE))
  BY <1>2, <1>3, <1>4 DEF Complete, Workbenches
<1>6. OpensSettle
  BY <1>1 DEF OpensSettle
<1> QED
  BY <1>1, <1>2, <1>5, <1>6, ShownHeard, OpenKeeps

LEMMA CurlOpenedKeeps == ASSUME DeckInv, NEW slot \in Slots, CurlOpened(slot) PROVE DeckInv'
<1> DEFINE o == opening[slot]
           payload == [workbenchId |-> "http", sessionId |-> nextId, envelope |-> Blank(o.id)]
           tab == Session(nextId, "http", o.id)
           tabs == Placed(o.view, tab)
           drafted == Reset(drafts, "http")
<1>1. /\ o # None /\ CreateTab(o.view, "http", o.id, shown, payload, drafted)
      /\ opening' = [opening EXCEPT ![slot] = None]
      /\ stored' = stored /\ saving' = saving /\ overtaken' = overtaken
  BY DEF CurlOpened
<1>2. nextId <= MaxIds /\ nextId' = nextId + 1 /\ Render(tabs, nextId, shown, payload, drafted)
  BY <1>1 DEF CreateTab
<1>3. nextId \in Ids /\ nextId \in Nat
  BY <1>2, NextIsId DEF Ids
<1>4. o.id \in Saved \union Ids /\ (o.id \in Plain => o.id \in overtaken)
  BY <1>1, OpeningFacts
<1>5. Blank(o.id) \in Contents /\ Blank(o.id).of = o.id /\ Fits("http", Blank(o.id), overtaken)
  BY <1>4, BlankFacts DEF Requests
<1>6. Complete(o.id, "http", Blank(o.id)) /\ Unopened(o.id)
  BY <1>4, <1>5 DEF Complete, Workbenches, Unopened
<1>7. /\ payload \in Stash /\ payload.workbenchId = "http" /\ payload.envelope = Blank(o.id)
      /\ payload.sessionId = nextId
  BY <1>3, <1>5 DEF Stash, Workbenches
<1>8. "http" \in Workbenches
  BY DEF Workbenches
<1>9. drafted \in [Workbenches -> Contents] /\ \A w \in Workbenches : Fits(w, drafted[w], overtaken)
  BY <1>8, DraftsReset
<1>10. OpensSettle
  BY <1>1 DEF OpensSettle
<1>11. saving \subseteq saving' /\ saving' \subseteq Saving /\ saving' \ saving = {}
  BY <1>1 DEF DeckInv, DeckTypes
<1> HIDE DEF payload, tab, tabs, drafted
<1>12. tab = Session(nextId, "http", o.id) /\ tabs = Placed(o.view, tab)
  BY DEF tab, tabs
<1> HIDE DEF o
<1> QED
  BY <1>1, <1>2, <1>3, <1>6, <1>7, <1>9, <1>10, <1>11, <1>12, ShownHeard, OpenCreates

-------------------------------------------------------------------------------
(* Saving.                                                                 *)

LEMMA SaveKeeps == ASSUME DeckInv, NEW id \in Ids, Save(id) PROVE DeckInv'
<1> DEFINE tab == Get(sessions, id)
           new == [sessionId |-> id, envelope |-> shown[id], workbenchId |-> tab.workbenchId,
                   requestId |-> Identity(tab)]
<1>1. /\ id \in IdsOf(sessions) /\ tab.workbenchId \in Workbenches /\ saving' = saving \union {new}
      /\ UNCHANGED <<sessions, listener, pending, shown, drafts, stored, opening, nextId, overtaken>>
  BY DEF Save
<1>2. /\ Tabs(sessions, nextId) /\ saving \subseteq Saving /\ nextId \in Nat
      /\ shown \in [IdsOf(sessions) -> Contents]
  BY DEF DeckInv, DeckTypes
<1>3. /\ tab \in TabsOf(sessions) /\ tab.id = id /\ tab \in Tab /\ id < nextId
      /\ \A t \in TabsOf(sessions) : t.id = id => t = tab
  BY <1>1, <1>2, IdsOfTabs
<1>4. shown[id] \in Contents /\ Fits(tab.workbenchId, shown[id], overtaken) /\ Shows(tab, shown[id], overtaken)
  BY <1>1, <1>2, <1>3 DEF DeckInv, ContentsKnown, TabsShow
<1>5. Identity(tab) = (IF tab.requestId = None THEN id ELSE tab.requestId) /\ Identity(tab) \in Saved \union Ids
  BY <1>3 DEF Identity, Tab, Requests
<1>6. /\ new \in Saving /\ new.sessionId = id /\ new.envelope = shown[id] /\ new.requestId = Identity(tab)
  BY <1>1, <1>4, <1>5 DEF Saving
<1> HIDE DEF tab, new
<1>7. DeckTypes' /\ ViewsKnown' /\ CasesKnown' /\ ContentsKnown' /\ TabsShow' /\ TabsApart'
  BY <1>1, <1>2, <1>6
  DEF DeckInv, DeckTypes, ViewsKnown, CasesKnown, ContentsKnown, TabsShow, TabsApart, IdsOf
<1>8. \A t \in TabsOf(sessions') : Same(t)
  BY <1>1 DEF Same
<1>9. \A save \in saving : SaveStays(save)
  BY <1>1, <1>8, TabsStay
<1>10. Allowed(new, overtaken)
  <2> SUFFICES ASSUME new.envelope.case, new.requestId \in Plain, id \notin overtaken
               PROVE  new.requestId \in overtaken
    BY <1>6 DEF Allowed
  <2>1. new.requestId = tab.requestId /\ tab.requestId \notin {None, id}
    BY <1>5, <1>6, OneNone DEF Plain
  <2>2. tab.workbenchId = "http"
    BY <1>1, <1>4, <1>6 DEF Fits, NoCase, Workbenches
  <2>3. shown[id].of = new.requestId
    BY <1>3, <1>4, <2>1, <2>2 DEF Shows
  <2> QED
    BY <1>4, <1>6, <2>3 DEF Fits, Honest
<1>11. Agrees(new, tab, shown[id], overtaken)
  BY <1>3, <1>4, <1>5, <1>6 DEF Agrees, Shows
<1>12. SaveStays(new)
  BY <1>1, <1>3, <1>6, <1>10, <1>11 DEF SaveStays, Agrees
<1> QED
  BY <1>1, <1>7, <1>9, <1>12, DeckGoal

LEMMA SaveFailedKeeps == ASSUME DeckInv, NEW save \in saving, SaveFailed(save) PROVE DeckInv'
<1>1. /\ saving' = saving \ {save}
      /\ UNCHANGED <<sessions, listener, pending, shown, drafts, stored, opening, nextId, overtaken>>
  BY DEF SaveFailed
<1>2. DeckTypes' /\ ViewsKnown' /\ CasesKnown' /\ ContentsKnown' /\ TabsShow' /\ TabsApart'
  BY <1>1 DEF DeckInv, DeckTypes, ViewsKnown, CasesKnown, ContentsKnown, TabsShow, TabsApart, IdsOf
<1>3. SavesFit'
  BY <1>1 DEF DeckInv, SavesFit
<1> QED
  BY <1>2, <1>3 DEF DeckInv

(* The tab of a save takes the identity back that the save has written.    *)
LEMMA SaveDoneKeeps == ASSUME DeckInv, NEW save \in saving, SaveDone(save) PROVE DeckInv'
<1> DEFINE entry == [workbenchId |-> save.workbenchId, case |-> save.envelope.case]
           me == save.sessionId
           tabs == Identified(save)
<1>1. /\ saving' = saving \ {save} /\ stored' = Stored(save.requestId, entry)
      /\ overtaken' = IF me \in overtaken THEN overtaken \union {save.requestId} ELSE overtaken
      /\ ShowTabs(tabs, activeSessionId) /\ opening' = opening /\ nextId' = nextId
  BY DEF SaveDone
<1>2. /\ Tabs(sessions, nextId) /\ saving \subseteq Saving /\ nextId \in Nat
      /\ shown \in [IdsOf(sessions) -> Contents] /\ pending \in Stash
  BY DEF DeckInv, DeckTypes
<1>3. /\ save.sessionId \in Ids /\ save.envelope \in Contents /\ save.workbenchId \in Workbenches
      /\ save.requestId \in Saved \union Ids
  BY <1>2 DEF Saving
<1>4. me < nextId /\ Allowed(save, overtaken)
  BY DEF DeckInv, SavesFit
<1>5. overtaken \subseteq overtaken' /\ (me \in overtaken => save.requestId \in overtaken')
  BY <1>1
<1>6. entry \in Entry /\ entry.case = save.envelope.case
  BY <1>3 DEF Entry, Contents
<1>7. save.envelope.case /\ save.requestId \in Plain => save.requestId \in overtaken'
  BY <1>4, <1>5 DEF Allowed
<1> HIDE DEF entry, me, tabs
<1>8. Honest(Content(save.requestId, entry.case), overtaken')
  BY <1>6, <1>7 DEF Honest, Content
<1>9. /\ DOMAIN stored' \subseteq Saved \union Ids
      /\ \A r \in DOMAIN stored' : stored'[r] \in Entry /\ Honest(Content(r, stored'[r].case), overtaken')
  BY <1>1, <1>3, <1>5, <1>6, <1>8, StoredFacts
(* The tab of the save, before and after.                                  *)
<1>10. ASSUME NEW t \in TabsOf(sessions), t.id = me
       PROVE  LET new == [t EXCEPT !.requestId = save.requestId] IN
              /\ t \in Tab /\ new \in Tab /\ new.id = me /\ new.workbenchId = t.workbenchId
              /\ new.requestId = save.requestId
  <2>1. t \in Tab
    BY <1>2, IdsOfTabs
  <2> QED
    BY <1>3, <1>10, <2>1 DEF Tab, Requests
<1>11. /\ Tabs(tabs, nextId)
       /\ \A t \in TabsOf(tabs) :
             \/ t \in TabsOf(sessions) /\ t.id # me
             \/ /\ t.id = me /\ t.requestId = save.requestId
                /\ \E o \in TabsOf(sessions) : o.id = me /\ o.workbenchId = t.workbenchId
  <2>1. CASE me \in IdsOf(sessions)
    <3> DEFINE o == Get(sessions, me)
               new == [o EXCEPT !.requestId = save.requestId]
    <3>1. o \in TabsOf(sessions) /\ o.id = me
      BY <1>2, <2>1, IdsOfTabs
    <3>2. new \in Tab /\ new.id = me /\ new.workbenchId = o.workbenchId /\ new.requestId = save.requestId
      BY <1>10, <3>1
    <3>3. tabs = Replace(sessions, me, new)
      BY <2>1 DEF tabs, Identified, me
    <3> HIDE DEF o, new
    <3>4. /\ Tabs(tabs, nextId)
          /\ \A t \in TabsOf(tabs) : (t = new /\ me \in IdsOf(sessions)) \/ (t \in TabsOf(sessions) /\ t.id # me)
      BY <1>2, <1>4, <3>2, <3>3, ReplaceTabs
    <3> QED
      BY <3>1, <3>2, <3>4
  <2>2. CASE me \notin IdsOf(sessions)
    <3>1. tabs = sessions
      BY <2>2 DEF tabs, Identified, me
    <3>2. \A t \in TabsOf(sessions) : t.id \in IdsOf(sessions)
      BY <1>2, IdsOfTabs
    <3> QED
      BY <1>2, <2>2, <3>1, <3>2
  <2> QED
    BY <2>1, <2>2
<1>12. \A t \in TabsOf(tabs) : \E o \in TabsOf(sessions) : o.id = t.id /\ o.workbenchId = t.workbenchId
  BY <1>11
<1>13. \A o \in TabsOf(sessions) : o.id \in IdsOf(sessions)
  BY <1>2, IdsOfTabs
<1>14. Descend(tabs, sessions, nextId)
  BY <1>12 DEF Descend
<1>15. /\ \A t \in TabsOf(sessions) : Fits(t.workbenchId, shown[t.id], overtaken')
       /\ Fits(pending.workbenchId, pending.envelope, overtaken')
       /\ \A w \in Workbenches : Fits(w, drafts[w], overtaken')
       /\ drafts \in [Workbenches -> Contents]
  BY <1>5, Later DEF DeckInv, DeckTypes, ContentsKnown
<1>16. /\ nextId' \in {nextId, nextId + 1} /\ Tabs(tabs, nextId') /\ saving' \subseteq Saving /\ OpensSettle
       /\ Render(tabs, activeSessionId, shown, pending, drafts)
  BY <1>1, <1>2, <1>11 DEF OpensSettle, ShowTabs
<1>17. /\ DeckTypes' /\ ViewsKnown' /\ CasesKnown' /\ ContentsKnown' /\ sessions' = tabs
       /\ \A t \in TabsOf(tabs) :
             shown'[t.id] = IF t.id \in IdsOf(sessions) THEN shown[t.id] ELSE Mounted(t, pending, drafts)
  BY <1>2, <1>5, <1>9, <1>14, <1>15, <1>16, RenderKeeps, ZenonT(60)
<1>18. \A t \in TabsOf(tabs) : shown'[t.id] = shown[t.id]
  BY <1>12, <1>13, <1>17
<1>19. \A t \in TabsOf(tabs) : t.id # me => Same(t)
  BY <1>11, <1>18 DEF Same
(* What the saves of this tab agree on.                                    *)
<1>20. ASSUME NEW t \in TabsOf(tabs), t.id = me, me \notin overtaken
       PROVE  \E o \in TabsOf(sessions) :
                 /\ o.id = me /\ o.workbenchId = t.workbenchId /\ t.requestId = save.requestId
                 /\ Agrees(save, o, shown[me], overtaken)
                 /\ \A other \in saving : Agrees(other, o, shown[me], overtaken)
  BY <1>11, <1>20 DEF DeckInv, SavesFit
<1>21. \A t \in TabsOf(tabs) : t.id = me => me \in Ids /\ me # None /\ me \notin Plain
  BY <1>3, OneNone DEF me, Plain
<1>22. ASSUME NEW t \in TabsOf(tabs), t.id = me PROVE Shows(t, shown'[t.id], overtaken')
  <2>1. CASE me \in overtaken
    BY <1>5, <1>22, <2>1 DEF Shows
  <2>2. CASE me \notin overtaken
    <3>1. PICK o \in TabsOf(sessions) : o.id = me /\ o.workbenchId = t.workbenchId /\ t.requestId = save.requestId
                                        /\ Agrees(save, o, shown[me], overtaken)
      BY <1>20, <1>22, <2>2
    <3> QED
      BY <1>18, <1>22, <2>2, <3>1 DEF Shows, Agrees, me
  <2> QED
    BY <2>1, <2>2
<1>23. ASSUME NEW t \in TabsOf(tabs), t.id = me, NEW u \in TabsOf(tabs), u.id # me
       PROVE  Apart(t, u, overtaken') /\ Apart(u, t, overtaken')
  <2> SUFFICES ASSUME t.requestId = u.requestId, t.requestId \in Plain
               PROVE  {t.id, u.id, t.requestId} \intersect overtaken' # {}
    BY DEF Apart
  <2>1. CASE me \in overtaken
    BY <1>5, <1>23, <2>1
  <2>2. CASE me \notin overtaken
    <3>1. PICK o \in TabsOf(sessions) : o.id = me /\ o.workbenchId = t.workbenchId /\ t.requestId = save.requestId
                                        /\ Agrees(save, o, shown[me], overtaken)
      BY <1>20, <1>23, <2>2
    <3>2. CASE save.requestId \in overtaken
      BY <1>5, <3>1, <3>2
    <3>3. CASE save.requestId \notin overtaken
      <4>1. o.requestId = save.requestId
        BY <1>21, <1>23, <2>2, <3>1, <3>3 DEF Agrees, me
      <4>2. u \in TabsOf(sessions)
        BY <1>11, <1>23
      <4>3. Apart(o, u, overtaken)
        BY <4>2 DEF DeckInv, TabsApart
      <4> QED
        BY <1>5, <1>23, <3>1, <4>1, <4>3 DEF Apart
    <3> QED
      BY <3>2, <3>3
  <2> QED
    BY <2>1, <2>2
<1>24. nextId <= nextId' /\ nextId' \in Nat
  BY <1>1, <1>2
<1>25. TabsShow'
  <2>1. ASSUME NEW t \in TabsOf(tabs) PROVE Shows(t, shown'[t.id], overtaken')
    <3>1. CASE t.id = me
      BY <1>22, <3>1
    <3>2. CASE t.id # me
      BY <1>5, <1>19, <1>24, <3>2, SameStay
    <3> QED
      BY <3>1, <3>2
  <2> QED
    BY <1>17, <2>1 DEF TabsShow
<1>26. TabsApart'
  <2>1. ASSUME NEW a \in TabsOf(tabs), NEW b \in TabsOf(tabs) PROVE Apart(a, b, overtaken')
    <3>1. CASE a.id # me /\ b.id # me
      BY <1>5, <1>19, <1>24, <3>1, SameStay
    <3>2. CASE a.id = b.id
      BY <3>2 DEF Apart
    <3> QED
      BY <1>23, <3>1, <3>2
  <2> QED
    BY <1>17, <2>1 DEF TabsApart
<1>27. ASSUME NEW other \in saving', NEW t \in TabsOf(tabs), t.id = me
       PROVE  Agrees(other, t, shown'[t.id], overtaken')
  <2> SUFFICES ASSUME me = other.sessionId, me \notin overtaken
               PROVE  Agrees(other, t, shown[me], overtaken)
    BY <1>5, <1>18, <1>27, Later DEF Agrees
  <2>1. other \in saving
    BY <1>1
  <2>2. PICK o \in TabsOf(sessions) : /\ o.id = me /\ o.workbenchId = t.workbenchId /\ t.requestId = save.requestId
                                      /\ Agrees(save, o, shown[me], overtaken)
                                      /\ Agrees(other, o, shown[me], overtaken)
    BY <1>20, <1>27, <2>1
  <2>3. other.requestId # None /\ save.requestId # None
    BY <1>2, <1>3, <2>1, DeckAssumption DEF Saving
  <2>4. other.requestId \notin overtaken \union {me} => t.requestId = other.requestId
    BY <2>2, <2>3 DEF Agrees, me
  <2>5. t.requestId \notin overtaken \union {me, None} => other.requestId = t.requestId
    BY <2>2, <2>3 DEF Agrees, me
  <2>6. t.workbenchId = "http" /\ other.requestId # me => shown[me].of = other.requestId
    BY <2>2 DEF Agrees
  <2> QED
    BY <1>27, <2>4, <2>5, <2>6 DEF Agrees
<1>28. ASSUME NEW other \in saving' PROVE SaveStays(other)
  <2>1. other \in saving
    BY <1>1
  <2>2. Allowed(other, overtaken') /\ other.sessionId < nextId'
    BY <1>5, <1>24, <2>1, SameStay
  <2>3. ASSUME NEW t \in TabsOf(tabs) PROVE Agrees(other, t, shown'[t.id], overtaken')
    <3>1. CASE t.id = me
      BY <1>27, <3>1
    <3>2. CASE t.id # me
      BY <1>5, <1>19, <1>24, <2>1, <3>2, SameStay
    <3> QED
      BY <3>1, <3>2
  <2> QED
    BY <1>17, <2>2, <2>3 DEF SaveStays
<1> QED
  BY <1>17, <1>25, <1>26, <1>28, DeckGoal

(* The tabs forget the request; a save of it makes it an exception.        *)
LEMMA RequestDeletedKeeps == ASSUME DeckInv, NEW id, RequestDeleted(id) PROVE DeckInv'
<1> DEFINE tabs == Forgotten(id)
           lost == {w.requestId : w \in {w \in saving : w.requestId = id}}
<1>1. /\ stored' = [r \in DOMAIN stored \ {id} |-> stored[r]] /\ overtaken' = overtaken \union lost
      /\ ShowTabs(tabs, activeSessionId) /\ opening' = opening /\ saving' = saving /\ nextId' = nextId
  BY DEF RequestDeleted
<1>2. \A save \in saving : save.requestId = id => id \in lost
  OBVIOUS
<1> HIDE DEF lost
<1>3. /\ Tabs(sessions, nextId) /\ saving \subseteq Saving /\ nextId \in Nat
      /\ shown \in [IdsOf(sessions) -> Contents] /\ pending \in Stash
  BY DEF DeckInv, DeckTypes
<1>4. /\ Tabs(tabs, nextId)
      /\ \A t \in TabsOf(tabs) : \E o \in TabsOf(sessions) :
            /\ t.id = o.id /\ t.workbenchId = o.workbenchId
            /\ (o.requestId = id /\ t.requestId = None) \/ (o.requestId # id /\ t = o)
  BY <1>3, ForgottenTabs
<1> HIDE DEF tabs
<1>5. overtaken \subseteq overtaken' /\ nextId <= nextId' /\ nextId' \in Nat
  BY <1>1, <1>3
<1>6. /\ DOMAIN stored' \subseteq Saved \union Ids
      /\ \A r \in DOMAIN stored' : stored'[r] \in Entry /\ Honest(Content(r, stored'[r].case), overtaken')
  <2>1. /\ DOMAIN stored \subseteq Saved \union Ids
        /\ \A r \in DOMAIN stored : stored[r] \in Entry /\ Honest(Content(r, stored[r].case), overtaken')
    BY <1>5, Later DEF DeckInv, DeckTypes, CasesKnown
  <2> QED
    BY <1>1, <2>1
<1>7. Descend(tabs, sessions, nextId)
  BY <1>4 DEF Descend
<1>8. /\ \A t \in TabsOf(sessions) : Fits(t.workbenchId, shown[t.id], overtaken')
      /\ Fits(pending.workbenchId, pending.envelope, overtaken')
      /\ \A w \in Workbenches : Fits(w, drafts[w], overtaken')
      /\ drafts \in [Workbenches -> Contents]
  BY <1>5, Later DEF DeckInv, DeckTypes, ContentsKnown
<1>9. /\ nextId' \in {nextId, nextId + 1} /\ Tabs(tabs, nextId') /\ saving' \subseteq Saving /\ OpensSettle
      /\ Render(tabs, activeSessionId, shown, pending, drafts)
  BY <1>1, <1>3, <1>4 DEF OpensSettle, ShowTabs
<1>10. /\ DeckTypes' /\ ViewsKnown' /\ CasesKnown' /\ ContentsKnown' /\ sessions' = tabs
       /\ \A t \in TabsOf(tabs) :
             shown'[t.id] = IF t.id \in IdsOf(sessions) THEN shown[t.id] ELSE Mounted(t, pending, drafts)
  BY <1>3, <1>5, <1>6, <1>7, <1>8, <1>9, RenderKeeps, ZenonT(60)
<1>11. \A o \in TabsOf(sessions) : o.id \in IdsOf(sessions)
  BY <1>3, IdsOfTabs
<1>12. \A t \in TabsOf(tabs) : shown'[t.id] = shown[t.id]
  BY <1>4, <1>10, <1>11
<1>13. \A t \in TabsOf(tabs) :
          \/ Same(t)
          \/ t.requestId = None /\ \E o \in TabsOf(sessions) :
                t.id = o.id /\ t.workbenchId = o.workbenchId /\ o.requestId = id
  BY <1>4, <1>12 DEF Same
<1>14. ASSUME NEW t \in TabsOf(tabs) PROVE Shows(t, shown'[t.id], overtaken')
  <2>1. CASE Same(t)
    BY <1>5, <2>1, SameStay
  <2>2. CASE t.requestId = None
    BY <2>2 DEF Shows
  <2> QED
    BY <1>13, <2>1, <2>2
<1>15. ASSUME NEW a \in TabsOf(tabs), NEW b \in TabsOf(tabs) PROVE Apart(a, b, overtaken')
  <2>1. CASE Same(a) /\ Same(b)
    BY <1>5, <2>1, SameStay
  <2>2. CASE a.requestId = None \/ b.requestId = None
    BY <2>2, DeckAssumption DEF Apart, Plain
  <2> QED
    BY <1>13, <2>1, <2>2
<1>16. ASSUME NEW save \in saving, NEW t \in TabsOf(tabs) PROVE Agrees(save, t, shown'[t.id], overtaken')
  <2>1. CASE Same(t)
    BY <1>5, <2>1, SameStay
  <2>2. CASE ~Same(t)
    <3>1. PICK o \in TabsOf(sessions) :
             t.id = o.id /\ t.workbenchId = o.workbenchId /\ o.requestId = id /\ t.requestId = None
      BY <1>13, <2>2
    <3>2. Agrees(save, o, shown[o.id], overtaken')
      BY <1>5, Later DEF DeckInv, SavesFit
    <3>3. save.requestId = id => id \in overtaken'
      BY <1>1, <1>2
    <3> QED
      BY <1>12, <3>1, <3>2, <3>3 DEF Agrees
  <2> QED
    BY <2>1, <2>2
<1>17. \A save \in saving' : SaveStays(save)
  BY <1>1, <1>5, <1>10, <1>16, SameStay DEF SaveStays
<1>18. TabsShow' /\ TabsApart'
  BY <1>10, <1>14, <1>15 DEF TabsShow, TabsApart
<1> QED
  BY <1>10, <1>17, <1>18, DeckGoal

-------------------------------------------------------------------------------
LEMMA StepKeeps == DeckInv /\ [Next]_vars => DeckInv'
<1> SUFFICES ASSUME DeckInv, [Next]_vars PROVE DeckInv'
  OBVIOUS
<1>1. CASE UNCHANGED vars
  BY <1>1, NothingMoves DEF vars, deckVars
<1>2. CASE Step
  <2>1. ASSUME NEW view \in {Current, listener}, NEW w \in Workbenches,
               CreateWorkbench(view, w) \/ Activate(view, w, Reset(drafts, w))
        PROVE  DeckInv'
    BY <2>1, CreateWorkbenchKeeps, ActivateKeeps
  <2>2. ASSUME NEW w \in Workbenches, ApplyHash(w) PROVE DeckInv'
    BY <2>2, ActivateKeeps DEF ApplyHash
  <2>3. CASE OpenPage(Current, "__project") \/ OpenPage(listener, "__scripts") \/ OpenPage(listener, "__new")
    BY <2>3, OpenPageKeeps
  <2>4. ASSUME NEW id \in Ids, SwitchTab(id) PROVE DeckInv'
    BY <2>4, NothingMoves DEF SwitchTab, ActivateSession, unopened, deckVars
  <2>5. ASSUME NEW id \in Ids, CloseSession(id) \/ Autosave(id) \/ Save(id) PROVE DeckInv'
    BY <2>5, ClosingKeeps, AutosaveKeeps, SaveKeeps
  <2>6. CASE CloseAllSessions \/ CloseOtherSessions \/ ParentRender
    BY <2>6, ClosingKeeps, ParentRenderKeeps
  <2>7. ASSUME NEW id \in Saved \union Ids, OpenRequest(id) \/ RequestDeleted(id) PROVE DeckInv'
    BY <2>7, OpenRequestKeeps, RequestDeletedKeeps
  <2>8. ASSUME NEW slot \in Slots, NEW id \in Saved \union Ids, OpenCase(slot, id) PROVE DeckInv'
    BY <2>8, OpenCaseKeeps
  <2>9. ASSUME NEW slot \in Slots, NEW differs \in BOOLEAN, CaseLoaded(slot, differs) PROVE DeckInv'
    BY <2>9, CaseLoadedKeeps
  <2>10. ASSUME NEW slot \in Slots, CurlSaved(slot) \/ CurlOpened(slot) PROVE DeckInv'
    BY <2>10, CurlSavedKeeps, CurlOpenedKeeps
  <2>11. ASSUME NEW save \in saving, SaveDone(save) \/ SaveFailed(save) PROVE DeckInv'
    BY <2>11, SaveDoneKeeps, SaveFailedKeeps
  <2> QED
    BY <1>2, <2>1, <2>2, <2>3, <2>4, <2>5, <2>6, <2>7, <2>8, <2>9, <2>10, <2>11 DEF Step
<1> QED
  BY <1>1, <1>2 DEF Next

LEMMA DeckInvHolds == Spec => []DeckInv
  BY InitKeeps, StepKeeps, PTL DEF Spec

(* Types of the tabs, views, contents, opens and saves.                    *)
THEOREM DeckTypesHold == Spec => []DeckTypes
<1>1. DeckInv => DeckTypes
  BY DEF DeckInv
<1> QED
  BY <1>1, DeckInvHolds, PTL

(* However many loads and saves return late, an HTTP tab holds the content *)
(* of the request it will save to, unless a request was opened in it while *)
(* it saved another (WorkbenchDeck: openRequest, renderSession).           *)
THEOREM TabsShowTheirRequest == Spec => []TabShowsItsRequest
<1>1. DeckInv => TabShowsItsRequest
  BY DEF DeckInv, TabsShow, Shows, TabShowsItsRequest, TabsOf
<1> QED
  BY <1>1, DeckInvHolds, PTL

(* An interface or a socket request is never open in two tabs, unless one  *)
(* of them was overtaken or the request was deleted while a tab saved it.  *)
THEOREM RequestsHaveOneTab == Spec => []OneTabPerRequest
<1>1. DeckInv => OneTabPerRequest
  BY DEF DeckInv, DeckTypes, Tabs, TabsApart, Apart, OneTabPerRequest, TabsOf, Plain
<1> QED
  BY <1>1, DeckInvHolds, PTL
===============================================================================
