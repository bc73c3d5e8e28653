--------------------------- MODULE WorkbenchProofs ---------------------------
(***************************************************************************)
(* Proofs about the HTTP editor.  Of its run: its types, and that what is  *)
(* shown and what is saved as an answer is the answer to the request it is *)
(* shown or saved with, for any number of tabs, cases, sends and steps.    *)
(* Of its fields: that a kept request is opened as the form that sends it  *)
(* again, and that the rows of the query agree with the address, for       *)
(* tables of any length and any number of edits.                           *)
(***************************************************************************)
EXTENDS HttpWorkbench, RequestForm, FiniteSetTheorems, WellFoundedInduction, TLAPS

Maybe(S) == S \union {None}
Editors ==
    [form : Contents, requestId : Maybe(Requests), baseline : Maybe(Fields), armed : Contents,
     result : Maybe(Answers), lastRequest : Maybe(Contents), executionId : Maybe(Contents),
     syncCaseResponse : BOOLEAN, saveDraft : Maybe(Contents),
     caseDialog : Maybe([type : {"debug", "test"}, response : BOOLEAN])]
SavedRows ==
    [content : Contents, baseline : Maybe(Fields), response : Maybe(Contents),
     actual : Maybe(Contents)]
Calls == [kind : Kinds, id : Maybe(Requests), saved : SavedRows]

(* Every call but a replay names the request it saves.                     *)
ScreenTypes ==
    /\ editor \in [Tabs -> Editors] /\ run \in [Tabs -> Maybe(Runs)] /\ mixed \subseteq Tabs
SaveTypes ==
    /\ awaiting \in [Tabs -> SUBSET Calls]
    /\ \A t \in Tabs : \A call \in awaiting[t] : call.kind # "replay" => call.id \in Requests
    /\ DOMAIN stored \subseteq Requests /\ stored \in [DOMAIN stored -> SavedRows]
    /\ executed \subseteq Contents /\ tainted \subseteq Requests
TypeOK == ScreenTypes /\ SaveTypes

(* What is shown answers the form, a run under way was sent from it, and   *)
(* the request kept beside the response is the one that was sent for it.   *)
Belongs(editing, sending) ==
    /\ editing.result # None =>
          /\ editing.result.outcome = "saved" \/ editing.result.request.of = editing.form.of
          /\ sending # None => editing.result.request = sending.request
    /\ sending # None =>
          /\ sending.request.of = editing.form.of
          /\ sending.phase # "secret" => editing.lastRequest = sending.request
    /\ HasResponse(editing.result) => editing.lastRequest = editing.result.request

(* A response is saved with the request that was sent for it.              *)
Faithful(saved) == saved.response # None => saved.actual = saved.response

TabsBelong == \A t \in Tabs \ mixed : Belongs(editor[t], run[t])
StoredFaithful == \A r \in DOMAIN stored \ tainted : Faithful(stored[r])
CallsFaithful ==
    \A t \in Tabs : \A call \in awaiting[t] :
        IF call.kind = "replay" THEN call.saved.response = None
        ELSE call.id \in tainted \/ Faithful(call.saved)

(* AnswersBelong is not inductive: the answer of a run belongs to the form *)
(* because the run was sent from it, the answer saved to the request saved *)
(* with it because both are set together, and a save that is awaited keeps *)
(* what it began with.                                                     *)
Screen == ScreenTypes /\ TabsBelong
Saves == SaveTypes /\ StoredFaithful /\ CallsFaithful
WorkbenchInv == Screen /\ Saves

-------------------------------------------------------------------------------
(* The screen of one tab.                                                  *)
LEMMA AnswerFacts ==
  ASSUME NEW request \in Contents, NEW outcome \in {"ok", "failed", "saved"}
  PROVE  /\ Answer(request, outcome) \in Answers /\ Answer(request, outcome) # None
         /\ Answer(request, outcome).request = request
         /\ Answer(request, outcome).outcome = outcome
  BY HttpWorkbenchAssumption DEF Answer, Answers

(* A render changes nothing but the form the listener has captured.        *)
LEMMA RearmedFacts ==
  ASSUME NEW old \in Editors, NEW new \in Editors, NEW changed \in BOOLEAN
  PROVE  LET e == Rearmed(old, new, changed) IN
         /\ e \in Editors /\ e.form = new.form
         /\ e.result = new.result /\ e.lastRequest = new.lastRequest
  BY DEF Rearmed, Editors

LEMMA TabMoves ==
  ASSUME Screen, NEW t \in Tabs, NEW new \in Editors, NEW sending \in Maybe(Runs),
         editor' = [editor EXCEPT ![t] = new], run' = [run EXCEPT ![t] = sending],
         mixed' \subseteq Tabs, mixed \ {t} \subseteq mixed',
         t \notin mixed' => Belongs(new, sending)
  PROVE  Screen'
  BY DEF Screen, ScreenTypes, TabsBelong

(* A step that leaves the form's request, the result and the request that  *)
(* was sent as they are.                                                   *)
LEMMA SetKeeps ==
  ASSUME Screen, NEW t \in Tabs, NEW new \in Editors, Set(t, new), UNCHANGED <<run, mixed>>,
         new.form.of = editor[t].form.of, new.result = editor[t].result,
         new.lastRequest = editor[t].lastRequest
  PROVE  Screen'
<1> DEFINE e == Rearmed(editor[t], new, FALSE)
<1>1. editor[t] \in Editors /\ run[t] \in Maybe(Runs) /\ mixed \subseteq Tabs
  BY DEF Screen, ScreenTypes
<1>2. e \in Editors /\ e.form = new.form /\ e.result = new.result /\ e.lastRequest = new.lastRequest
  BY <1>1, RearmedFacts
<1>3. editor' = [editor EXCEPT ![t] = e]
  BY DEF Set
<1>4. run' = [run EXCEPT ![t] = run[t]]
  BY DEF Screen, ScreenTypes
<1>5. t \notin mixed => Belongs(e, run[t])
  BY <1>2 DEF Screen, TabsBelong, Belongs
<1> QED  BY <1>1, <1>2, <1>3, <1>4, <1>5, TabMoves

LEMMA SameSaves == ASSUME Saves, UNCHANGED <<awaiting, stored, executed, tainted>> PROVE Saves'
  BY DEF Saves, SaveTypes, StoredFaithful, CallsFaithful

LEMMA EditKeeps == ASSUME WorkbenchInv, NEW t \in Tabs, Edit(t) PROVE WorkbenchInv'
<1>1. editor[t] \in Editors /\ UNCHANGED <<run, mixed>> /\ Screen /\ Saves
  BY DEF Edit, EditUrl, EditFields, ToggleSync, WorkbenchInv, Screen, ScreenTypes
<1>2. UNCHANGED <<awaiting, stored, executed, tainted>>
  BY DEF Edit, EditUrl, EditFields, ToggleSync
<1>3. Saves'
  BY <1>1, <1>2, SameSaves
<1>4. CASE EditUrl(t)
  <2>1. PICK url \in Urls : Set(t, [editor[t] EXCEPT !.form.url = url])
    BY <1>4 DEF EditUrl
  <2> DEFINE new == [editor[t] EXCEPT !.form.url = url]
  <2>2. new \in Editors /\ new.form.of = editor[t].form.of /\ new.result = editor[t].result
        /\ new.lastRequest = editor[t].lastRequest
    BY <1>1 DEF Editors, Contents
  <2> QED  BY <1>1, <1>3, <2>1, <2>2, SetKeeps DEF WorkbenchInv
<1>5. CASE EditFields(t)
  <2>1. PICK field \in Fields : Set(t, [editor[t] EXCEPT !.form.fields = field])
    BY <1>5 DEF EditFields
  <2> DEFINE new == [editor[t] EXCEPT !.form.fields = field]
  <2>2. new \in Editors /\ new.form.of = editor[t].form.of /\ new.result = editor[t].result
        /\ new.lastRequest = editor[t].lastRequest
    BY <1>1 DEF Editors, Contents
  <2> QED  BY <1>1, <1>3, <2>1, <2>2, SetKeeps DEF WorkbenchInv
<1>6. CASE ToggleSync(t)
  <2> DEFINE new == [editor[t] EXCEPT !.syncCaseResponse = ~@]
  <2>1. new \in Editors /\ new.form = editor[t].form /\ new.result = editor[t].result
        /\ new.lastRequest = editor[t].lastRequest
    BY <1>1 DEF Editors
  <2>2. Set(t, new)
    BY <1>6 DEF ToggleSync
  <2> QED  BY <1>1, <1>3, <2>1, <2>2, SetKeeps DEF WorkbenchInv
<1> QED  BY <1>4, <1>5, <1>6 DEF Edit

-------------------------------------------------------------------------------
(* Sending.                                                                *)
LEMMA SendingFacts ==
  ASSUME Screen, NEW t \in Tabs, NEW request \in Contents, NEW first \in {"secret", "sent"}
  PROVE  LET s == Sending(t, request, first) IN
         /\ s.editor \in Editors /\ s.run \in Maybe(Runs)
         /\ request.of = editor[t].form.of => Belongs(s.editor, s.run)
<1> DEFINE cleared == [editor[t] EXCEPT !.result = None, !.executionId = None]
           s == Sending(t, request, first)
<1>1. editor[t] \in Editors
  BY DEF Screen, ScreenTypes
<1>2. cleared \in Editors /\ cleared.form = editor[t].form /\ cleared.result = None
  BY <1>1 DEF Editors, Maybe
<1>3. Cleared(t) \in Editors /\ Cleared(t).form = editor[t].form /\ Cleared(t).result = None
  BY <1>1, <1>2, RearmedFacts DEF Cleared
<1>4. /\ s.editor \in Editors /\ s.editor.form = editor[t].form /\ s.editor.result = None
      /\ first = "sent" => s.editor.lastRequest = request
  BY <1>3 DEF Sending, Editors, Maybe
<1>5. s.run = [request |-> request, phase |-> first, cancelled |-> FALSE]
  BY DEF Sending
<1>6. s.run \in Maybe(Runs)
  BY <1>5 DEF Runs, Maybe
<1>7. request.of = editor[t].form.of => Belongs(s.editor, s.run)
  BY <1>4, <1>5 DEF Belongs, HasResponse
<1> QED  BY <1>4, <1>6, <1>7

LEMMA SendKeeps == ASSUME WorkbenchInv, NEW t \in Tabs, ClickSend(t) PROVE WorkbenchInv'
<1> DEFINE request == editor[t].form
<1>1. Screen /\ Saves /\ Saves'
  BY SameSaves DEF WorkbenchInv, ClickSend, Send
<1>2. request \in Contents
  BY <1>1 DEF Screen, ScreenTypes, Editors
<1>3. PICK first \in {"secret", "sent"} :
        /\ editor' = [editor EXCEPT ![t] = Sending(t, request, first).editor]
        /\ run' = [run EXCEPT ![t] = Sending(t, request, first).run]
  BY DEF ClickSend, Send
<1>4. mixed' = mixed \ {t} /\ mixed \subseteq Tabs
  BY <1>1 DEF ClickSend, Send, Screen, ScreenTypes
<1> QED  BY <1>1, <1>2, <1>3, <1>4, SendingFacts, TabMoves DEF WorkbenchInv

(* One key press can start a run in every tab.                             *)
LEMMA ShortcutKeeps == ASSUME WorkbenchInv, Shortcut PROVE WorkbenchInv'
<1> DEFINE s(t) == Sending(t, editor[t].armed, "sent")
<1>1. Screen /\ Saves /\ Saves'
  BY SameSaves DEF WorkbenchInv, Shortcut
<1>2. \A t \in Tabs : editor[t] \in Editors /\ run[t] \in Maybe(Runs)
  BY <1>1 DEF Screen, ScreenTypes
<1>3. \A t \in Tabs : editor[t].armed \in Contents
  BY <1>2 DEF Editors
<1>4. /\ editor' = [t \in Tabs |-> IF t \in Pressed THEN s(t).editor ELSE editor[t]]
      /\ run' = [t \in Tabs |-> IF t \in Pressed THEN s(t).run ELSE run[t]]
      /\ mixed' = (mixed \ Pressed) \union {t \in Pressed : editor[t].armed.of # editor[t].form.of}
  BY DEF Shortcut
<1>5. \A t \in Tabs : /\ s(t).editor \in Editors /\ s(t).run \in Maybe(Runs)
                      /\ editor[t].armed.of = editor[t].form.of => Belongs(s(t).editor, s(t).run)
  BY <1>1, <1>3, SendingFacts
<1> HIDE DEF s
<1>6. ScreenTypes'
  BY <1>1, <1>2, <1>4, <1>5 DEF Screen, ScreenTypes, Pressed
<1>7. ASSUME NEW t \in Tabs \ mixed' PROVE Belongs(editor'[t], run'[t])
  <2>1. CASE t \in Pressed
    BY <1>4, <1>5, <1>7, <2>1
  <2>2. CASE t \notin Pressed
    BY <1>1, <1>4, <1>7, <2>2 DEF Screen, TabsBelong
  <2> QED  BY <2>1, <2>2
<1> QED  BY <1>1, <1>6, <1>7 DEF Screen, TabsBelong, WorkbenchInv

(* A handler that ends shows its result and forgets the run.               *)
LEMMA FinishedKeeps ==
  ASSUME Screen, NEW t \in Tabs, NEW result \in Maybe(Answers), Finished(t, result), UNCHANGED mixed,
         t \notin mixed =>
            Belongs([editor[t] EXCEPT !.result = result, !.executionId = None], None)
  PROVE  Screen'
<1> DEFINE new == [editor[t] EXCEPT !.result = result, !.executionId = None]
           e == Rearmed(editor[t], new, TRUE)
<1>1. editor[t] \in Editors /\ mixed' \subseteq Tabs
  BY DEF Screen, ScreenTypes
<1>2. new \in Editors
  BY <1>1 DEF Editors, Maybe
<1>3. e \in Editors /\ e.form = new.form /\ e.result = new.result /\ e.lastRequest = new.lastRequest
  BY <1>1, <1>2, RearmedFacts
<1>4. t \notin mixed => Belongs(e, None)
  BY <1>3 DEF Belongs
<1>5. editor' = [editor EXCEPT ![t] = e] /\ run' = [run EXCEPT ![t] = None] /\ None \in Maybe(Runs)
  BY DEF Finished, Maybe
<1> QED  BY <1>1, <1>3, <1>4, <1>5, TabMoves

LEMMA RunFacts ==
  ASSUME Screen, NEW t \in Tabs
  PROVE  /\ editor[t] \in Editors /\ mixed \subseteq Tabs /\ run = [run EXCEPT ![t] = run[t]]
         /\ loading(t) => run[t] \in Runs /\ run[t].request \in Contents /\ run[t] # None
         /\ t \notin mixed => Belongs(editor[t], run[t])
  BY DEF Screen, ScreenTypes, TabsBelong, loading, Maybe, Runs

LEMMA RunMovesKeeps ==
  ASSUME WorkbenchInv, NEW t \in Tabs, Settle(t) \/ Started(t) \/ Cancel(t) PROVE WorkbenchInv'
<1>1. Screen /\ Saves
  BY DEF WorkbenchInv
<1>2. /\ editor[t] \in Editors /\ mixed \subseteq Tabs /\ run = [run EXCEPT ![t] = run[t]]
      /\ run[t] \in Runs /\ run[t].request \in Contents /\ run[t] # None
      /\ t \notin mixed => Belongs(editor[t], run[t])
  BY <1>1, RunFacts DEF Settle, SecretStored, Answered, HistoryListed, SendFailed, Started, Cancel
<1>3. UNCHANGED mixed
  BY DEF Settle, SecretStored, Answered, HistoryListed, SendFailed, Started, Cancel
<1>4. Saves'
  <2>1. CASE Answered(t)
    BY <1>1, <1>2, <2>1 DEF Answered, Saves, SaveTypes, StoredFaithful, CallsFaithful
  <2>2. CASE ~Answered(t)
    BY <1>1, <2>2, SameSaves
    DEF Settle, SecretStored, HistoryListed, SendFailed, Started, Cancel
  <2> QED  BY <2>1, <2>2
<1>5. CASE SecretStored(t)
  <2> DEFINE new == [editor[t] EXCEPT !.lastRequest = run[t].request]
             sending == [run[t] EXCEPT !.phase = "sent"]
  <2>1. editor' = [editor EXCEPT ![t] = new] /\ run' = [run EXCEPT ![t] = sending]
    BY <1>5 DEF SecretStored
  <2>2. new \in Editors /\ sending \in Runs
    BY <1>2 DEF Editors, Runs, Maybe
  <2>3. /\ new.form = editor[t].form /\ new.result = editor[t].result
        /\ new.lastRequest = run[t].request /\ sending.request = run[t].request
    BY <1>2 DEF Editors, Runs
  <2>4. t \notin mixed => Belongs(new, sending)
    BY <1>2, <2>3 DEF Belongs, HasResponse
  <2> QED  BY <1>1, <1>2, <1>3, <1>4, <2>1, <2>2, <2>4, TabMoves DEF WorkbenchInv, Maybe
<1>6. CASE Started(t)
  <2> DEFINE new == [editor[t] EXCEPT !.executionId = run[t].request]
  <2>1. editor' = [editor EXCEPT ![t] = new] /\ run' = [run EXCEPT ![t] = run[t]]
    BY <1>2, <1>6 DEF Started
  <2>2. /\ new \in Editors /\ new.form = editor[t].form /\ new.result = editor[t].result
        /\ new.lastRequest = editor[t].lastRequest
    BY <1>2 DEF Editors, Maybe
  <2>3. t \notin mixed => Belongs(new, run[t])
    BY <1>2, <2>2 DEF Belongs
  <2> QED  BY <1>1, <1>2, <1>3, <1>4, <2>1, <2>2, <2>3, TabMoves DEF WorkbenchInv, Maybe
<1>7. CASE Cancel(t)
  <2> DEFINE sending == [run[t] EXCEPT !.cancelled = TRUE]
  <2>1. editor' = [editor EXCEPT ![t] = editor[t]] /\ run' = [run EXCEPT ![t] = sending]
    BY <1>1, <1>7 DEF Cancel, Screen, ScreenTypes
  <2>2. sending \in Runs /\ sending.request = run[t].request /\ sending.phase = run[t].phase
    BY <1>2 DEF Runs
  <2>3. sending # None
    BY <2>2, HttpWorkbenchAssumption
  <2>4. t \notin mixed => Belongs(editor[t], sending)
    BY <1>2, <2>2, <2>3 DEF Belongs
  <2> QED  BY <1>1, <1>2, <1>3, <1>4, <2>1, <2>2, <2>4, TabMoves DEF WorkbenchInv, Maybe
<1>8. CASE Answered(t)
  <2> DEFINE answer == Answer(run[t].request, "ok")
             new == [editor[t] EXCEPT !.result = answer]
             sending == [run[t] EXCEPT !.phase = "history"]
  <2>1. editor' = [editor EXCEPT ![t] = new] /\ run' = [run EXCEPT ![t] = sending]
        /\ run[t].phase = "sent"
    BY <1>8 DEF Answered
  <2>2. answer \in Answers /\ answer.request = run[t].request
    BY <1>2, AnswerFacts
  <2> HIDE DEF answer
  <2>3. /\ new \in Editors /\ sending \in Runs
        /\ new.form = editor[t].form /\ new.result = answer
        /\ new.lastRequest = editor[t].lastRequest /\ sending.request = run[t].request
    BY <1>2, <2>2 DEF Editors, Runs, Maybe
  <2>4. t \notin mixed => Belongs(new, sending)
    BY <1>2, <2>1, <2>2, <2>3 DEF Belongs, HasResponse
  <2> QED  BY <1>1, <1>2, <1>3, <1>4, <2>1, <2>3, <2>4, TabMoves DEF WorkbenchInv, Maybe
<1>9. CASE HistoryListed(t)
  <2> DEFINE new == [editor[t] EXCEPT !.result = editor[t].result, !.executionId = None]
  <2>1. /\ new.form = editor[t].form /\ new.result = editor[t].result
        /\ new.lastRequest = editor[t].lastRequest /\ editor[t].result \in Maybe(Answers)
    BY <1>2 DEF Editors
  <2>2. t \notin mixed => Belongs(new, None)
    BY <1>2, <2>1 DEF Belongs
  <2> QED  BY <1>1, <1>3, <1>4, <1>9, <2>1, <2>2, FinishedKeeps DEF HistoryListed, WorkbenchInv
<1>10. CASE SendFailed(t)
  <2> DEFINE answer == Answer(run[t].request, "failed")
             new == [editor[t] EXCEPT !.result = answer, !.executionId = None]
  <2>1. answer \in Maybe(Answers) /\ answer.request = run[t].request /\ answer.outcome = "failed"
    BY <1>2, AnswerFacts DEF Maybe
  <2>2. Finished(t, answer)
    BY <1>10 DEF SendFailed
  <2> HIDE DEF answer
  <2>3. new.form = editor[t].form /\ new.result = answer
    BY <1>2 DEF Editors
  <2>4. t \notin mixed => Belongs(new, None)
    BY <1>2, <2>1, <2>3 DEF Belongs, HasResponse
  <2> QED  BY <1>1, <1>3, <1>4, <2>1, <2>2, <2>4, FinishedKeeps DEF WorkbenchInv
<1> QED  BY <1>5, <1>6, <1>7, <1>8, <1>9, <1>10 DEF Settle

-------------------------------------------------------------------------------
(* Opening a request.                                                      *)
LEMMA AppliedFacts ==
  ASSUME NEW editing \in Editors, NEW id \in Maybe(Requests), NEW saved \in SavedRows
  PROVE  /\ Applied(editing, id, saved) \in Editors
         /\ Faithful(saved) => Belongs(Applied(editing, id, saved), None)
<1> DEFINE e == Applied(editing, id, saved)
           result == IF saved.response = None THEN None ELSE Answer(saved.response, "saved")
           last == IF saved.actual # None THEN saved.actual
                   ELSE IF saved.response = None THEN None ELSE saved.content
<1>1. /\ saved.content \in Contents /\ saved.baseline \in Maybe(Fields)
      /\ saved.response \in Maybe(Contents) /\ saved.actual \in Maybe(Contents)
  BY DEF SavedRows
<1>2. CASE saved.response = None
  <2>1. result = None /\ result \in Maybe(Answers)
    BY <1>2 DEF Maybe
  <2>2. last \in Maybe(Contents)
    BY <1>1, <1>2 DEF Maybe
  <2>3. e = [editing EXCEPT !.form = saved.content, !.requestId = id, !.baseline = saved.baseline,
              !.syncCaseResponse = FALSE, !.result = None, !.lastRequest = last]
    BY <1>2 DEF Applied
  <2> HIDE DEF last, e
  <2>4. e \in Editors /\ e.result = None
    BY <1>1, <2>1, <2>2, <2>3 DEF Editors, Maybe
  <2> QED  BY <2>4 DEF Belongs, HasResponse, e
<1>3. CASE saved.response # None
  <2>1. /\ result \in Answers /\ result.request = saved.response /\ result.outcome = "saved"
    BY <1>1, <1>3, AnswerFacts DEF Maybe
  <2>2. last \in Contents /\ (Faithful(saved) => last = saved.response)
    BY <1>1, <1>3 DEF Faithful, Maybe
  <2>3. e = [editing EXCEPT !.form = saved.content, !.requestId = id, !.baseline = saved.baseline,
              !.syncCaseResponse = TRUE, !.result = result, !.lastRequest = last]
    BY <1>3 DEF Applied
  <2> HIDE DEF result, last, e
  <2>4. e \in Editors /\ e.result = result /\ e.lastRequest = last
    BY <1>1, <2>1, <2>2, <2>3 DEF Editors, Maybe
  <2> QED  BY <2>1, <2>2, <2>4 DEF Belongs, e
<1> QED  BY <1>2, <1>3

LEMMA ApplyKeeps ==
  ASSUME Screen, NEW t \in Tabs, NEW id \in Maybe(Requests), NEW saved \in SavedRows,
         id \in tainted \/ Faithful(saved), Apply(t, id, saved), UNCHANGED run
  PROVE  Screen'
<1> DEFINE new == Applied(editor[t], id, saved)
           e == Rearmed(editor[t], new, FALSE)
<1>1. editor[t] \in Editors /\ mixed \subseteq Tabs /\ run[t] \in Maybe(Runs)
  BY DEF Screen, ScreenTypes
<1>2. new \in Editors /\ (Faithful(saved) => Belongs(new, None))
  BY <1>1, AppliedFacts
<1>3. e \in Editors /\ e.form = new.form /\ e.result = new.result /\ e.lastRequest = new.lastRequest
  BY <1>1, <1>2, RearmedFacts
<1>4. editor' = [editor EXCEPT ![t] = e] /\ run' = [run EXCEPT ![t] = run[t]]
  BY DEF Apply, Set, Screen, ScreenTypes
<1> HIDE DEF new, e
<1>5. /\ mixed' \subseteq Tabs /\ mixed \ {t} \subseteq mixed'
      /\ t \notin mixed' => run[t] = None /\ id \notin tainted
  BY <1>1 DEF Apply, loading
<1>6. t \notin mixed' => Belongs(e, run[t])
  BY <1>2, <1>3, <1>5 DEF Belongs
<1> QED  BY <1>1, <1>3, <1>4, <1>5, <1>6, TabMoves

(* What is stored, as it is opened.                                        *)
LEMMA StoredFacts ==
  ASSUME Saves, NEW r \in DOMAIN stored
  PROVE  /\ r \in Requests /\ stored[r] \in SavedRows
         /\ Loaded(r) \in SavedRows /\ Latest(r) \in SavedRows
         /\ r \in tainted \/ (Faithful(stored[r]) /\ Faithful(Latest(r)))
<1>1. r \in Requests /\ stored[r] \in SavedRows /\ (r \in tainted \/ Faithful(stored[r]))
  BY DEF Saves, SaveTypes, StoredFaithful
<1>2. /\ Loaded(r) \in SavedRows /\ Loaded(r).response = stored[r].response
      /\ Loaded(r).actual = stored[r].actual
  BY <1>1 DEF Loaded, SavedRows, Contents, Maybe
<1>3. CASE r \in Cases /\ Interface \in DOMAIN stored
  <2> DEFINE fields == stored[Interface].content.fields
  <2>1. fields \in Fields
    BY <1>3 DEF Saves, SaveTypes, SavedRows, Contents
  <2>2. Latest(r) = [Loaded(r) EXCEPT !.baseline = fields, !.content.fields = fields]
    BY <1>3 DEF Latest
  <2> HIDE DEF fields
  <2>3. /\ Latest(r) \in SavedRows /\ Latest(r).response = stored[r].response
        /\ Latest(r).actual = stored[r].actual
    BY <1>2, <2>1, <2>2 DEF SavedRows, Contents, Maybe
  <2> QED  BY <1>1, <1>2, <2>3 DEF Faithful
<1>4. CASE ~(r \in Cases /\ Interface \in DOMAIN stored)
  BY <1>1, <1>2, <1>4 DEF Latest, Faithful
<1> QED  BY <1>3, <1>4

(* A handler that awaits a call: the call keeps what it saves.             *)
LEMMA BeginKeeps ==
  ASSUME Saves, NEW t \in Tabs, NEW kind \in Kinds, NEW id \in Maybe(Requests),
         NEW saved \in SavedRows, Begin(t, kind, id, saved),
         kind # "replay" => id \in Requests,
         IF kind = "replay" THEN saved.response = None ELSE id \in tainted' \/ Faithful(saved),
         tainted \subseteq tainted', tainted' \subseteq Requests, UNCHANGED <<stored, executed>>
  PROVE  Saves'
<1> DEFINE call == Awaits(kind, id, saved)
<1>1. call \in Calls /\ call.kind = kind /\ call.id = id /\ call.saved = saved
  BY DEF Awaits, Calls
<1>2. awaiting' = [awaiting EXCEPT ![t] = @ \union {call}]
  BY DEF Begin
<1> HIDE DEF call
<1>3. SaveTypes'
  BY <1>1, <1>2 DEF Saves, SaveTypes
<1>4. StoredFaithful'
  BY DEF Saves, StoredFaithful
<1>5. CallsFaithful'
  BY <1>1, <1>2 DEF Saves, SaveTypes, CallsFaithful
<1> QED  BY <1>3, <1>4, <1>5 DEF Saves

LEMMA HydrateKeeps ==
  ASSUME WorkbenchInv, NEW t \in Tabs, NEW r \in Requests, Hydrate(t, r) PROVE WorkbenchInv'
<1>1. Screen /\ Saves /\ r \in DOMAIN stored /\ r \in Maybe(Requests)
  BY DEF WorkbenchInv, Hydrate, Maybe
<1>2. Latest(r) \in SavedRows /\ (r \in tainted \/ Faithful(Latest(r)))
  BY <1>1, StoredFacts
<1>3. Apply(t, r, Latest(r)) /\ UNCHANGED <<run, stored, executed, tainted>>
  BY DEF Hydrate
<1>4. Screen'
  BY <1>1, <1>2, <1>3, ApplyKeeps
<1>5. CASE UNCHANGED awaiting
  BY <1>1, <1>3, <1>4, <1>5, SameSaves DEF WorkbenchInv
<1>6. CASE Begin(t, "save", r, Latest(r))
  <2>1. tainted \subseteq Requests /\ "save" \in Kinds
    BY <1>1 DEF Saves, SaveTypes, Kinds
  <2>2. Saves'
    BY <1>1, <1>2, <1>3, <1>6, <2>1, BeginKeeps
  <2> QED  BY <1>4, <2>2 DEF WorkbenchInv
<1> QED  BY <1>5, <1>6 DEF Hydrate

LEMMA SameScreen == ASSUME Screen, UNCHANGED <<editor, run, mixed>> PROVE Screen'
  BY DEF Screen, ScreenTypes, TabsBelong

LEMMA ReplayKeeps == ASSUME WorkbenchInv, NEW t \in Tabs, Replay(t) PROVE WorkbenchInv'
<1>1. Screen /\ Saves /\ tainted \subseteq Requests /\ executed \subseteq Contents
  BY DEF WorkbenchInv, Saves, SaveTypes
<1>2. PICK request \in executed : Begin(t, "replay", None, Saved(request, None, None, None))
  BY DEF Replay
<1>3. UNCHANGED <<editor, run, mixed, stored, executed, tainted>>
  BY DEF Replay
<1>4. /\ Saved(request, None, None, None) \in SavedRows
      /\ Saved(request, None, None, None).response = None
      /\ None \in Maybe(Requests) /\ "replay" \in Kinds
  BY <1>1 DEF Saved, SavedRows, Maybe, Kinds
<1>5. Saves'
  BY <1>1, <1>2, <1>3, <1>4, BeginKeeps
<1> QED  BY <1>1, <1>3, <1>5, SameScreen DEF WorkbenchInv

LEMMA SyncKeeps == ASSUME WorkbenchInv, NEW t \in Tabs, SyncCaseWithInterface(t) PROVE WorkbenchInv'
<1> DEFINE e == editor[t]
           blank == Saved(e.form, None, None, None)
           remaining == IF e.requestId \in DOMAIN stored THEN stored[e.requestId] ELSE blank
           saved == [remaining EXCEPT !.content = [e.form EXCEPT !.fields = e.baseline],
                                 !.baseline = e.baseline]
<1>1. Screen /\ Saves /\ Saves'
  BY SameSaves DEF WorkbenchInv, SyncCaseWithInterface
<1>2. Apply(t, e.requestId, saved) /\ UNCHANGED run /\ e.baseline # None
  BY DEF SyncCaseWithInterface, Differs
<1>3. /\ e.form \in Contents /\ e.baseline \in Fields /\ e.requestId \in Maybe(Requests)
  BY <1>1, <1>2 DEF Screen, ScreenTypes, Editors, Maybe
<1>4. blank \in SavedRows /\ Faithful(blank)
  BY <1>3 DEF Saved, SavedRows, Maybe, Faithful
<1>5. remaining \in SavedRows /\ (e.requestId \in tainted \/ Faithful(remaining))
  BY <1>1, <1>4, StoredFacts
<1> HIDE DEF remaining, blank, e
<1>6. [e.form EXCEPT !.fields = e.baseline] \in Contents
  BY <1>3 DEF Contents
<1>7. saved \in SavedRows /\ saved.response = remaining.response /\ saved.actual = remaining.actual
  BY <1>3, <1>5, <1>6 DEF SavedRows, Maybe
<1>8. e.requestId \in tainted \/ Faithful(saved)
  BY <1>5, <1>7 DEF Faithful
<1>9. Screen'
  BY <1>1, <1>2, <1>3, <1>7, <1>8, ApplyKeeps
<1> QED  BY <1>1, <1>9 DEF WorkbenchInv

-------------------------------------------------------------------------------
(* Saving.                                                                 *)
LEMMA SnapshotFacts ==
  ASSUME Screen, NEW t \in Tabs, NEW keep \in BOOLEAN
  PROVE  LET new == Snapshot(editor[t], keep) IN
         /\ new.response \in Maybe(Contents) /\ new.actual \in Maybe(Contents)
         /\ new.response = None => new.actual = None
         /\ t \notin mixed /\ new.response # None =>
               new.actual = new.response /\ editor[t].lastRequest = new.response
<1> DEFINE e == editor[t]
           new == Snapshot(e, keep)
<1>1. e \in Editors /\ (t \notin mixed => Belongs(e, run[t]))
  BY DEF Screen, ScreenTypes, TabsBelong
<1> HIDE DEF e
<1>2. CASE keep /\ HasResponse(e.result)
  <2>1. new = [response |-> e.result.request, actual |-> e.lastRequest]
    BY <1>2 DEF Snapshot
  <2>2. e.result \in Answers /\ e.lastRequest \in Maybe(Contents)
    BY <1>1, <1>2 DEF Editors, Maybe, HasResponse
  <2>3. e.result.request \in Contents
    BY <2>2 DEF Answers
  <2>4. e.result.request # None
    BY <2>3, HttpWorkbenchAssumption
  <2>5. t \notin mixed => e.lastRequest = e.result.request
    BY <1>1, <1>2 DEF Belongs
  <2> QED  BY <2>1, <2>2, <2>3, <2>4, <2>5 DEF Maybe, e
<1>3. CASE ~(keep /\ HasResponse(e.result))
  BY <1>3 DEF Snapshot, Maybe, e
<1> QED  BY <1>2, <1>3

LEMMA MetadataFacts ==
  ASSUME WorkbenchInv, NEW t \in Tabs
  PROVE  LET id == editor[t].requestId IN
         /\ Metadata(editor[t]) \in SavedRows
         /\ t \notin mixed => id \in tainted \/ Faithful(Metadata(editor[t]))
<1> DEFINE e == editor[t]
           blank == Saved(e.form, None, None, None)
           remaining == IF e.requestId \in DOMAIN stored THEN stored[e.requestId] ELSE blank
           new == Snapshot(e, e.syncCaseResponse /\ IsCase(e.form))
           fresh == new.response # None
           saved == Metadata(e)
<1>1. Screen /\ Saves /\ e \in Editors
  BY DEF WorkbenchInv, Screen, ScreenTypes
<1>2. /\ e.form \in Contents /\ e.baseline \in Maybe(Fields) /\ e.form.fields \in Fields
  BY <1>1 DEF Editors, Contents
<1>3. blank \in SavedRows /\ Faithful(blank)
  BY <1>2 DEF Saved, SavedRows, Maybe, Faithful
<1>4. remaining \in SavedRows /\ (e.requestId \in tainted \/ Faithful(remaining))
  BY <1>1, <1>3, StoredFacts
<1>5. /\ new.response \in Maybe(Contents) /\ new.actual \in Maybe(Contents)
      /\ t \notin mixed /\ fresh => new.actual = new.response
  <2>1. (e.syncCaseResponse /\ IsCase(e.form)) \in BOOLEAN
    OBVIOUS
  <2> QED  BY <1>1, <2>1, SnapshotFacts
<1>6. saved = Saved(e.form, IF IsCase(e.form) THEN e.baseline ELSE e.form.fields,
                    IF fresh THEN new.response ELSE remaining.response,
                    IF fresh /\ new.actual # None THEN new.actual ELSE remaining.actual)
  BY DEF Metadata
<1> HIDE DEF e, remaining, new, blank, saved
<1>7. remaining.response \in Maybe(Contents) /\ remaining.actual \in Maybe(Contents)
  BY <1>4 DEF SavedRows
<1>8. saved \in SavedRows
  BY <1>2, <1>5, <1>6, <1>7 DEF Saved, SavedRows, Maybe
<1>9. t \notin mixed => e.requestId \in tainted \/ Faithful(saved)
  BY <1>4, <1>5, <1>6 DEF Saved, Faithful
<1> QED  BY <1>8, <1>9 DEF e, saved

LEMMA HandleSaveKeeps ==
  ASSUME WorkbenchInv, NEW t \in Tabs, NEW fromEvent \in BOOLEAN, HandleSave(t, fromEvent)
  PROVE  WorkbenchInv'
<1>1. /\ Screen /\ Saves /\ editor[t] \in Editors /\ tainted \subseteq Requests
      /\ UNCHANGED <<run, stored, executed, mixed>>
  BY DEF WorkbenchInv, Screen, ScreenTypes, Saves, SaveTypes, HandleSave
<1>2. CASE editor[t].requestId = None
  <2> DEFINE new == [editor[t] EXCEPT !.saveDraft = editor[t].form]
  <2>1. Set(t, new) /\ UNCHANGED <<awaiting, tainted>>
    BY <1>2 DEF HandleSave
  <2>2. new \in Editors /\ new.form = editor[t].form /\ new.result = editor[t].result
        /\ new.lastRequest = editor[t].lastRequest
    BY <1>1 DEF Editors, Maybe
  <2> QED  BY <1>1, <2>1, <2>2, SetKeeps, SameSaves DEF WorkbenchInv
<1>3. CASE editor[t].requestId # None
  <2> DEFINE id == editor[t].requestId
  <2>1. /\ Begin(t, "save", id, Metadata(editor[t])) /\ UNCHANGED editor
        /\ tainted' = IF t \in mixed THEN tainted \union {id} ELSE tainted
    BY <1>3 DEF HandleSave
  <2>2. id \in Requests /\ id \in Maybe(Requests) /\ "save" \in Kinds
    BY <1>1, <1>3 DEF Editors, Maybe, Kinds
  <2>3. Metadata(editor[t]) \in SavedRows /\ (id \in tainted' \/ Faithful(Metadata(editor[t])))
    BY <2>1, MetadataFacts
  <2>4. Saves'
    BY <1>1, <2>1, <2>2, <2>3, BeginKeeps
  <2> QED  BY <1>1, <2>1, <2>4, SameScreen DEF WorkbenchInv
<1> QED  BY <1>2, <1>3

LEMMA SaveAsCaseKeeps == ASSUME WorkbenchInv, NEW t \in Tabs, SaveAsCase(t) PROVE WorkbenchInv'
<1> DEFINE e == editor[t]
           saved == CaseOf(e, e.caseDialog)
           new == Snapshot(e, e.caseDialog.type = "debug" /\ e.caseDialog.response)
<1>1. /\ Screen /\ Saves /\ e \in Editors /\ tainted \subseteq Requests
      /\ UNCHANGED <<editor, run, stored, executed, mixed>>
  BY DEF WorkbenchInv, Screen, ScreenTypes, Saves, SaveTypes, SaveAsCase
<1>2. PICK id \in Cases \ DOMAIN stored :
        /\ Begin(t, "case", id, saved)
        /\ tainted' = IF t \in mixed THEN tainted \union {id} ELSE tainted
  BY DEF SaveAsCase
<1>3. /\ e.form \in Contents /\ e.form.fields \in Fields /\ e.lastRequest \in Maybe(Contents)
  BY <1>1 DEF Editors, Contents
<1>4. /\ new.response \in Maybe(Contents)
      /\ t \notin mixed /\ new.response # None => e.lastRequest = new.response
  <2>1. (e.caseDialog.type = "debug" /\ e.caseDialog.response) \in BOOLEAN
    OBVIOUS
  <2> QED  BY <1>1, <2>1, SnapshotFacts
<1>5. saved = Saved(e.form, e.form.fields, new.response, e.lastRequest)
  BY DEF CaseOf
<1> HIDE DEF saved, new, e
<1>6. saved \in SavedRows /\ (t \in mixed \/ Faithful(saved))
  BY <1>3, <1>4, <1>5 DEF Saved, SavedRows, Maybe, Faithful
<1>7. id \in Requests /\ id \in Maybe(Requests) /\ "case" \in Kinds
  BY DEF Requests, Maybe, Kinds
<1>8. Saves'
  BY <1>1, <1>2, <1>6, <1>7, BeginKeeps
<1> QED  BY <1>1, <1>8, SameScreen DEF WorkbenchInv

(* The dialogs, and the calls that bring no response with them.            *)
LEMMA DialogsKeep ==
  ASSUME WorkbenchInv, NEW t \in Tabs,
         \/ \E fromEvent \in BOOLEAN : OpenCaseDialog(t, fromEvent)
         \/ CloseDialog(t) \/ ToggleCaseResponse(t)
  PROVE  WorkbenchInv'
<1>1. /\ Screen /\ Saves /\ editor[t] \in Editors
      /\ UNCHANGED <<run, awaiting, stored, executed, mixed, tainted>>
  BY DEF WorkbenchInv, Screen, ScreenTypes, OpenCaseDialog, CloseDialog, ToggleCaseResponse
<1>2. Saves'
  BY <1>1, SameSaves
<1>3. ASSUME NEW dialog \in [type : {"debug", "test"}, response : BOOLEAN],
             Set(t, [editor[t] EXCEPT !.caseDialog = dialog])
      PROVE  WorkbenchInv'
  <2> DEFINE new == [editor[t] EXCEPT !.caseDialog = dialog]
  <2>1. new \in Editors /\ new.form = editor[t].form /\ new.result = editor[t].result
        /\ new.lastRequest = editor[t].lastRequest
    BY <1>1 DEF Editors, Maybe
  <2> QED  BY <1>1, <1>2, <1>3, <2>1, SetKeeps DEF WorkbenchInv
<1>4. CASE \E fromEvent \in BOOLEAN : OpenCaseDialog(t, fromEvent)
  <2>1. PICK fromEvent \in BOOLEAN, type \in {"debug", "test"} :
          Set(t, [editor[t] EXCEPT !.caseDialog =
             [type |-> type,
              response |-> ~fromEvent /\ type = "debug" /\ HasResponse(editor[t].result)]])
    BY <1>4 DEF OpenCaseDialog
  <2>2. (~fromEvent /\ type = "debug" /\ HasResponse(editor[t].result)) \in BOOLEAN
    OBVIOUS
  <2> QED  BY <1>3, <2>1, <2>2
<1>5. CASE CloseDialog(t)
  <2> DEFINE new == [editor[t] EXCEPT !.saveDraft = None, !.caseDialog = None]
  <2>1. new \in Editors /\ new.form = editor[t].form /\ new.result = editor[t].result
        /\ new.lastRequest = editor[t].lastRequest
    BY <1>1 DEF Editors, Maybe
  <2>2. Set(t, new)
    BY <1>5 DEF CloseDialog
  <2> QED  BY <1>1, <1>2, <2>1, <2>2, SetKeeps DEF WorkbenchInv
<1>6. CASE ToggleCaseResponse(t)
  <2> DEFINE dialog == [editor[t].caseDialog EXCEPT !.response = ~@]
  <2>1. editor[t].caseDialog \in [type : {"debug", "test"}, response : BOOLEAN]
    BY <1>1, <1>6 DEF ToggleCaseResponse, Editors, Maybe
  <2>2. dialog \in [type : {"debug", "test"}, response : BOOLEAN]
    BY <2>1
  <2>3. Set(t, [editor[t] EXCEPT !.caseDialog = dialog])
    BY <1>6 DEF ToggleCaseResponse
  <2> QED  BY <1>3, <2>2, <2>3
<1> QED  BY <1>4, <1>5, <1>6

LEMMA OtherCallsKeep ==
  ASSUME WorkbenchInv, NEW t \in Tabs, SubmitDraft(t) \/ UpdateInterfaceFromCase(t)
  PROVE  WorkbenchInv'
<1>1. /\ Screen /\ Saves /\ editor[t] \in Editors /\ tainted \subseteq Requests
      /\ UNCHANGED <<editor, run, stored, executed, mixed, tainted>>
  BY DEF WorkbenchInv, Screen, ScreenTypes, Saves, SaveTypes, SubmitDraft, UpdateInterfaceFromCase
<1>2. ASSUME NEW kind \in {"create", "update"}, NEW id \in Requests, NEW content \in Contents,
             NEW baseline \in Maybe(Fields), Begin(t, kind, id, Saved(content, baseline, None, None))
      PROVE  WorkbenchInv'
  <2> DEFINE saved == Saved(content, baseline, None, None)
  <2>1. saved \in SavedRows /\ Faithful(saved)
    BY DEF Saved, SavedRows, Maybe, Faithful
  <2>2. kind \in Kinds /\ kind # "replay" /\ id \in Maybe(Requests)
    BY DEF Kinds, Maybe
  <2>3. Saves'
    BY <1>1, <1>2, <2>1, <2>2, BeginKeeps
  <2> QED  BY <1>1, <2>3, SameScreen DEF WorkbenchInv
<1>3. CASE SubmitDraft(t)
  <2>1. editor[t].saveDraft \in Contents /\ t \in Requests /\ None \in Maybe(Fields)
    BY <1>1, <1>3 DEF SubmitDraft, Editors, Maybe, Requests
  <2> QED  BY <1>2, <1>3, <2>1 DEF SubmitDraft
<1>4. CASE UpdateInterfaceFromCase(t)
  <2>1. editor[t].form \in Contents /\ editor[t].form.fields \in Maybe(Fields)
        /\ Interface \in Requests
    BY <1>1 DEF Editors, Contents, Maybe, Requests
  <2> QED  BY <1>2, <1>4, <2>1 DEF UpdateInterfaceFromCase
<1> QED  BY <1>3, <1>4

-------------------------------------------------------------------------------
(* A call comes back, or a request is deleted.                             *)
LEMMA ReturnedScreen ==
  ASSUME Screen, Saves, NEW t \in Tabs, NEW call \in awaiting[t],
         Set(t, After(editor[t], call)), UNCHANGED <<run, tainted>>,
         mixed' = IF call.kind # "replay" THEN mixed
                  ELSE IF loading(t) THEN mixed \union {t} ELSE mixed \ {t}
  PROVE  Screen'
<1>1. editor[t] \in Editors /\ call \in Calls /\ None \in Maybe(Requests)
  BY DEF Screen, ScreenTypes, Saves, SaveTypes, Maybe
<1>2. call.kind # "replay" => call.id \in Requests
  BY DEF Saves, SaveTypes
<1>3. CASE call.kind = "replay"
  <2>1. call.saved \in SavedRows /\ Faithful(call.saved)
    BY <1>1, <1>3 DEF Calls, Saves, CallsFaithful, Faithful
  <2>2. None \notin tainted
    BY HttpWorkbenchAssumption DEF Saves, SaveTypes
  <2>3. Apply(t, None, call.saved)
    BY <1>3, <2>2 DEF Apply, After
  <2> QED  BY <1>1, <2>1, <2>3, ApplyKeeps
<1>4. CASE call.kind # "replay"
  <2> DEFINE new == After(editor[t], call)
  <2>1. CASE call.kind = "create"
    <3>1. new = [editor[t] EXCEPT !.requestId = call.id, !.saveDraft = None]
      BY <2>1 DEF After
    <3> QED  BY <1>1, <1>2, <1>4, <3>1, SetKeeps DEF Editors, Maybe
  <2>2. CASE call.kind = "case"
    <3>1. new = [editor[t] EXCEPT !.caseDialog = None]
      BY <2>2 DEF After
    <3> QED  BY <1>1, <1>4, <3>1, SetKeeps DEF Editors, Maybe
  <2>3. CASE call.kind = "update"
    <3>1. new = [editor[t] EXCEPT !.baseline = call.saved.baseline]
      BY <2>3 DEF After
    <3>2. call.saved.baseline \in Maybe(Fields)
      BY <1>1 DEF Calls, SavedRows
    <3> QED  BY <1>1, <1>4, <3>1, <3>2, SetKeeps DEF Editors
  <2>4. CASE call.kind = "save"
    <3>1. new = editor[t]
      BY <2>4 DEF After
    <3> QED  BY <1>1, <1>4, <3>1, SetKeeps
  <2> QED  BY <1>1, <1>4, <2>1, <2>2, <2>3, <2>4 DEF Calls, Kinds
<1> QED  BY <1>3, <1>4

LEMMA ReturnedKeeps == ASSUME WorkbenchInv, NEW t \in Tabs, Returned(t) PROVE WorkbenchInv'
<1>1. Screen /\ Saves /\ UNCHANGED <<run, executed, tainted>>
  BY DEF WorkbenchInv, Returned
<1>2. PICK call \in awaiting[t] :
        /\ awaiting' = [awaiting EXCEPT ![t] = @ \ {call}]
        /\ Set(t, After(editor[t], call))
        /\ stored' = IF call.kind = "replay" THEN stored
                     ELSE [r \in DOMAIN stored \union {call.id} |->
                              IF r = call.id THEN call.saved ELSE stored[r]]
        /\ mixed' = IF call.kind # "replay" THEN mixed
                    ELSE IF loading(t) THEN mixed \union {t} ELSE mixed \ {t}
  BY DEF Returned
<1>3. Screen'
  BY <1>1, <1>2, ReturnedScreen
<1>4. /\ call \in Calls /\ call.saved \in SavedRows
      /\ call.kind # "replay" =>
            call.id \in Requests /\ (call.id \in tainted \/ Faithful(call.saved))
  BY <1>1 DEF Saves, SaveTypes, CallsFaithful, Calls
<1>5. SaveTypes'
  <2>1. DOMAIN stored' \subseteq Requests /\ stored' \in [DOMAIN stored' -> SavedRows]
    BY <1>1, <1>2, <1>4 DEF Saves, SaveTypes
  <2> QED  BY <1>1, <1>2, <2>1 DEF Saves, SaveTypes
<1>6. StoredFaithful'
  BY <1>1, <1>2, <1>4 DEF Saves, StoredFaithful
<1>7. CallsFaithful'
  BY <1>1, <1>2 DEF Saves, SaveTypes, CallsFaithful
<1> QED  BY <1>3, <1>5, <1>6, <1>7 DEF WorkbenchInv, Saves

LEMMA CallFailedKeeps == ASSUME WorkbenchInv, NEW t \in Tabs, CallFailed(t) PROVE WorkbenchInv'
<1>1. Screen /\ Saves
  BY DEF WorkbenchInv
<1>2. Screen'
  BY <1>1, SameScreen DEF CallFailed
<1>3. Saves'
  BY <1>1 DEF CallFailed, Saves, SaveTypes, StoredFaithful, CallsFaithful
<1> QED  BY <1>2, <1>3 DEF WorkbenchInv

LEMMA DeletedKeeps == ASSUME WorkbenchInv, NEW r \in Requests, Deleted(r) PROVE WorkbenchInv'
<1>1. /\ Screen /\ Saves /\ UNCHANGED <<run, awaiting, executed, mixed, tainted>>
      /\ stored' = [x \in DOMAIN stored \ {r} |-> stored[x]]
      /\ editor' = [t \in Tabs |-> IF editor[t].requestId = r
                                   THEN [editor[t] EXCEPT !.requestId = None] ELSE editor[t]]
  BY DEF WorkbenchInv, Deleted
<1>2. Saves'
  BY <1>1 DEF Saves, SaveTypes, StoredFaithful, CallsFaithful
<1>3. ASSUME NEW t \in Tabs
      PROVE  /\ editor'[t] \in Editors /\ editor'[t].form = editor[t].form
             /\ editor'[t].result = editor[t].result
             /\ editor'[t].lastRequest = editor[t].lastRequest
  <2>1. editor[t] \in Editors
    BY <1>1 DEF Screen, ScreenTypes
  <2> QED  BY <1>1, <2>1 DEF Editors, Maybe
<1>4. ScreenTypes'
  BY <1>1, <1>3 DEF Screen, ScreenTypes
<1>5. TabsBelong'
  BY <1>1, <1>3 DEF Screen, TabsBelong, Belongs
<1> QED  BY <1>2, <1>4, <1>5 DEF WorkbenchInv, Screen

-------------------------------------------------------------------------------
LEMMA WorkbenchStart == Init => WorkbenchInv
<1> SUFFICES ASSUME Init PROVE WorkbenchInv
  OBVIOUS
<1>1. Blank \in Contents
  BY HttpWorkbenchAssumption DEF Blank, Content, Contents, Maybe
<1>2. NewEditor \in Editors /\ NewEditor.result = None
  BY <1>1 DEF NewEditor, Editors, Maybe
<1>3. Screen
  BY <1>2 DEF Init, Screen, ScreenTypes, TabsBelong, Belongs, HasResponse, Maybe
<1>4. \A r \in {Interface} \union SavedCases :
        LET saved == Saved(Content(r, 1, 0), 0, None, None) IN
        r \in Requests /\ saved \in SavedRows /\ Faithful(saved)
  BY HttpWorkbenchAssumption
  DEF Requests, Saved, SavedRows, Content, Contents, Maybe, Faithful
<1>5. Saves
  BY <1>4 DEF Init, Saves, SaveTypes, StoredFaithful, CallsFaithful
<1> QED  BY <1>3, <1>5 DEF WorkbenchInv

LEMMA WorkbenchStep == WorkbenchInv /\ [Next]_vars => WorkbenchInv'
<1> SUFFICES ASSUME WorkbenchInv, [Next]_vars PROVE WorkbenchInv'
  OBVIOUS
<1>1. ASSUME NEW t \in Tabs, Open(t) PROVE WorkbenchInv'
  BY <1>1, HydrateKeeps, ReplayKeeps, SyncKeeps DEF Open
<1>2. ASSUME NEW t \in Tabs, Keep(t) PROVE WorkbenchInv'
  <2>1. CASE \E fromEvent \in BOOLEAN : HandleSave(t, fromEvent)
    BY <2>1, HandleSaveKeeps
  <2>2. CASE SaveAsCase(t)
    BY <2>2, SaveAsCaseKeeps
  <2>3. CASE SubmitDraft(t) \/ UpdateInterfaceFromCase(t)
    BY <2>3, OtherCallsKeep
  <2>4. CASE \/ \E fromEvent \in BOOLEAN : OpenCaseDialog(t, fromEvent)
             \/ CloseDialog(t) \/ ToggleCaseResponse(t)
    BY <2>4, DialogsKeep
  <2> QED  BY <1>2, <2>1, <2>2, <2>3, <2>4 DEF Keep
<1>3. ASSUME NEW t \in Tabs,
             \/ Edit(t) \/ ClickSend(t) \/ Cancel(t) \/ Started(t) \/ Settle(t)
             \/ Returned(t) \/ CallFailed(t)
      PROVE  WorkbenchInv'
  BY <1>3, EditKeeps, SendKeeps, RunMovesKeeps, ReturnedKeeps, CallFailedKeeps
<1>4. CASE UNCHANGED vars
  BY <1>4, SameScreen, SameSaves DEF vars, WorkbenchInv
<1> QED  BY <1>1, <1>2, <1>3, <1>4, ShortcutKeeps, DeletedKeeps DEF Next

LEMMA WorkbenchInvariant == Spec => []WorkbenchInv
  BY WorkbenchStart, WorkbenchStep, PTL DEF Spec

(* Whatever a tab shows as the answer belongs to the request in its form,  *)
(* and whatever is saved as an answer is saved with the request that was   *)
(* sent for it, however sends, openings, edits, saves and deletions of any *)
(* number of tabs and cases interleave.                                    *)
THEOREM AnswersBelongToRequests == Spec => []AnswersBelong
<1>1. WorkbenchInv => AnswersBelong
  BY DEF WorkbenchInv, Screen, TabsBelong, Belongs, Saves, StoredFaithful, Faithful,
         AnswersBelong, ResponseBelongs, SavedResponseIsAnswer, loading
<1> QED  BY <1>1, WorkbenchInvariant, PTL

(* The editor, its runs, the calls it awaits and the store keep their      *)
(* types: only a request that has an id is ever saved.                     *)
THEOREM WorkbenchTypes == Spec => []TypeOK
<1>1. WorkbenchInv => TypeOK
  BY DEF WorkbenchInv, Screen, Saves, TypeOK
<1> QED  BY <1>1, WorkbenchInvariant, PTL

------------------------------------------------------------------------------

(***************************************************************************)
(* The request form: a request that was kept and opened again is sent as   *)
(* it was kept, and the query that is sent is the one the table shows, for *)
(* any number of edits.                                                    *)
(***************************************************************************)

(* What a filter returns.                                                  *)

\* Every position that Nth names is one of those that passed the test.
LEMMA NthFacts ==
    ASSUME NEW n \in Nat, NEW P \in SUBSET (1..n)
    PROVE  /\ Cardinality(P) \in Nat
           /\ \A i \in 1..Cardinality(P) : Nth(P, i) \in P
  <1> DEFINE c == Cardinality(P)
             Upto(p) == {q \in P : q <= p}
             rank == [p \in P |-> Cardinality(Upto(p))]
  <1>0. \A p \in P : p \in Int
    OBVIOUS
  <1>1. IsFiniteSet(P) /\ c \in Nat
    <2>1. IsFiniteSet(1..n)
      BY FS_Interval
    <2>2. IsFiniteSet(P)
      BY <2>1, FS_Subset
    <2> QED  BY <2>2, FS_CardinalityType
  <1>2. ASSUME NEW p \in P
        PROVE  IsFiniteSet(Upto(p)) /\ rank[p] \in 1..c
    <2>1. IsFiniteSet(Upto(p)) /\ rank[p] \in Nat /\ rank[p] <= c
      BY <1>1, FS_Subset, FS_CardinalityType
    <2>2. Upto(p) # {}
      OBVIOUS
    <2> QED  BY <1>1, <2>1, <2>2, FS_EmptySet
  <1>3. ASSUME NEW p \in P, NEW q \in P, p < q
        PROVE  rank[p] # rank[q]
    <2>0. p \in Int /\ q \in Int /\ p < q
      BY <1>0, <1>3
    <2>1. Upto(p) \in SUBSET Upto(q) /\ q \notin Upto(p) /\ q \in Upto(q)
      <3>1. ASSUME NEW x \in Upto(p) PROVE x \in Upto(q)
        BY <1>0, <2>0
      <3>2. Upto(p) \in SUBSET Upto(q)
        BY <3>1, Zenon
      <3>3. q \in Upto(q)
        BY <2>0
      <3>4. q \notin Upto(p)
        BY <2>0
      <3> QED  BY <3>2, <3>3, <3>4
    <2>2. IsFiniteSet(Upto(q))
      BY <1>2
    <2>3. Cardinality(Upto(q)) = Cardinality(Upto(p)) => Upto(q) = Upto(p)
      BY <2>1, <2>2, FS_Subset
    <2> QED  BY <2>1, <2>3
  <1>4. rank \in Injection(P, 1..c)
    <2>1. \A p, q \in P : rank[p] = rank[q] => p = q
      BY <1>0, <1>3
    <2> QED  BY <1>2, <2>1 DEF Injection, IsInjective
  <1>5. rank \in Surjection(P, 1..c)
    <2>1. IsFiniteSet(1..c) /\ Cardinality(1..c) = c
      BY <1>1, FS_Interval
    <2> QED  BY <1>4, <2>1, FS_Injection
  <1>6. \A i \in 1..c : \E p \in P : Cardinality({q \in P : q <= p}) = i
    BY <1>5 DEF Surjection
  <1> QED  BY <1>1, <1>6 DEF Nth

\* What is selected consists of elements that passed the test.
LEMMA SelectedType ==
    ASSUME NEW S, NEW seq \in Seq(S), NEW T, NEW P \in SUBSET (DOMAIN seq),
           \A p \in P : seq[p] \in T
    PROVE  /\ Selected(seq, P) \in Seq(T)
           /\ Len(Selected(seq, P)) = Cardinality(P)
           /\ Cardinality(P) \in Nat
           /\ \A i \in 1..Cardinality(P) : Selected(seq, P)[i] = seq[Nth(P, i)] /\ Nth(P, i) \in P
  <1>1. Len(seq) \in Nat /\ DOMAIN seq = 1..Len(seq)
    OBVIOUS
  <1>2. Cardinality(P) \in Nat /\ \A i \in 1..Cardinality(P) : Nth(P, i) \in P
    BY <1>1, NthFacts
  <1> QED  BY <1>2 DEF Selected

\* The positions 1 to n are in their own order.
LEMMA NthOfAll ==
    ASSUME NEW n \in Nat
    PROVE  Cardinality(1..n) = n /\ \A i \in 1..n : Nth(1..n, i) = i
  <1>1. Cardinality(1..n) = n
    BY FS_Interval
  <1>2. ASSUME NEW i \in 1..n
        PROVE  Nth(1..n, i) = i
    <2>1. \A p \in 1..n : {q \in 1..n : q <= p} = 1..p
      OBVIOUS
    <2>2. \A p \in 1..n : Cardinality(1..p) = p
      BY FS_Interval
    <2>3. Nth(1..n, i) = CHOOSE p \in 1..n : p = i
      BY <2>1, <2>2 DEF Nth
    <2> QED  BY <2>3
  <1> QED  BY <1>1, <1>2

\* A filter that every element passes changes nothing.
LEMMA SelectedAll ==
    ASSUME NEW S, NEW seq \in Seq(S), NEW n \in 0..Len(seq)
    PROVE  Selected(seq, 1..n) = [i \in 1..n |-> seq[i]]
  BY NthOfAll DEF Selected

\* A set of naturals has a least element: the base of every induction below.
LEMMA Least ==
    ASSUME NEW B \in SUBSET Nat, B # {}
    PROVE  \E k \in B : \A j \in B : k <= j
  <1>1. \E k \in B : \A j \in B : ~(<<j, k>> \in OpToRel(<, Nat))
    BY NatLessThanWellFounded, WFMin
  <1>2. PICK k \in B : \A j \in B : ~(<<j, k>> \in OpToRel(<, Nat))
    BY <1>1
  <1>3. \A j \in B : ~(j < k)
    BY <1>2 DEF OpToRel
  <1> QED  BY <1>3

\* Sequences that are empty but for the last one are flattened to that one.
LEMMA FlattenLast ==
    ASSUME NEW m \in Nat \ {0}, NEW S, NEW seqs \in Seq(Seq(S)), Len(seqs) = m,
           \A i \in 1..(m - 1) : seqs[i] = <<>>
    PROVE  FlattenSeq(seqs) = seqs[m]
  <1> DEFINE Step(f) == [i \in 1..m |-> IF i = 1 THEN seqs[i] ELSE f[i-1] \o seqs[i]]
             flat == CHOOSE f : f = Step(f)
  <1>1. FlattenSeq(seqs) = flat[m]
    BY DEF FlattenSeq
  <1>2. seqs = Step(seqs)
    <2>1. seqs = [i \in 1..m |-> seqs[i]]
      OBVIOUS
    <2>2. \A i \in 1..m : seqs[i] \in Seq(S)
      OBVIOUS
    <2>3. \A i \in 1..m : i # 1 => seqs[i-1] \o seqs[i] = seqs[i]
      BY <2>2
    <2> QED  BY <2>1, <2>3
  <1>3. flat = Step(flat)
    BY <1>2, Zenon
  <1> HIDE DEF flat
  <1>4. \A i \in 1..m : flat[i] = seqs[i]
    <2> DEFINE B == {i \in 1..m : flat[i] # seqs[i]}
    <2>1. SUFFICES ASSUME B # {} PROVE FALSE
      OBVIOUS
    <2>2. PICK k \in B : \A j \in B : k <= j
      <3>1. B \in SUBSET Nat
        OBVIOUS
      <3> QED  BY <2>1, <3>1, Least
    <2>3. flat[k] = IF k = 1 THEN seqs[k] ELSE flat[k-1] \o seqs[k]
      BY <1>3
    <2>4. k # 1 => flat[k-1] = seqs[k-1]
      BY <2>2
    <2>5. k # 1 => seqs[k-1] \o seqs[k] = seqs[k]
      BY <1>2
    <2> QED  BY <2>3, <2>4, <2>5
  <1> QED  BY <1>1, <1>4

\* No sequences are flattened to none.
LEMMA FlattenNothing == FlattenSeq(<<>>) = <<>>
  BY DEF FlattenSeq

------------------------------------------------------------------------------
(* Rows and pairs.                                                         *)

\* every text the editor tells apart
Strings == {"", "a", "v", "s", "t", "file", "required", "act",
            "Content-Type", "Cookie", "SOAPAction",
            "json", "graphql", "form", "msgpack", "xml", "text", "text/xml", "soap",
            "soap-action", "octet", "default", "other", "default-env", "other-env",
            "u", "callback"}
FormRow == [key : Strings, value : Strings, note : Strings, on : BOOLEAN]
Pair == Strings \X Strings
NamedPair == (Strings \ {""}) \X Strings

\* a pair of the URL, where a value may hold a second question mark
UrlPair == Strings \X (Strings \cup {SecondMark})

\* What a sequence is made of.
LEMMA SeqElements ==
    ASSUME NEW S, NEW seq \in Seq(S)
    PROVE  /\ Len(seq) \in Nat /\ DOMAIN seq = 1..Len(seq)
           /\ \A i \in 1..Len(seq) : seq[i] \in S
           /\ seq = [i \in 1..Len(seq) |-> seq[i]]
  OBVIOUS

\* A sequence over a set is one over every larger set.
LEMMA SeqWiden ==
    ASSUME NEW S, NEW T, NEW seq \in Seq(S), \A x \in S : x \in T
    PROVE  seq \in Seq(T)
  OBVIOUS

\* A sequence with one more element.
LEMMA Appended ==
    ASSUME NEW S, NEW seq \in Seq(S), NEW x
    PROVE  /\ DOMAIN Append(seq, x) = 1..(Len(seq) + 1)
           /\ Append(seq, x)[Len(seq) + 1] = x
           /\ \A i \in 1..Len(seq) : Append(seq, x)[i] = seq[i]
           /\ 1..Len(seq) \subseteq 1..(Len(seq) + 1)
           /\ \A i \in 1..(Len(seq) + 1) : i \in 1..Len(seq) \/ i = Len(seq) + 1
  OBVIOUS

\* A pair by its name and its value.
LEMMA PairParts ==
    ASSUME NEW pair \in Pair
    PROVE  /\ pair[1] \in Strings /\ pair[2] \in Strings
           /\ pair = <<pair[1], pair[2]>>
           /\ pair[1] # "" => pair \in NamedPair
  <1>1. PICK name \in Strings, value \in Strings : pair = <<name, value>>
    BY DEF Pair
  <1>2. name # "" => <<name, value>> \in NamedPair
    BY DEF NamedPair
  <1> QED  BY <1>1, <1>2

\* A pair with a name.
LEMMA NamedParts ==
    ASSUME NEW pair \in NamedPair
    PROVE  pair \in Pair /\ pair[1] # ""
  BY DEF Pair, NamedPair

\* The empty text.
LEMMA NoText == "" \in Strings
  BY DEF Strings

\* createHeaderRow, createQueryRow, createMultipartEditorPart: rows of the tables.
LEMMA CreatedRow ==
    /\ \A key, value \in Strings :
           CreateRow(key, value) \in FormRow /\ CreatePart(key, value) \in FormRow
    /\ BlankRow \in FormRow
  BY NoText DEF CreateRow, CreatePart, BlankRow, FormRow

\* What a new row holds and when it is enabled.
LEMMA CreatedFields ==
    /\ \A key, value :
           /\ CreateRow(key, value).key = key /\ CreateRow(key, value).value = value
           /\ CreateRow(key, value).on <=> (key # "" \/ value # "")
           /\ CreatePart(key, value).key = key /\ CreatePart(key, value).value = value
           /\ CreatePart(key, value).on <=> key # ""
    /\ BlankRow.key = "" /\ BlankRow.value = "" /\ BlankRow.note = ""
  BY Zenon DEF CreateRow, CreatePart, BlankRow

\* Pairs make rows.
LEMMA RowsTyped ==
    ASSUME NEW pairs \in Seq(Pair)
    PROVE  /\ RowsFromPairs(pairs) \in Seq(FormRow)
           /\ PartsFromRequest(pairs) \in Seq(FormRow)
  <1>1. \A i \in DOMAIN pairs : pairs[i][1] \in Strings /\ pairs[i][2] \in Strings
    BY SeqElements, PairParts
  <1>3. [i \in DOMAIN pairs |-> CreateRow(pairs[i][1], pairs[i][2])] \in Seq(FormRow)
    BY <1>1, CreatedRow
  <1>4. [i \in DOMAIN pairs |-> CreatePart(pairs[i][1], pairs[i][2])] \in Seq(FormRow)
    BY <1>1, CreatedRow
  <1> QED  BY <1>3, <1>4, CreatedRow DEF RowsFromPairs, PartsFromRequest

\* The pairs of a table are those of its enabled rows, and all have a name.
LEMMA PairsTyped ==
    ASSUME NEW rows \in Seq(FormRow)
    PROVE  Pairs(rows) \in Seq(NamedPair)
  <1> DEFINE P == {i \in DOMAIN rows : rows[i].on /\ rows[i].key # ""}
             sent == Selected(rows, P)
             T == [key : Strings \ {""}, value : Strings, note : Strings, on : BOOLEAN]
  <1>1. sent \in Seq(T)
    <2>1. \A i \in DOMAIN rows : rows[i] \in FormRow
      BY SeqElements
    <2>2. P \in SUBSET (DOMAIN rows)
      OBVIOUS
    <2>3. \A p \in P : rows[p] \in T
      BY <2>1 DEF FormRow
    <2> HIDE DEF T, P
    <2> QED  BY <2>2, <2>3, SelectedType
  <1>2. DOMAIN sent = 1..Len(sent) /\ Len(sent) \in Nat /\ \A i \in 1..Len(sent) : sent[i] \in T
    <2> HIDE DEF T, sent
    <2> QED  BY <1>1, SeqElements
  <1>3. Pairs(rows) = [i \in 1..Len(sent) |-> <<sent[i].key, sent[i].value>>]
    BY <1>2 DEF Pairs
  <1> HIDE DEF sent
  <1>4. \A i \in 1..Len(sent) : <<sent[i].key, sent[i].value>> \in NamedPair
    BY <1>2 DEF NamedPair
  <1> HIDE DEF T
  <1> QED  BY <1>2, <1>3, <1>4

\* Pairs that all have a name pass unchanged.
LEMMA NamedAll ==
    ASSUME NEW pairs \in Seq(NamedPair)
    PROVE  Named(pairs) = pairs /\ pairs \in Seq(Pair)
  <1>1. Len(pairs) \in Nat /\ DOMAIN pairs = 1..Len(pairs) /\ \A i \in 1..Len(pairs) : pairs[i] \in NamedPair
    BY SeqElements
  <1>2. {i \in DOMAIN pairs : pairs[i][1] # ""} = 1..Len(pairs)
    BY <1>1, NamedParts
  <1>3. Selected(pairs, 1..Len(pairs)) = pairs
    <2>1. Len(pairs) \in 0..Len(pairs)
      BY <1>1
    <2> QED  BY <2>1, SelectedAll, SeqElements
  <1>4. pairs \in Seq(Pair)
    BY NamedParts, SeqWiden
  <1> QED  BY <1>2, <1>3, <1>4 DEF Named

\* What a table shows of some pairs, it sends: those with a name.
LEMMA RoundTrip ==
    ASSUME NEW pairs \in Seq(Pair)
    PROVE  /\ Pairs(RowsFromPairs(pairs)) = Named(pairs)
           /\ Pairs(PartsFromRequest(pairs)) = Named(pairs)
  <1> DEFINE P == {i \in DOMAIN pairs : pairs[i][1] # ""}
             n == Len(pairs)
  <1>1. P \in SUBSET (1..n) /\ n \in Nat /\ DOMAIN pairs = 1..n
    BY SeqElements
  <1>2. /\ Cardinality(P) \in Nat
        /\ \A i \in 1..Cardinality(P) : Nth(P, i) \in P
    BY <1>1, NthFacts
  <1>3. \A i \in 1..n :
            /\ pairs[i][1] \in Strings /\ pairs[i][2] \in Strings
            /\ pairs[i] = <<pairs[i][1], pairs[i][2]>>
    BY SeqElements, PairParts
  <1>4. ASSUME NEW rows, DOMAIN rows = 1..(n + 1),
               \A i \in 1..n :
                   /\ rows[i].key = pairs[i][1] /\ rows[i].value = pairs[i][2]
                   /\ pairs[i][1] # "" => rows[i].on,
               rows[n + 1].key = ""
        PROVE  Pairs(rows) = Named(pairs)
    <2>1. {i \in DOMAIN rows : rows[i].on /\ rows[i].key # ""} = P
      <3>1. \A i \in 1..(n + 1) : i \in 1..n \/ i = n + 1
        BY Appended
      <3>2. 1..n \subseteq 1..(n + 1)
        BY Appended
      <3>3. ~(rows[n + 1].key # "")
        BY <1>4
      <3> HIDE DEF n
      <3> QED  BY <1>1, <1>4, <3>1, <3>2, <3>3
    <2> HIDE DEF P
    <2>2. Pairs(rows) = [i \in 1..Cardinality(P) |-> <<rows[Nth(P, i)].key, rows[Nth(P, i)].value>>]
      BY <1>2, <2>1 DEF Pairs, Selected
    <2>3. \A i \in 1..Cardinality(P) :
              <<rows[Nth(P, i)].key, rows[Nth(P, i)].value>> = pairs[Nth(P, i)]
      BY <1>1, <1>2, <1>3, <1>4
    <2>4. Named(pairs) = [i \in 1..Cardinality(P) |-> pairs[Nth(P, i)]]
      BY DEF Named, Selected, P
    <2> QED  BY <2>2, <2>3, <2>4
  <1> DEFINE created == [i \in DOMAIN pairs |-> CreateRow(pairs[i][1], pairs[i][2])]
             attached == [i \in DOMAIN pairs |-> CreatePart(pairs[i][1], pairs[i][2])]
  <1>5. created \in Seq(FormRow) /\ attached \in Seq(FormRow)
    <2>1. \A i \in DOMAIN pairs : pairs[i][1] \in Strings /\ pairs[i][2] \in Strings
      BY <1>1, <1>3
    <2> QED  BY <2>1, CreatedRow
  <1>6. /\ Len(created) = n /\ \A i \in 1..n : created[i] = CreateRow(pairs[i][1], pairs[i][2])
        /\ Len(attached) = n /\ \A i \in 1..n : attached[i] = CreatePart(pairs[i][1], pairs[i][2])
    <2>1. DOMAIN created = 1..n /\ DOMAIN attached = 1..n
      BY <1>1
    <2>2. Len(created) = n /\ Len(attached) = n
      <3>1. /\ created = [i \in 1..n |-> CreateRow(pairs[i][1], pairs[i][2])]
            /\ attached = [i \in 1..n |-> CreatePart(pairs[i][1], pairs[i][2])]
        BY <1>1
      <3>2. n \in Nat
        BY <1>1
      <3> HIDE DEF n, created, attached
      <3> QED  BY <3>1, <3>2
    <2>3. \A i \in 1..n : created[i] = CreateRow(pairs[i][1], pairs[i][2])
      BY <1>1
    <2>4. \A i \in 1..n : attached[i] = CreatePart(pairs[i][1], pairs[i][2])
      BY <1>1
    <2> QED  BY <2>2, <2>3, <2>4
  <1>7. RowsFromPairs(pairs) = Append(created, BlankRow) /\ PartsFromRequest(pairs) = Append(attached, BlankRow)
    BY DEF RowsFromPairs, PartsFromRequest
  <1> HIDE DEF n, created, attached
  <1>8. Pairs(Append(created, BlankRow)) = Named(pairs)
    <2> DEFINE rows == Append(created, BlankRow)
    <2>1. /\ DOMAIN rows = 1..(n + 1) /\ rows[n + 1] = BlankRow
          /\ \A i \in 1..n : rows[i] = CreateRow(pairs[i][1], pairs[i][2])
      BY <1>5, <1>6, Appended
    <2> HIDE DEF rows
    <2>2. /\ \A i \in 1..n : /\ rows[i].key = pairs[i][1] /\ rows[i].value = pairs[i][2]
                             /\ pairs[i][1] # "" => rows[i].on
          /\ rows[n + 1].key = ""
      <3>1. ASSUME NEW i \in 1..n
            PROVE  /\ rows[i].key = pairs[i][1] /\ rows[i].value = pairs[i][2]
                   /\ pairs[i][1] # "" => rows[i].on
        <4>1. rows[i] = CreateRow(pairs[i][1], pairs[i][2])
          BY <2>1
        <4>2. /\ CreateRow(pairs[i][1], pairs[i][2]).key = pairs[i][1]
              /\ CreateRow(pairs[i][1], pairs[i][2]).value = pairs[i][2]
              /\ pairs[i][1] # "" => CreateRow(pairs[i][1], pairs[i][2]).on
          BY Zenon DEF CreateRow, CreatePart
        <4> QED  BY <4>1, <4>2
      <3>2. rows[n + 1].key = ""
        BY <2>1, CreatedFields
      <3> QED  BY <3>1, <3>2
    <2> QED  BY <1>4, <2>1, <2>2 DEF rows
  <1>9. Pairs(Append(attached, BlankRow)) = Named(pairs)
    <2> DEFINE rows == Append(attached, BlankRow)
    <2>1. /\ DOMAIN rows = 1..(n + 1) /\ rows[n + 1] = BlankRow
          /\ \A i \in 1..n : rows[i] = CreatePart(pairs[i][1], pairs[i][2])
      BY <1>5, <1>6, Appended
    <2> HIDE DEF rows
    <2>2. /\ \A i \in 1..n : /\ rows[i].key = pairs[i][1] /\ rows[i].value = pairs[i][2]
                             /\ pairs[i][1] # "" => rows[i].on
          /\ rows[n + 1].key = ""
      <3>1. ASSUME NEW i \in 1..n
            PROVE  /\ rows[i].key = pairs[i][1] /\ rows[i].value = pairs[i][2]
                   /\ pairs[i][1] # "" => rows[i].on
        <4>1. rows[i] = CreatePart(pairs[i][1], pairs[i][2])
          BY <2>1
        <4>2. /\ CreatePart(pairs[i][1], pairs[i][2]).key = pairs[i][1]
              /\ CreatePart(pairs[i][1], pairs[i][2]).value = pairs[i][2]
              /\ pairs[i][1] # "" => CreatePart(pairs[i][1], pairs[i][2]).on
          BY Zenon DEF CreateRow, CreatePart
        <4> QED  BY <4>1, <4>2
      <3>2. rows[n + 1].key = ""
        BY <2>1, CreatedFields
      <3> QED  BY <3>1, <3>2
    <2> QED  BY <1>4, <2>1, <2>2 DEF rows
  <1> QED  BY <1>7, <1>8, <1>9

\* The least of some naturals is one of them.
LEMMA MinFacts ==
    ASSUME NEW S \in SUBSET Nat, S # {}
    PROVE  Min(S) \in S /\ \A x \in S : Min(S) <= x
  <1>1. \E x \in S : \A y \in S : x <= y
    BY Least
  <1> QED  BY <1>1, Zenon DEF Min

\* The query that is read ends at the second question mark: none of its pairs
\* holds one, and without one it is the query.
LEMMA QueryRead ==
    ASSUME NEW query \in Seq(UrlPair)
    PROVE  /\ ReadQuery(query) \in Seq(Pair)
           /\ query \in Seq(Pair) => ReadQuery(query) = query
  <1> DEFINE I == {i \in 1..Len(query) : query[i][2] = SecondMark}
             mark == IF I # {} THEN Min(I) ELSE 0
  <1>1. SelectInSeq(query, LAMBDA pair : pair[2] = SecondMark) = mark
    BY Zenon DEF SelectInSeq
  <1>2. ReadQuery(query) = IF mark = 0 THEN query
            ELSE [i \in 1..mark |-> IF i = mark THEN <<query[i][1], "v">> ELSE query[i]]
    BY <1>1, Zenon DEF ReadQuery
  <1>3. /\ Len(query) \in Nat /\ DOMAIN query = 1..Len(query)
        /\ \A i \in 1..Len(query) : query[i] \in UrlPair
        /\ query = [i \in 1..Len(query) |-> query[i]]
    BY SeqElements
  <1>4. \A pair \in UrlPair : /\ pair[1] \in Strings /\ <<pair[1], "v">> \in Pair
                              /\ pair[2] # SecondMark => pair \in Pair
    BY DEF UrlPair, Pair, Strings
  <1>5. I # {} => Min(I) \in I /\ \A i \in I : Min(I) <= i
    <2>1. I \in SUBSET Nat
      OBVIOUS
    <2> HIDE DEF I
    <2> QED  BY <2>1, MinFacts
  <1>6. CASE I = {}
    <2>1. \A i \in 1..Len(query) : query[i] \in Pair
      BY <1>3, <1>4, <1>6
    <2>2. query \in Seq(Pair)
      <3> HIDE DEF I, mark
      <3> QED  BY <1>3, <2>1
    <2> QED  BY <1>2, <1>6, <2>2
  <1>7. CASE I # {}
    <2>1. mark \in 1..Len(query) /\ query[mark][2] = SecondMark /\ mark # 0
      BY <1>3, <1>5, <1>7
    <2>2. \A i \in 1..mark : i # mark => query[i][2] # SecondMark
      <3>1. \A i \in 1..Len(query) : query[i][2] = SecondMark => mark <= i
        BY <1>5, <1>7
      <3> HIDE DEF I, mark
      <3> QED  BY <1>3, <2>1, <3>1
    <2> HIDE DEF I, mark
    <2>3. \A i \in 1..mark : (IF i = mark THEN <<query[i][1], "v">> ELSE query[i]) \in Pair
      BY <1>3, <1>4, <2>1, <2>2
    <2>4. [i \in 1..mark |-> IF i = mark THEN <<query[i][1], "v">> ELSE query[i]] \in Seq(Pair)
      <3> DEFINE read(i) == IF i = mark THEN <<query[i][1], "v">> ELSE query[i]
      <3>1. \A i \in 1..mark : read(i) \in Pair
        BY <2>3
      <3>2. mark \in Nat
        BY <1>3, <2>1
      <3> HIDE DEF read
      <3>3. [i \in 1..mark |-> read(i)] \in [1..mark -> Pair]
        BY <3>1
      <3>4. [i \in 1..mark |-> read(i)] \in Seq(Pair)
        BY <3>2, <3>3
      <3> QED  BY <3>4 DEF read
    <2>5. query \notin Seq(Pair)
      <3>1. \A pair \in Pair : pair[2] # SecondMark
        BY DEF Pair, Strings, SecondMark
      <3> QED  BY <1>3, <2>1, <3>1
    <2> QED  BY <1>2, <2>1, <2>4, <2>5
  <1> QED  BY <1>6, <1>7

\* Pairs without such a mark are pairs of a URL.
LEMMA UrlPairs ==
    ASSUME NEW query \in Seq(Pair)
    PROVE  query \in Seq(UrlPair) /\ ReadQuery(query) = query
  <1>1. \A pair \in Pair : pair \in UrlPair
    BY DEF Pair, UrlPair
  <1>2. query \in Seq(UrlPair)
    BY <1>1, SeqWiden
  <1> QED  BY <1>2, QueryRead

------------------------------------------------------------------------------
(* What the user can make of the rows.                                     *)

Tables == {"query", "header", "cookie", "field", "part"}

\* Whatever is typed into a table is a text.
LEMMA TypableTyped ==
    ASSUME NEW table \in Tables, NEW field \in {"key", "value", "note"}
    PROVE  Typable(table, field) \subseteq Strings
  BY DEF Typable, Tables, Strings, HeaderNames, HeaderValues

\* editKeyValueRow makes a row of a row.
LEMMA EditedRow ==
    ASSUME NEW row \in FormRow, NEW field \in {"key", "value", "note"}, NEW new \in Strings
    PROVE  EditRow(row, field, new) \in FormRow
  <1> DEFINE next == [row EXCEPT ![field] = new]
             on == HasContent(next) /\ (row.on \/ ~HasContent(row))
  <1>1. next \in FormRow
    BY DEF FormRow
  <1>2. on \in BOOLEAN
    BY Zenon
  <1>3. EditRow(row, field, new) = [next EXCEPT !.on = on]
    BY Zenon DEF EditRow
  <1> HIDE DEF next, on
  <1> QED  BY <1>1, <1>2, <1>3 DEF FormRow

\* So do the check box and the star in the heading.
LEMMA SwitchedRow ==
    ASSUME NEW row \in FormRow
    PROVE  /\ [row EXCEPT !.on = TRUE] \in FormRow
           /\ [row EXCEPT !.on = ~@] \in FormRow
           /\ \A mark \in {"", "required"} : [row EXCEPT !.note = mark] \in FormRow
  BY DEF FormRow, Strings

\* Replacing a row, adding one and taking one out.
LEMMA ChangedRows ==
    ASSUME NEW rows \in Seq(FormRow), NEW i \in DOMAIN rows
    PROVE  /\ \A row \in FormRow : [rows EXCEPT ![i] = row] \in Seq(FormRow)
           /\ RemoveAt(rows, i) \in Seq(FormRow)
           /\ rows[i] \in FormRow
  BY DEF RemoveAt

\* So does the empty row at the end.
LEMMA AppendedRow ==
    ASSUME NEW rows \in Seq(FormRow)
    PROVE  Append(rows, BlankRow) \in Seq(FormRow)
  BY CreatedRow

\* Every edit of a table leaves rows.
LEMMA RowEditsTyped ==
    ASSUME NEW table \in Tables, NEW rows \in Seq(FormRow), NEW next \in RowEdits(table, rows)
    PROVE  next \in Seq(FormRow)
  <1>1. ASSUME NEW i \in DOMAIN rows, NEW field \in {"key", "value", "note"},
               NEW new \in Typable(table, field), next = Written(rows, i, field, new)
        PROVE  next \in Seq(FormRow)
    <2>1. EditRow(rows[i], field, new) \in FormRow
      BY TypableTyped, ChangedRows, EditedRow
    <2>2. [rows EXCEPT ![i] = EditRow(rows[i], field, new)] \in Seq(FormRow)
      BY <2>1, ChangedRows
    <2>3. next = AppendEmpty([rows EXCEPT ![i] = EditRow(rows[i], field, new)], i)
      BY <1>1 DEF Written
    <2> HIDE DEF FormRow
    <2> QED  BY <2>2, <2>3, AppendedRow DEF AppendEmpty
  <1>2. ASSUME NEW i \in DOMAIN rows, next = Activated(rows, i)
        PROVE  next \in Seq(FormRow)
    <2>1. [rows EXCEPT ![i].on = TRUE] \in Seq(FormRow)
      BY ChangedRows, SwitchedRow
    <2> QED  BY <1>2, <2>1, AppendedRow DEF Activated
  <1>3. ASSUME NEW i \in DOMAIN rows, next = Toggled(rows, i)
        PROVE  next \in Seq(FormRow)
    <2>1. [rows EXCEPT ![i].on = ~@] \in Seq(FormRow)
      BY ChangedRows, SwitchedRow
    <2> QED  BY <1>3, <2>1, AppendedRow DEF Toggled
  <1>4. ASSUME NEW i \in DOMAIN rows, next = Removed(rows, i)
        PROVE  next \in Seq(FormRow)
    <2>1. RemoveAt(rows, i) \in Seq(FormRow)
      BY ChangedRows
    <2> QED  BY <1>4, <2>1, AppendedRow DEF Removed
  <1>5. ASSUME next = AllRequired(rows)
        PROVE  next \in Seq(FormRow)
    <2> DEFINE full == {i \in DOMAIN rows : HasContent(rows[i])}
               mark == IF \A i \in full : rows[i].note = "required" THEN "" ELSE "required"
    <2>1. mark \in {"", "required"}
      OBVIOUS
    <2>2. next = [i \in DOMAIN rows |-> IF i \in full THEN [rows[i] EXCEPT !.note = mark] ELSE rows[i]]
      BY <1>5 DEF AllRequired
    <2> HIDE DEF full, mark
    <2>3. \A i \in DOMAIN rows : rows[i] \in FormRow /\ [rows[i] EXCEPT !.note = mark] \in FormRow
      BY <2>1, ChangedRows, SwitchedRow
    <2> QED  BY <2>2, <2>3, SeqElements
  <1>6. \/ \E i \in DOMAIN rows, field \in {"key", "value", "note"} :
              \E new \in Typable(table, field) : next = Written(rows, i, field, new)
        \/ \E i \in DOMAIN rows : next = Activated(rows, i)
        \/ \E i \in DOMAIN rows : next = Toggled(rows, i)
        \/ \E i \in DOMAIN rows : next = Removed(rows, i)
        \/ next = AllRequired(rows)
    <2> DEFINE written == UNION {{Written(rows, i, field, new) :
                                     new \in Typable(table, field) \ {rows[i][field]}} :
                                 i \in DOMAIN rows, field \in {"key", "value", "note"}}
               activated == {Activated(rows, i) : i \in {j \in DOMAIN rows :
                                                         ~rows[j].on /\ ~HasContent(rows[j])}}
               toggled == {Toggled(rows, i) : i \in DOMAIN rows}
               removed == {Removed(rows, i) : i \in {j \in DOMAIN rows :
                                                     j < Len(rows) \/ HasContent(rows[j])}}
               marked == IF table = "query" THEN {AllRequired(rows)} ELSE {}
    <2>1. RowEdits(table, rows) = written \cup activated \cup toggled \cup removed \cup marked
      BY DEF RowEdits
    <2>2. next \in written => \E i \in DOMAIN rows, field \in {"key", "value", "note"} :
                                  \E new \in Typable(table, field) : next = Written(rows, i, field, new)
      OBVIOUS
    <2>3. /\ next \in activated => \E i \in DOMAIN rows : next = Activated(rows, i)
          /\ next \in toggled => \E i \in DOMAIN rows : next = Toggled(rows, i)
          /\ next \in removed => \E i \in DOMAIN rows : next = Removed(rows, i)
          /\ next \in marked => next = AllRequired(rows)
      OBVIOUS
    <2> HIDE DEF written, activated, toggled, removed, marked
    <2> QED  BY <2>1, <2>2, <2>3, Zenon
  <1> QED  BY <1>1, <1>2, <1>3, <1>4, <1>5, <1>6, Zenon

\* updateMultipart leaves rows.
LEMMA WithPartTyped ==
    ASSUME NEW parts \in Seq(FormRow), NEW i \in DOMAIN parts, NEW part \in FormRow
    PROVE  WithPart(parts, i, part) \in Seq(FormRow)
  BY ChangedRows, AppendedRow DEF WithPart

\* Every edit of the parts leaves rows.
LEMMA PartEditsTyped ==
    ASSUME NEW parts \in Seq(FormRow), NEW next \in PartEdits(parts)
    PROVE  next \in Seq(FormRow)
  <1>1. ASSUME NEW i \in DOMAIN parts, NEW field \in {"key", "value", "note"},
               NEW new \in Typable("part", field),
               next = WithPart(parts, i, EditRow(parts[i], field, new))
        PROVE  next \in Seq(FormRow)
    <2>1. "part" \in Tables
      BY DEF Tables
    <2>2. EditRow(parts[i], field, new) \in FormRow
      BY <2>1, TypableTyped, ChangedRows, EditedRow
    <2> QED  BY <1>1, <2>2, WithPartTyped
  <1>2. ASSUME NEW i \in DOMAIN parts, next = AttachFile(parts, i)
        PROVE  next \in Seq(FormRow)
    <2>1. "file" \in Strings
      BY DEF Strings
    <2>2. EditRow(parts[i], "value", "file") \in FormRow
      BY <2>1, ChangedRows, EditedRow
    <2> QED  BY <1>2, <2>2, WithPartTyped DEF AttachFile
  <1>3. ASSUME NEW i \in DOMAIN parts, next = WithPart(parts, i, [parts[i] EXCEPT !.on = ~@])
        PROVE  next \in Seq(FormRow)
    <2>1. [parts[i] EXCEPT !.on = ~@] \in FormRow
      BY ChangedRows, SwitchedRow
    <2> QED  BY <1>3, <2>1, WithPartTyped
  <1>4. ASSUME NEW i \in DOMAIN parts, next = PartRemoved(parts, i)
        PROVE  next \in Seq(FormRow)
    <2>1. RemoveAt(parts, i) \in Seq(FormRow)
      BY ChangedRows
    <2> QED  BY <1>4, <2>1, AppendedRow DEF PartRemoved
  <1>5. \/ \E i \in DOMAIN parts, field \in {"key", "value", "note"} :
              \E new \in Typable("part", field) :
                  next = WithPart(parts, i, EditRow(parts[i], field, new))
        \/ \E i \in DOMAIN parts : next = AttachFile(parts, i)
        \/ \E i \in DOMAIN parts : next = WithPart(parts, i, [parts[i] EXCEPT !.on = ~@])
        \/ \E i \in DOMAIN parts : next = PartRemoved(parts, i)
    <2> DEFINE written == UNION {{WithPart(parts, i, EditRow(parts[i], field, new)) :
                                     new \in Typable("part", field) \ {parts[i][field]}} :
                                 i \in DOMAIN parts, field \in {"key", "value", "note"}}
               attached == {AttachFile(parts, i) : i \in DOMAIN parts}
               toggled == {WithPart(parts, i, [parts[i] EXCEPT !.on = ~@]) : i \in DOMAIN parts}
               removed == {PartRemoved(parts, i) : i \in {j \in DOMAIN parts :
                                                          j < Len(parts) \/ HasContent(parts[j])}}
    <2>1. PartEdits(parts) = written \cup attached \cup toggled \cup removed
      BY DEF PartEdits
    <2>2. next \in written => \E i \in DOMAIN parts, field \in {"key", "value", "note"} :
                                  \E new \in Typable("part", field) :
                                      next = WithPart(parts, i, EditRow(parts[i], field, new))
      OBVIOUS
    <2>3. /\ next \in attached => \E i \in DOMAIN parts : next = AttachFile(parts, i)
          /\ next \in toggled => \E i \in DOMAIN parts :
                                     next = WithPart(parts, i, [parts[i] EXCEPT !.on = ~@])
          /\ next \in removed => \E i \in DOMAIN parts : next = PartRemoved(parts, i)
      OBVIOUS
    <2> HIDE DEF written, attached, toggled, removed
    <2> QED  BY <2>1, <2>2, <2>3, Zenon
  <1> QED  BY <1>1, <1>2, <1>3, <1>4, <1>5, Zenon

------------------------------------------------------------------------------
(* Headers and body modes.                                                 *)

PlainHeader == [name : Strings \ {"", "Cookie"}, value : Strings, cookies : {<<>>}]
CookieHeader == [name : {"Cookie"}, value : Strings, cookies : Seq(NamedPair)]

\* The first header that names the content type, if there is one.
LEMMA FirstType ==
    ASSUME NEW S, NEW headers \in Seq(S)
    PROVE  SelectInSeq(headers, LAMBDA header : header.name = "Content-Type")
               \in {0} \cup {i \in 1..Len(headers) : headers[i].name = "Content-Type"}
  <1> DEFINE I == {i \in 1..Len(headers) : headers[i].name = "Content-Type"}
  <1>1. I # {} => Min(I) \in I
    <2>1. I \in SUBSET Nat
      OBVIOUS
    <2> HIDE DEF I
    <2> QED  BY <2>1, MinFacts
  <1>2. SelectInSeq(headers, LAMBDA header : header.name = "Content-Type")
            = IF I # {} THEN Min(I) ELSE 0
    BY Zenon DEF SelectInSeq
  <1> QED  BY <1>1, <1>2, Zenon

\* The rules of applyRequest, one after the other.
LEMMA DetectedMode ==
    ASSUME NEW request, NEW type, type = ContentType(request.headers)
    PROVE  DetectMode(request) =
               IF request.parts # <<>> THEN "multipart"
               ELSE IF type = "form" THEN "urlencoded"
               ELSE IF type = "graphql" \/ LooksLikeGraphql(request) THEN "graphql"
               ELSE IF LooksLikeCall(request) THEN "jsonrpc"
               ELSE IF request.encoding = "base64" /\ type = "msgpack" THEN "msgpack"
               ELSE IF request.encoding = "base64" THEN "binary"
               ELSE IF type = "json" THEN "json"
               ELSE IF type \in XmlTypes THEN "xml"
               ELSE IF request.body \notin {Absent, Empty} THEN "text"
               ELSE "none"
  <1> DEFINE c1 == request.parts # <<>>
             c2 == type = "form"
             c3 == type = "graphql" \/ LooksLikeGraphql(request)
             c4 == LooksLikeCall(request)
             c5 == request.encoding = "base64" /\ type = "msgpack"
             c6 == request.encoding = "base64"
             c7 == type = "json"
             c8 == type \in XmlTypes
             c9 == request.body \notin {Absent, Empty}
             rules == << <<c1, "multipart">>, <<c2, "urlencoded">>, <<c3, "graphql">>,
                         <<c4, "jsonrpc">>, <<c5, "msgpack">>, <<c6, "binary">>,
                         <<c7, "json">>, <<c8, "xml">>, <<c9, "text">>, <<TRUE, "none">> >>
             I == {i \in 1..10 : rules[i][1]}
             first == IF c1 THEN 1 ELSE IF c2 THEN 2 ELSE IF c3 THEN 3 ELSE IF c4 THEN 4
                      ELSE IF c5 THEN 5 ELSE IF c6 THEN 6 ELSE IF c7 THEN 7 ELSE IF c8 THEN 8
                      ELSE IF c9 THEN 9 ELSE 10
  <1>1. DetectMode(request) = rules[SelectInSeq(rules, LAMBDA rule : rule[1])][2]
    BY Zenon DEF DetectMode
  <1> HIDE DEF c1, c2, c3, c4, c5, c6, c7, c8, c9
  <1>2. Len(rules) = 10 /\ rules[10][1] = TRUE
    OBVIOUS
  <1>3. I \in SUBSET Nat /\ I \in SUBSET (1..10)
    <2> HIDE DEF rules
    <2> QED  OBVIOUS
  <1>4. /\ rules[1][1] <=> c1
        /\ rules[2][1] <=> c2
        /\ rules[3][1] <=> c3
        /\ rules[4][1] <=> c4
        /\ rules[5][1] <=> c5
        /\ rules[6][1] <=> c6
        /\ rules[7][1] <=> c7
        /\ rules[8][1] <=> c8
        /\ rules[9][1] <=> c9
    OBVIOUS
  <1>5. /\ 1 \in I <=> c1
        /\ 2 \in I <=> c2
        /\ 3 \in I <=> c3
        /\ 4 \in I <=> c4
        /\ 5 \in I <=> c5
        /\ 6 \in I <=> c6
        /\ 7 \in I <=> c7
        /\ 8 \in I <=> c8
        /\ 9 \in I <=> c9
        /\ 10 \in I
    <2> HIDE DEF rules
    <2> QED  BY <1>2, <1>4
  <1>6. SelectInSeq(rules, LAMBDA rule : rule[1]) = Min(I)
    <2>1. I # {}
      BY <1>5
    <2>2. Min(I) = Min({i \in 1..Len(rules) : rules[i][1]})
      BY <1>2
    <2> HIDE DEF rules
    <2>3. I = {i \in 1..Len(rules) : rules[i][1]}
      BY <1>2
    <2> QED  BY <2>1, <2>3, Zenon DEF SelectInSeq
  <1>7. Min(I) = first
    <2>1. Min(I) \in I /\ \A i \in I : Min(I) <= i
      <3> HIDE DEF I
      <3> QED  BY <1>3, <1>5, MinFacts
    <2> DEFINE m == Min(I)
    <2>2. m \in I /\ \A i \in I : m <= i
      BY <2>1
    <2> HIDE DEF I, m
    <2>3. m \in 1..10
      BY <1>3, <2>2
    <2>4. /\ m = 1 => c1
          /\ m = 2 => c2 /\ ~c1
          /\ m = 3 => c3 /\ ~c1 /\ ~c2
          /\ m = 4 => c4 /\ ~c1 /\ ~c2 /\ ~c3
          /\ m = 5 => c5 /\ ~c1 /\ ~c2 /\ ~c3 /\ ~c4
      BY <1>5, <2>2
    <2>5. /\ m > 5 => ~c1 /\ ~c2 /\ ~c3 /\ ~c4 /\ ~c5
          /\ m > 6 => ~c6
          /\ m > 7 => ~c7
          /\ m > 8 => ~c8
          /\ m > 9 => ~c9
      <3>1. m > 5 => 1 \notin I /\ 2 \notin I /\ 3 \notin I /\ 4 \notin I /\ 5 \notin I
        BY <2>2, <2>3
      <3>2. /\ m > 6 => 6 \notin I
            /\ m > 7 => 7 \notin I
            /\ m > 8 => 8 \notin I
            /\ m > 9 => 9 \notin I
        BY <2>2, <2>3
      <3> QED  BY <1>5, <3>1, <3>2
    <2>6. /\ m = 6 => c6
          /\ m = 7 => c7
          /\ m = 8 => c8
          /\ m = 9 => c9
      BY <1>5, <2>2
    <2> HIDE DEF first
    <2>7. m = first
      <3>1. \/ m = 1 \/ m = 2 \/ m = 3 \/ m = 4 \/ m = 5
            \/ m = 6 \/ m = 7 \/ m = 8 \/ m = 9 \/ m = 10
        BY <2>3
      <3>2. m \in {1, 2, 3, 4, 5} => m = first
        BY <2>4 DEF first
      <3>3. m \in {6, 7, 8, 9, 10} => m = first
        BY <2>5, <2>6 DEF first
      <3> QED  BY <3>1, <3>2, <3>3
    <2> QED  BY <2>7 DEF m
  <1>8. /\ rules[1][2] = "multipart" /\ rules[2][2] = "urlencoded" /\ rules[3][2] = "graphql"
        /\ rules[4][2] = "jsonrpc" /\ rules[5][2] = "msgpack" /\ rules[6][2] = "binary"
        /\ rules[7][2] = "json" /\ rules[8][2] = "xml" /\ rules[9][2] = "text"
        /\ rules[10][2] = "none"
    OBVIOUS
  <1> HIDE DEF rules
  <1>9. DetectMode(request) =
            IF c1 THEN "multipart" ELSE IF c2 THEN "urlencoded" ELSE IF c3 THEN "graphql"
            ELSE IF c4 THEN "jsonrpc" ELSE IF c5 THEN "msgpack" ELSE IF c6 THEN "binary"
            ELSE IF c7 THEN "json" ELSE IF c8 THEN "xml" ELSE IF c9 THEN "text" ELSE "none"
    BY <1>1, <1>6, <1>7, <1>8
  <1> QED  BY <1>9, Zenon DEF c1, c2, c3, c4, c5, c6, c7, c8, c9

\* No pairs at all.
LEMMA NoPairs == <<>> \in Seq(NamedPair) /\ <<>> \in Seq(Pair)
  OBVIOUS

\* A named pair is a header.
LEMMA HeaderTyped ==
    ASSUME NEW pair \in NamedPair
    PROVE  Header(pair[1], pair[2]) \in PlainHeader \cup CookieHeader
  <1>1. pair[1] \in Strings \ {""} /\ pair[2] \in Strings
    BY DEF NamedPair
  <1> QED  BY <1>1, NoPairs DEF Header, PlainHeader, CookieHeader

\* The SOAP action is written into a header.
LEMMA ChangedHeader ==
    ASSUME NEW S, NEW seq \in Seq(S), NEW i \in 1..Len(seq),
           \A x \in S : [x EXCEPT !.value = "soap-action"] \in S
    PROVE  [seq EXCEPT ![i].value = "soap-action"] \in Seq(S)
  OBVIOUS

\* What buildRequest writes: headers with a name, and cookies in one of them.
LEMMA BuiltHeaders ==
    ASSUME NEW f, f.rows.header \in Seq(FormRow), f.rows.cookie \in Seq(FormRow),
           f.action \in Strings
    PROVE  BuildHeaders(f) \in Seq(PlainHeader \cup CookieHeader)
  <1> DEFINE S == PlainHeader \cup CookieHeader
             typed == Pairs(f.rows.header)
             plain == [i \in DOMAIN typed |-> Header(typed[i][1], typed[i][2])]
             jar == Pairs(f.rows.cookie)
             cookies == [Header("Cookie", "") EXCEPT !.cookies = jar]
             all == IF jar = <<>> THEN plain ELSE Append(plain, cookies)
             type == SelectInSeq(all, LAMBDA header : header.name = "Content-Type")
  <1>1. typed \in Seq(NamedPair) /\ jar \in Seq(NamedPair)
    BY PairsTyped
  <1>2. plain \in Seq(S)
    <2> HIDE DEF S, typed
    <2> QED  BY <1>1, HeaderTyped DEF S
  <1>3. cookies \in S
    <2> HIDE DEF jar
    <2> QED  BY <1>1, NoText DEF Header, CookieHeader
  <1>4. all \in Seq(S)
    <2> HIDE DEF S, plain, cookies, jar
    <2> QED  BY <1>2, <1>3
  <1>5. Header("SOAPAction", f.action) \in S
    BY DEF Header, PlainHeader, Strings
  <1>6. ASSUME type # 0
        PROVE  [all EXCEPT ![type].value = "soap-action"] \in Seq(S)
    <2> HIDE DEF S, all
    <2>1. type \in 1..Len(all)
      BY <1>4, <1>6, FirstType
    <2>2. \A header \in S : [header EXCEPT !.value = "soap-action"] \in S
      BY DEF S, PlainHeader, CookieHeader, Strings
    <2> HIDE DEF type
    <2> QED  BY <1>4, <2>1, <2>2, ChangedHeader
  <1>7. BuildHeaders(f) = IF f.mode # "soap" \/ f.action = "" THEN all
                          ELSE IF f.version = "1.1" THEN Append(all, Header("SOAPAction", f.action))
                          ELSE IF type = 0 THEN all
                          ELSE [all EXCEPT ![type].value = "soap-action"]
    BY Zenon DEF BuildHeaders
  <1> HIDE DEF S, all, type
  <1>8. Append(all, Header("SOAPAction", f.action)) \in Seq(S)
    BY <1>4, <1>5
  <1>9. BuildHeaders(f) \in Seq(S)
    BY <1>4, <1>6, <1>7, <1>8, Zenon
  <1> QED  BY <1>9 DEF S

\* What is kept of them holds no cookies.
LEMMA KeptHeaders ==
    ASSUME NEW headers \in Seq(PlainHeader \cup CookieHeader)
    PROVE  NoCookies(headers) \in Seq(PlainHeader)
  <1> DEFINE P == {i \in DOMAIN headers : headers[i].name # "Cookie"}
             S == PlainHeader \cup CookieHeader
  <1>1. \A header \in S : header.name # "Cookie" => header \in PlainHeader
    BY DEF PlainHeader, CookieHeader
  <1>2. P \in SUBSET (DOMAIN headers) /\ \A p \in P : headers[p] \in PlainHeader
    <2> HIDE DEF S
    <2> QED  BY <1>1, SeqElements DEF S
  <1> HIDE DEF P
  <1> QED  BY <1>2, SelectedType DEF NoCookies, P

\* The content types of the body modes are texts.
LEMMA ContentTypeTyped ==
    ASSUME NEW mode \in BodyModes, NEW version \in {"1.1", "1.2"}
    PROVE  ContentTypeOf(mode, version) \in Strings
  BY DEF ContentTypeOf, BodyModes, Strings

\* The rows as a body mode, a SOAP version or a file leaves them.
LEMMA WithTypeTyped ==
    ASSUME NEW rows \in Seq(FormRow), NEW type \in Strings
    PROVE  /\ WithContentType(rows, type) \in Seq(FormRow)
           /\ RebuiltRows(rows, type) \in Seq(FormRow)
  <1>0. "Content-Type" \in Strings /\ \A i \in DOMAIN rows : rows[i] \in FormRow
    BY SeqElements DEF Strings
  <1>1. WithContentType(rows, type) \in Seq(FormRow)
    <2> DEFINE P == {i \in DOMAIN rows : rows[i].key # "Content-Type"}
               others == Selected(rows, P)
               next == IF type = "" THEN others
                       ELSE <<CreateRow("Content-Type", type)>> \o others
    <2>1. P \in SUBSET (DOMAIN rows)
      OBVIOUS
    <2>2. others \in Seq(FormRow)
      <3> HIDE DEF P
      <3> QED  BY <1>0, <2>1, SelectedType
    <2>3. CreateRow("Content-Type", type) \in FormRow
      BY <1>0, CreatedRow
    <2>4. next \in Seq(FormRow)
      <3> DEFINE first == CreateRow("Content-Type", type)
      <3> HIDE DEF others, first, FormRow
      <3>1. <<first>> \o others \in Seq(FormRow)
        BY <2>2, <2>3 DEF first
      <3> QED  BY <2>2, <3>1 DEF first
    <2>5. WithContentType(rows, type) = IF next # <<>> /\ Last(next).key = "" /\ Last(next).value = ""
                                        THEN next ELSE Append(next, BlankRow)
      BY Zenon DEF WithContentType
    <2> HIDE DEF next
    <2> QED  BY <2>4, <2>5, AppendedRow
  <1>2. RebuiltRows(rows, type) \in Seq(FormRow)
    <2> DEFINE P == {i \in DOMAIN rows : rows[i].key \notin {"", "Content-Type"}}
               others == Selected(rows, P)
               shown == [i \in DOMAIN others |-> <<others[i].key, others[i].value>>]
    <2>1. P \in SUBSET (DOMAIN rows)
      OBVIOUS
    <2>2. others \in Seq(FormRow)
      <3> HIDE DEF P
      <3> QED  BY <1>0, <2>1, SelectedType
    <2>3. shown \in Seq(Pair)
      <3>1. \A row \in FormRow : <<row.key, row.value>> \in Pair
        BY DEF FormRow, Pair
      <3> HIDE DEF others
      <3> QED  BY <2>2, <3>1, SeqElements
    <2>4. << <<"Content-Type", type>> >> \in Seq(Pair)
      BY <1>0 DEF Pair
    <2>5. RebuiltRows(rows, type) = RowsFromPairs(<< <<"Content-Type", type>> >> \o shown)
      BY Zenon DEF RebuiltRows
    <2> HIDE DEF shown
    <2>6. << <<"Content-Type", type>> >> \o shown \in Seq(Pair)
      BY <2>3, <2>4
    <2> QED  BY <2>5, <2>6, RowsTyped
  <1> QED  BY <1>1, <1>2

(* What the editor holds, and what is kept of a request.                   *)

Ids == {"", "1", "word", "null", "zero"}
SentIds == {"zero", "number", "word", "null"}

\* what buildRequest makes of the body editors
Bodies == Texts \cup {Bytes} \cup {Graphql(held) : held \in Arguments}
          \cup {Call(id, held) : id \in SentIds, held \in Arguments}
          \cup [is : {"fields"}, pairs : Seq(NamedPair) \ {<<>>}]
          \cup {Packed(text) : text \in Texts}

Files == {Empty, Bytes} \cup {Packed(text) : text \in Texts}

Sources == Texts \cup {Absent} \cup {Graphql(held) : held \in Arguments}
           \cup {CallSource(id, held) : id \in Ids, held \in Arguments}

Credentials == [kind : AuthKinds, source : {"direct", "secret_ref"}, token : Strings,
                secret : Strings, username : Strings, redirect : Strings]

SentAuth == [kind : AuthKinds, secret : Strings, token : Strings, username : Strings,
             redirect : Strings, refs : {"", "own", "theirs"}]

\* what buildAuth writes for each kind
AuthFits(auth) ==
    /\ auth \in SentAuth
    /\ auth.kind = "none" => auth.secret = ""
    /\ auth.kind \notin WithUser => auth.username = ""
    /\ IF auth.kind = "oauth2_authorization_code" THEN auth.refs # ""
       ELSE auth.refs = "" /\ auth.redirect = ""

Forms == [method : {"GET", "POST"}, query : Seq(UrlPair), rows : [Tables -> Seq(FormRow)],
          mode : BodyModes, body : Bodies, file : Files, packed : Texts,
          variables : Arguments, params : Arguments, id : Ids,
          version : {"1.1", "1.2"}, action : {"", "act"}, envelope : {Empty, Words},
          auth : Credentials, options : Strings, environment : Strings]

FormRequests == [method : {"GET", "POST"}, query : Seq(UrlPair),
             headers : Seq(PlainHeader \cup CookieHeader),
             body : Bodies \cup {Absent}, encoding : {"text", "base64"}, source : Sources,
             parts : Seq(NamedPair), auth : SentAuth,
             options : Strings, environment : Strings]

\* which body, encoding and kept text come together
Carried(r) ==
    /\ r.parts # <<>> => r.encoding = "text" /\ r.source = Absent /\ r.body = Absent
    /\ IF r.encoding = "text"
       THEN \/ r.source = Absent
            \/ \E held \in Arguments : r.source = Graphql(held) /\ r.body \in {Absent, Graphql(held)}
            \/ \E id \in Ids, held \in Arguments :
                   r.source = CallSource(id, held) /\ r.body \in {Absent, Call(SentId(id), held)}
       ELSE \/ r.source = Absent /\ r.body \in Files \cup {Absent}
            \/ r.source \in Texts /\ r.body \in {Absent, Packed(r.source)}
    /\ r.method = "GET" => r.body = Absent
    /\ r.method = "POST" /\ r.body = Absent => r.encoding = "text" /\ r.source = Absent

\* a request that was kept, and one the design was written into besides
Safe(r) ==
    /\ r \in FormRequests
    /\ Carried(r)
    /\ r.auth.token = ""
    /\ AuthFits(r.auth)

Keepable(r) == Safe(r) /\ r.headers \in Seq(PlainHeader)

\* How texts, bodies, files and kept texts lie in one another.
LEMMA TextFacts ==
    /\ Texts \subseteq Bodies /\ Empty \in Texts /\ Words \in Texts /\ Object \in Texts
    /\ Empty \in Files /\ Bytes \in Files /\ Files \subseteq Bodies
    /\ \A held \in Arguments : Graphql(held) \in Bodies /\ Graphql(held) \in Sources
    /\ \A text \in Texts : Packed(text) \in Files
    /\ Absent \in Sources /\ Texts \subseteq Sources
    /\ \A id \in Ids, held \in Arguments : CallSource(id, held) \in Sources
    /\ \A id \in Ids : SentId(id) \in SentIds
    /\ \A id \in SentIds, held \in Arguments : Call(id, held) \in Bodies
  <1>1. /\ Texts \subseteq Bodies /\ Empty \in Texts /\ Words \in Texts /\ Object \in Texts
        /\ \A held \in Arguments : Graphql(held) \in Bodies
    <2>1. Texts \subseteq Bodies /\ \A held \in Arguments : Graphql(held) \in Bodies
      BY DEF Bodies
    <2>2. Empty \in Texts /\ Words \in Texts /\ Object \in Texts
      BY DEF Texts
    <2> QED  BY <2>1, <2>2
  <1>2. /\ Empty \in Files /\ Bytes \in Files
        /\ \A text \in Texts : Packed(text) \in Files
    BY DEF Files
  <1>3. Files \subseteq Bodies
    <2>1. Bytes \in Bodies /\ \A text \in Texts : Packed(text) \in Bodies
      BY DEF Bodies
    <2> QED  BY <1>1, <2>1 DEF Files
  <1>4. \A id \in SentIds, held \in Arguments : Call(id, held) \in Bodies
    BY DEF Bodies
  <1>5. /\ Absent \in Sources /\ Texts \subseteq Sources
        /\ \A held \in Arguments : Graphql(held) \in Sources
        /\ \A id \in Ids, held \in Arguments : CallSource(id, held) \in Sources
    BY DEF Sources
  <1>6. \A id \in Ids : SentId(id) \in SentIds
    BY DEF Ids, SentIds, SentId
  <1> QED  BY <1>1, <1>2, <1>3, <1>4, <1>5, <1>6

\* One of the tables is replaced.
LEMMA TablesApart ==
    ASSUME NEW rows \in [Tables -> Seq(FormRow)], NEW table \in Tables, NEW next \in Seq(FormRow)
    PROVE  [rows EXCEPT ![table] = next] \in [Tables -> Seq(FormRow)]
  OBVIOUS

\* one table of a form is replaced
LEMMA WithRows ==
    ASSUME NEW f \in Forms, NEW table \in Tables, NEW next \in Seq(FormRow)
    PROVE  /\ [f EXCEPT !.rows[table] = next] \in Forms
           /\ f.rows[table] \in Seq(FormRow)
  <1>1. f.rows \in [Tables -> Seq(FormRow)]
    BY DEF Forms
  <1>2. [f.rows EXCEPT ![table] = next] \in [Tables -> Seq(FormRow)]
    BY <1>1, TablesApart
  <1> HIDE DEF FormRow
  <1>3. [f EXCEPT !.rows = [f.rows EXCEPT ![table] = next]] \in Forms
    <2> DEFINE rows == [f.rows EXCEPT ![table] = next]
    <2>1. rows \in [Tables -> Seq(FormRow)]
      BY <1>2
    <2> HIDE DEF rows
    <2> QED  BY <2>1 DEF Forms
  <1> QED  BY <1>1, <1>3

\* A new form is one the editor can hold.
LEMMA NewForms ==
    ASSUME NEW method \in {"GET", "POST"}
    PROVE  NewForm(method) \in Forms
  <1> DEFINE rows == [table \in Tables |-> <<BlankRow>>]
  <1>1. rows \in [Tables -> Seq(FormRow)]
    <2>1. BlankRow \in FormRow
      BY CreatedRow
    <2> HIDE DEF FormRow
    <2> QED  BY <2>1
  <1>2. NoAuth \in Credentials /\ "default" \in Strings /\ "default-env" \in Strings
    BY DEF NoAuth, Credentials, Strings, AuthKinds
  <1>3. NewForm(method).rows = rows
    BY DEF NewForm, Tables
  <1>4. <<>> \in Seq(UrlPair) /\ "object" \in Arguments
    BY DEF Arguments
  <1> QED  BY <1>1, <1>2, <1>3, <1>4, TextFacts DEF Forms, NewForm, Tables, BodyModes, Ids

------------------------------------------------------------------------------
(* Every action keeps the types of the form.                               *)

\* The query and the method are changed.
LEMMA EditTyped ==
    ASSUME NEW f \in Forms
    PROVE  /\ \A rows \in Seq(FormRow) : Pairs(rows) \in Seq(Pair)
           /\ \A query \in Seq(UrlPair) : [f EXCEPT !.query = query] \in Forms
           /\ \A method \in {"GET", "POST"} : [f EXCEPT !.method = method] \in Forms
  <1>1. \A rows \in Seq(FormRow) : Pairs(rows) \in Seq(Pair)
    BY PairsTyped, NamedAll
  <1> QED  BY <1>1 DEF Forms

\* Change on its own: the new form and what else it touches.
LEMMA QueryEdited ==
    ASSUME NEW f \in Forms, NEW rows \in Seq(FormRow)
    PROVE  LET next == [f EXCEPT !.rows.query = rows, !.query = Pairs(rows)]
           IN  next \in Forms /\ next.query = Pairs(rows) /\ next.rows.query = rows
  <1>1. "query" \in Tables
    BY DEF Tables
  <1>2. [f EXCEPT !.rows["query"] = rows] \in Forms
    BY <1>1, WithRows
  <1>3. Pairs(rows) \in Seq(UrlPair)
    BY EditTyped, UrlPairs
  <1>4. f.rows \in [Tables -> Seq(FormRow)]
    BY DEF Forms
  <1> DEFINE all == [f.rows EXCEPT !["query"] = rows]
             next == [f EXCEPT !.rows = all, !.query = Pairs(rows)]
  <1>5. all \in [Tables -> Seq(FormRow)] /\ all.query = rows
    <2> HIDE DEF FormRow
    <2> QED  BY <1>1, <1>4, TablesApart
  <1>6. next \in Forms /\ next.query = Pairs(rows) /\ next.rows = all
    <2> HIDE DEF all
    <2> QED  BY <1>3, <1>5 DEF Forms
  <1> HIDE DEF FormRow
  <1> QED  BY <1>5, <1>6

\* The body editors.
LEMMA BodyTyped ==
    ASSUME NEW f \in Forms
    PROVE  /\ \A text \in Texts : [f EXCEPT !.body = text] \in Forms
           /\ \A text \in Texts : [f EXCEPT !.packed = text] \in Forms
           /\ \A file \in {Empty, Bytes} : [f EXCEPT !.file = file] \in Forms
           /\ \A held \in Arguments : [f EXCEPT !.variables = held] \in Forms
           /\ \A held \in Arguments : [f EXCEPT !.params = held] \in Forms
           /\ \A id \in RpcIds : [f EXCEPT !.id = id] \in Forms
           /\ \A version \in {"1.1", "1.2"} : [f EXCEPT !.version = version] \in Forms
           /\ [f EXCEPT !.action = IF @ = "" THEN "act" ELSE ""] \in Forms
           /\ [f EXCEPT !.envelope = IF @ = Empty THEN Words ELSE Empty] \in Forms
  <1>1. /\ \A text \in Texts : [f EXCEPT !.body = text] \in Forms
        /\ \A text \in Texts : [f EXCEPT !.packed = text] \in Forms
        /\ \A file \in {Empty, Bytes} : [f EXCEPT !.file = file] \in Forms
    BY TextFacts DEF Forms
  <1>2. /\ \A held \in Arguments : [f EXCEPT !.variables = held] \in Forms
        /\ \A held \in Arguments : [f EXCEPT !.params = held] \in Forms
    BY DEF Forms
  <1>3. \A id \in RpcIds : [f EXCEPT !.id = id] \in Forms
    BY DEF Forms, RpcIds, Ids
  <1>4. /\ \A version \in {"1.1", "1.2"} : [f EXCEPT !.version = version] \in Forms
        /\ [f EXCEPT !.action = IF @ = "" THEN "act" ELSE ""] \in Forms
        /\ [f EXCEPT !.envelope = IF @ = Empty THEN Words ELSE Empty] \in Forms
    BY DEF Forms
  <1> QED  BY <1>1, <1>2, <1>3, <1>4

\* The credentials, the options and the environment are changed.
LEMMA AuthTyped ==
    ASSUME NEW f \in Forms
    PROVE  /\ \A kind \in AuthKinds : [f EXCEPT !.auth.kind = kind] \in Forms
           /\ \A token \in {"", "t"} :
                  [f EXCEPT !.auth.source = "direct", !.auth.token = token] \in Forms
           /\ \A secret \in {"", "s"} : [f EXCEPT !.auth.secret = secret] \in Forms
           /\ \A username \in {"", "u"} : [f EXCEPT !.auth.username = username] \in Forms
           /\ \A redirect \in {"", "callback"} : [f EXCEPT !.auth.redirect = redirect] \in Forms
           /\ \A option \in {"default", "other"} : [f EXCEPT !.options = option] \in Forms
           /\ \A name \in {"default-env", "other-env"} : [f EXCEPT !.environment = name] \in Forms
  <1>1. f.auth \in Credentials
    BY DEF Forms
  <1>2. \A auth \in Credentials : [f EXCEPT !.auth = auth] \in Forms
    BY DEF Forms
  <1>3. /\ \A kind \in AuthKinds : [f.auth EXCEPT !.kind = kind] \in Credentials
        /\ \A token \in {"", "t"} :
               [f.auth EXCEPT !.source = "direct", !.token = token] \in Credentials
        /\ \A secret \in {"", "s"} : [f.auth EXCEPT !.secret = secret] \in Credentials
        /\ \A username \in {"", "u"} : [f.auth EXCEPT !.username = username] \in Credentials
        /\ \A redirect \in {"", "callback"} : [f.auth EXCEPT !.redirect = redirect] \in Credentials
    BY <1>1 DEF Credentials, Strings
  <1>4. /\ \A kind \in AuthKinds :
               [f EXCEPT !.auth.kind = kind] = [f EXCEPT !.auth = [f.auth EXCEPT !.kind = kind]]
        /\ \A token \in {"", "t"} :
               [f EXCEPT !.auth.source = "direct", !.auth.token = token]
                   = [f EXCEPT !.auth = [f.auth EXCEPT !.source = "direct", !.token = token]]
        /\ \A x :
               /\ [f EXCEPT !.auth.secret = x] = [f EXCEPT !.auth = [f.auth EXCEPT !.secret = x]]
               /\ [f EXCEPT !.auth.username = x] = [f EXCEPT !.auth = [f.auth EXCEPT !.username = x]]
               /\ [f EXCEPT !.auth.redirect = x] = [f EXCEPT !.auth = [f.auth EXCEPT !.redirect = x]]
    BY DEF Forms
  <1>5. /\ \A option \in {"default", "other"} : [f EXCEPT !.options = option] \in Forms
        /\ \A name \in {"default-env", "other-env"} : [f EXCEPT !.environment = name] \in Forms
    BY DEF Forms, Strings
  <1> QED  BY <1>2, <1>3, <1>4, <1>5

\* Headers without cookies, as the form shows them again.
LEMMA PlainBack ==
    ASSUME NEW headers \in Seq(PlainHeader)
    PROVE  /\ HeaderPairs(headers) \in Seq(NamedPair)
           /\ NoCookies(headers) = headers
           /\ [i \in DOMAIN HeaderPairs(headers) |->
                  Header(HeaderPairs(headers)[i][1], HeaderPairs(headers)[i][2])] = headers
           /\ CookiePairs(headers) = <<>>
  <1> DEFINE n == Len(headers)
             pairs == [i \in 1..n |-> <<headers[i].name, headers[i].value>>]
  <1>1. n \in Nat /\ DOMAIN headers = 1..n /\ headers = [i \in 1..n |-> headers[i]]
        /\ \A i \in 1..n : headers[i] \in PlainHeader
    BY SeqElements
  <1>2. \A header \in PlainHeader :
            /\ header.name # "Cookie" /\ <<header.name, header.value>> \in NamedPair
            /\ Header(header.name, header.value) = header
    <2>1. ASSUME NEW header \in PlainHeader
          PROVE  /\ header.name # "Cookie" /\ header.name \in Strings \ {""}
                 /\ header.value \in Strings
                 /\ header = [name |-> header.name, value |-> header.value, cookies |-> <<>>]
      <3> DEFINE none == <<>>
                 names == Strings \ {"", "Cookie"}
      <3>1. header \in [name : names, value : Strings, cookies : {none}]
        BY Zenon DEF PlainHeader
      <3> HIDE DEF none, names
      <3>2. header = [name |-> header.name, value |-> header.value, cookies |-> none]
            /\ header.name \in names /\ header.value \in Strings
        BY <3>1
      <3> QED  BY <3>2 DEF none, names
    <2> QED  BY <2>1 DEF NamedPair, Header
  <1> HIDE DEF PlainHeader
  <1>3. {i \in DOMAIN headers : headers[i].name # "Cookie"} = 1..n
    BY <1>1, <1>2
  <1>4. NoCookies(headers) = headers
    <2>1. n \in 0..n
      BY <1>1
    <2> QED  BY <1>1, <1>3, <2>1, SelectedAll DEF NoCookies
  <1>5. HeaderPairs(headers) = pairs
    BY <1>1, <1>4 DEF HeaderPairs
  <1>6. pairs \in Seq(NamedPair) /\ DOMAIN pairs = 1..n
    <2> HIDE DEF n, NamedPair
    <2> QED  BY <1>1, <1>2
  <1>7. [i \in 1..n |-> Header(pairs[i][1], pairs[i][2])] = headers
    <2>1. \A i \in 1..n : Header(pairs[i][1], pairs[i][2]) = headers[i]
      BY <1>1, <1>2
    <2> HIDE DEF pairs
    <2> QED  BY <1>1, <2>1
  <1>8. CookiePairs(headers) = <<>>
    <2> DEFINE jars == [i \in 1..n |-> <<>>]
    <2>1. [i \in DOMAIN headers |->
              IF headers[i].name = "Cookie" THEN headers[i].cookies ELSE <<>>] = jars
      BY <1>1, <1>2
    <2>2. FlattenSeq(jars) = <<>>
      <3>1. CASE n = 0
        <4>1. jars = <<>>
          BY <3>1
        <4> QED  BY <4>1, FlattenNothing
      <3>2. CASE n # 0
        <4>1. jars \in Seq(Seq(NamedPair)) /\ Len(jars) = n
          <5> DEFINE T == Seq(NamedPair)
                     none == <<>>
          <5>1. none \in T
            BY NoPairs
          <5> HIDE DEF n, T, none
          <5>2. [i \in 1..n |-> none] \in Seq(T) /\ Len([i \in 1..n |-> none]) = n
            BY <1>1, <5>1
          <5> QED  BY <5>2 DEF none, T
        <4>2. n \in Nat \ {0} /\ \A i \in 1..(n - 1) : jars[i] = <<>>
          BY <1>1, <3>2
        <4>3. jars[n] = <<>>
          BY <1>1, <3>2
        <4> HIDE DEF jars, n
        <4> QED  BY <4>1, <4>2, <4>3, FlattenLast
      <3> QED  BY <3>1, <3>2
    <2>3. Named(<<>>) = <<>>
      BY NoPairs, NamedAll
    <2> QED  BY <2>1, <2>2, <2>3 DEF CookiePairs
  <1> QED  BY <1>4, <1>5, <1>6, <1>7, <1>8

\* the header the design is written into
Designed == [Header("Cookie", "") EXCEPT !.cookies = << <<"a", "v">> >>]

\* So is the cookie of a design, in its own table.
LEMMA DesignedBack ==
    ASSUME NEW plain \in Seq(PlainHeader), NEW headers, headers = Append(plain, Designed)
    PROVE  /\ headers \in Seq(PlainHeader \cup CookieHeader)
           /\ HeaderPairs(headers) = HeaderPairs(plain)
           /\ CookiePairs(headers) = << <<"a", "v">> >>
           /\ << <<"a", "v">> >> \in Seq(NamedPair)
  <1> DEFINE n == Len(plain)
             S == PlainHeader \cup CookieHeader
             jar == << <<"a", "v">> >>
  <1>1. n \in Nat /\ DOMAIN plain = 1..n /\ plain = [i \in 1..n |-> plain[i]]
        /\ \A i \in 1..n : plain[i] \in PlainHeader
    BY SeqElements
  <1>2. jar \in Seq(NamedPair)
    <2>1. <<"a", "v">> \in NamedPair
      BY DEF NamedPair, Strings
    <2> DEFINE pair == <<"a", "v">>
    <2> HIDE DEF pair
    <2>2. << pair >> \in Seq(NamedPair)
      BY <2>1 DEF pair
    <2> QED  BY <2>2 DEF pair
  <1>3. Designed \in CookieHeader /\ Designed.name = "Cookie" /\ Designed.cookies = jar
    <2> HIDE DEF jar
    <2> QED  BY <1>2, NoText DEF Designed, Header, CookieHeader, jar
  <1>4. plain \in Seq(S)
    BY SeqWiden
  <1>5. headers \in Seq(S) /\ DOMAIN headers = 1..(n + 1) /\ headers[n + 1] = Designed
        /\ Len(headers) = n + 1
        /\ \A i \in 1..n : headers[i] = plain[i]
    <2>1. Designed \in S
      BY <1>3
    <2> HIDE DEF S
    <2> QED  BY <1>4, <2>1
  <1>6. \A header \in PlainHeader : header.name # "Cookie"
    BY DEF PlainHeader
  <1>7. {i \in DOMAIN headers : headers[i].name # "Cookie"} = 1..n
    <2>1. \A i \in 1..(n + 1) : i \in 1..n \/ i = n + 1
      BY <1>1
    <2>2. 1..n \subseteq 1..(n + 1)
      BY <1>1
    <2> HIDE DEF n
    <2> QED  BY <1>1, <1>3, <1>5, <1>6, <2>1, <2>2
  <1>8. NoCookies(headers) = plain
    <2>1. n \in 0..Len(headers)
      BY <1>1, <1>5
    <2>2. Selected(headers, 1..n) = [i \in 1..n |-> headers[i]]
      BY <1>1, NthOfAll DEF Selected
    <2> QED  BY <1>1, <1>5, <1>7, <2>2 DEF NoCookies
  <1>9. HeaderPairs(headers) = HeaderPairs(plain)
    <2>1. NoCookies(plain) = plain
      BY PlainBack
    <2> QED  BY <1>8, <2>1 DEF HeaderPairs
  <1>10. CookiePairs(headers) = jar
    <2> DEFINE jars == [i \in DOMAIN headers |->
                           IF headers[i].name = "Cookie" THEN headers[i].cookies ELSE <<>>]
    <2>1. /\ DOMAIN jars = 1..(n + 1)
          /\ jars[n + 1] = jar
          /\ \A i \in 1..n : jars[i] = <<>>
      <3>1. \A i \in 1..n : headers[i].name # "Cookie" /\ i \in 1..(n + 1)
        BY <1>1, <1>5, <1>6
      <3>2. n + 1 \in 1..(n + 1)
        BY <1>1
      <3> HIDE DEF n, jar
      <3> QED  BY <1>3, <1>5, <3>1, <3>2
    <2>2. jars \in Seq(Seq(NamedPair)) /\ Len(jars) = n + 1
      <3>1. \A i \in 1..(n + 1) : jars[i] \in Seq(NamedPair)
        <4>1. \A i \in 1..(n + 1) : i \in 1..n \/ i = n + 1
          BY <1>1
        <4> HIDE DEF jars, jar, NamedPair
        <4> QED  BY <1>2, <2>1, <4>1, NoPairs
      <3>2. jars = [i \in 1..(n + 1) |-> jars[i]]
        BY <2>1
      <3> HIDE DEF jars
      <3>3. n + 1 \in Nat
        BY <1>1
      <3> QED  BY <3>1, <3>2, <3>3
    <2>3. FlattenSeq(jars) = jar
      <3> DEFINE m == n + 1
      <3>1. m \in Nat \ {0} /\ \A i \in 1..(m - 1) : jars[i] = <<>>
        <4>1. m \in Nat \ {0} /\ m - 1 = n
          BY <1>1
        <4> HIDE DEF m, jars, n
        <4> QED  BY <2>1, <4>1
      <3>2. jars[m] = jar /\ Len(jars) = m
        BY <2>1, <2>2
      <3> HIDE DEF jars, m, jar
      <3> QED  BY <2>2, <3>1, <3>2, FlattenLast
    <2>4. Named(jar) = jar
      BY <1>2, NamedAll
    <2> QED  BY <2>3, <2>4 DEF CookiePairs
  <1> QED  BY <1>2, <1>5, <1>9, <1>10

\* Headers that are shown and sent again are the headers that were opened.
LEMMA HeadersBack ==
    ASSUME NEW f, NEW headers, NEW plain \in Seq(PlainHeader),
           headers = plain \/ headers = Append(plain, Designed),
           f.rows.header = RowsFromPairs(HeaderPairs(headers)),
           f.rows.cookie = RowsFromPairs(CookiePairs(headers)),
           f.mode # "soap"
    PROVE  BuildHeaders(f) = headers
  <1> DEFINE pairs == HeaderPairs(plain)
             typed == Pairs(f.rows.header)
             jar == Pairs(f.rows.cookie)
             shown == [i \in DOMAIN typed |-> Header(typed[i][1], typed[i][2])]
  <1>1. pairs \in Seq(NamedPair) /\ HeaderPairs(headers) = pairs
    BY PlainBack, DesignedBack
  <1>2. typed = pairs
    BY <1>1, NamedAll, RoundTrip
  <1>3. CookiePairs(headers) \in Seq(NamedPair)
    BY PlainBack, DesignedBack, NoPairs
  <1>4. jar = CookiePairs(headers)
    BY <1>3, NamedAll, RoundTrip
  <1>5. shown = plain
    BY <1>2, PlainBack
  <1>6. BuildHeaders(f) = IF jar = <<>> THEN shown
                          ELSE Append(shown, [Header("Cookie", "") EXCEPT !.cookies = jar])
    BY Zenon DEF BuildHeaders
  <1> HIDE DEF jar, shown
  <1>7. CASE headers = plain
    <2>1. jar = <<>>
      BY <1>4, <1>7, PlainBack
    <2> QED  BY <1>5, <1>6, <1>7, <2>1
  <1>8. CASE headers = Append(plain, Designed)
    <2>1. jar = << <<"a", "v">> >>
      BY <1>4, <1>8, DesignedBack
    <2>2. << <<"a", "v">> >> # <<>>
      OBVIOUS
    <2> QED  BY <1>5, <1>6, <1>8, <2>1, <2>2, Zenon DEF Designed
  <1> QED  BY <1>7, <1>8

\* The body of each mode, with its encoding and kept text.
LEMMA BuiltBody ==
    ASSUME NEW f \in Forms
    PROVE  /\ BuildBody(f) \in Bodies \cup {Absent}
           /\ BuildSource(f) \in Sources
           /\ BuildRequest(f).parts \in Seq(NamedPair)
           /\ Carried(BuildRequest(f))
  <1> DEFINE body == BuildBody(f)
             source == BuildSource(f)
             encoding == IF f.mode \in {"binary", "msgpack"} THEN "base64" ELSE "text"
             parts == IF f.mode = "multipart" THEN Pairs(f.rows.part) ELSE <<>>
  <1>1. /\ f.mode \in BodyModes /\ f.method \in {"GET", "POST"} /\ f.body \in Bodies
        /\ f.file \in Files /\ f.packed \in Texts /\ f.id \in Ids
        /\ f.envelope \in {Empty, Words} /\ f.variables \in Arguments /\ f.params \in Arguments
        /\ f.rows.field \in Seq(FormRow) /\ f.rows.part \in Seq(FormRow)
    BY DEF Forms, Tables
  <1>2. parts \in Seq(NamedPair)
    BY <1>1, NoPairs, PairsTyped
  <1>3. Joined(Pairs(f.rows.field)) \in Bodies
    <2> DEFINE pairs == Pairs(f.rows.field)
    <2>1. pairs \in Seq(NamedPair)
      BY <1>1, PairsTyped
    <2> DEFINE some == Seq(NamedPair) \ {<<>>}
    <2>2. pairs # <<>> => pairs \in some
      BY <2>1
    <2> HIDE DEF pairs, some
    <2>3. pairs # <<>> => [is |-> "fields", pairs |-> pairs] \in [is : {"fields"}, pairs : some]
      BY <2>2
    <2>4. Joined(pairs) = IF pairs = <<>> THEN Empty ELSE [is |-> "fields", pairs |-> pairs]
      BY Zenon DEF Joined
    <2>5. Joined(pairs) \in Bodies
      <3>1. [is : {"fields"}, pairs : some] \subseteq Bodies
        <4> HIDE DEF some
        <4> QED  BY DEF Bodies, some
      <3>2. Empty \in Bodies
        BY TextFacts
      <3> QED  BY <2>3, <2>4, <3>1, <3>2, Zenon
    <2> QED  BY <2>5 DEF pairs
  <1>4. body = IF f.method = "GET" THEN Absent
               ELSE IF f.mode \in {"none", "multipart"} THEN Absent
               ELSE IF f.mode = "urlencoded" THEN Joined(Pairs(f.rows.field))
               ELSE IF f.mode = "graphql" THEN Graphql(f.variables)
               ELSE IF f.mode = "jsonrpc" THEN Call(SentId(f.id), f.params)
               ELSE IF f.mode = "soap" THEN f.envelope
               ELSE IF f.mode = "binary" THEN f.file
               ELSE IF f.mode = "msgpack" THEN Packed(f.packed)
               ELSE f.body
    BY DEF BuildBody
  <1>5. source = IF f.mode = "msgpack" THEN f.packed
                 ELSE IF f.mode = "graphql" THEN Graphql(f.variables)
                 ELSE IF f.mode = "jsonrpc" THEN CallSource(f.id, f.params)
                 ELSE Absent
    BY DEF BuildSource
  <1>6. body \in Bodies \cup {Absent} /\ source \in Sources
    <2>1. body \in Bodies \cup {Absent}
      <3> HIDE DEF body
      <3> QED  BY <1>1, <1>3, <1>4, TextFacts
    <2>2. source \in Sources
      <3> HIDE DEF source
      <3> QED  BY <1>1, <1>5, TextFacts
    <2> QED  BY <2>1, <2>2
  <1> DEFINE r == BuildRequest(f)
  <1>7. r.method = f.method /\ r.body = body /\ r.encoding = encoding /\ r.source = source /\ r.parts = parts
    BY DEF BuildRequest
  <1>8. Carried(r)
    <2>0. /\ \A text \in Texts : text # Absent
          /\ Joined(Pairs(f.rows.field)) # Absent
          /\ \A id, held : CallSource(id, held) # Absent
      BY DEF Texts, Empty, Words, Object, Graphql, Call, Absent, Joined, CallSource
    <2> HIDE DEF r, body, source, parts
    <2>1. r.parts # <<>> => r.encoding = "text" /\ r.source = Absent /\ r.body = Absent
      <3>1. parts # <<>> => f.mode = "multipart"
        BY DEF parts
      <3> QED  BY <1>4, <1>5, <1>7, <3>1
    <2>2. \A b : b \in Bodies => b # Absent
      BY DEF Bodies, Texts, Empty, Words, Object, Graphql, Call, Absent, Bytes, Packed
    <2>3. r.method = "GET" => r.body = Absent
      BY <1>4, <1>7
    <2>4. r.method = "POST" /\ r.body = Absent => r.encoding = "text" /\ r.source = Absent
      BY <1>1, <1>3, <1>4, <1>5, <1>7, <2>2, TextFacts DEF BodyModes
    <2>5. IF r.encoding = "text"
          THEN \/ r.source = Absent
               \/ \E held \in Arguments :
                      r.source = Graphql(held) /\ r.body \in {Absent, Graphql(held)}
               \/ \E id \in Ids, held \in Arguments :
                      r.source = CallSource(id, held) /\ r.body \in {Absent, Call(SentId(id), held)}
          ELSE \/ r.source = Absent /\ r.body \in Files \cup {Absent}
               \/ r.source \in Texts /\ r.body \in {Absent, Packed(r.source)}
      <3>1. CASE f.mode = "jsonrpc"
        BY <1>1, <1>4, <1>5, <1>7, <3>1
      <3>2. CASE f.mode = "graphql"
        BY <1>1, <1>4, <1>5, <1>7, <3>2
      <3>3. CASE f.mode \notin {"graphql", "jsonrpc"}
        BY <1>1, <1>4, <1>5, <1>7, <3>3
      <3> QED  BY <3>1, <3>2, <3>3
    <2> QED  BY <2>1, <2>3, <2>4, <2>5 DEF Carried
  <1> QED  BY <1>2, <1>6, <1>7, <1>8

\* What buildRequest writes has the shape of a request.
LEMMA BuiltRequest ==
    ASSUME NEW f \in Forms
    PROVE  /\ BuildRequest(f) \in FormRequests
           /\ AuthFits(BuildRequest(f).auth)
  <1> DEFINE r == BuildRequest(f)
             auth == BuildAuth(f.auth)
             encoding == IF f.mode \in {"binary", "msgpack"} THEN "base64" ELSE "text"
             parts == IF f.mode = "multipart" THEN Pairs(f.rows.part) ELSE <<>>
             headers == BuildHeaders(f)
  <1>1. /\ f.method \in {"GET", "POST"} /\ f.query \in Seq(UrlPair)
        /\ f.auth \in Credentials /\ f.options \in Strings /\ f.environment \in Strings
        /\ f.rows.header \in Seq(FormRow) /\ f.rows.cookie \in Seq(FormRow)
        /\ f.action \in {"", "act"}
    BY DEF Forms, Tables
  <1>2. headers \in Seq(PlainHeader \cup CookieHeader)
    <2>1. f.action \in Strings
      BY <1>1 DEF Strings
    <2> QED  BY <1>1, <2>1, BuiltHeaders
  <1>3. auth \in SentAuth /\ AuthFits(auth)
    BY <1>1, NoText DEF Credentials, BuildAuth, SentAuth, AuthFits, WithUser
  <1>4. BuildBody(f) \in Bodies \cup {Absent} /\ BuildSource(f) \in Sources
        /\ parts \in Seq(NamedPair)
    BY BuiltBody DEF BuildRequest
  <1>5. encoding \in {"text", "base64"}
    OBVIOUS
  <1>6. r = [method |-> f.method, query |-> f.query, headers |-> headers,
             body |-> BuildBody(f), encoding |-> encoding, source |-> BuildSource(f),
             parts |-> parts, auth |-> auth, options |-> f.options,
             environment |-> f.environment]
    BY DEF BuildRequest
  <1> DEFINE body == BuildBody(f)
             source == BuildSource(f)
  <1> HIDE DEF r, headers, body, encoding, source, parts, auth
  <1>7. r \in FormRequests
    BY <1>1, <1>2, <1>3, <1>4, <1>5, <1>6 DEF FormRequests
  <1>8. r.auth = auth
    BY <1>6
  <1> QED  BY <1>3, <1>7, <1>8 DEF r

\* What the store and the history keep of it.
LEMMA KeptRequest ==
    ASSUME NEW f \in Forms
    PROVE  /\ Keepable(ToEnvelope(Sanitized(BuildRequest(f))))
           /\ Keepable(ToInvokeRequest(Sanitized(BuildRequest(f))))
  <1> DEFINE r == BuildRequest(f)
             headers == NoCookies(r.headers)
             auth == [r.auth EXCEPT !.token = ""]
  <1>1. r \in FormRequests /\ Carried(r) /\ AuthFits(r.auth)
    BY BuiltBody, BuiltRequest
  <1> HIDE DEF r
  <1>2. headers \in Seq(PlainHeader) /\ headers \in Seq(PlainHeader \cup CookieHeader)
    <2>1. r.headers \in Seq(PlainHeader \cup CookieHeader)
      BY <1>1 DEF FormRequests
    <2>2. headers \in Seq(PlainHeader)
      BY <2>1, KeptHeaders
    <2> HIDE DEF headers
    <2> QED  BY <2>2, SeqWiden
  <1>3. auth \in SentAuth /\ auth.token = "" /\ AuthFits(auth)
    BY <1>1, NoText DEF AuthFits, SentAuth
  <1>4. ASSUME NEW environment \in Strings
        PROVE  Keepable([Sanitized(r) EXCEPT !.environment = environment])
    <2> DEFINE next == [r EXCEPT !.headers = headers, !.auth = auth, !.environment = environment]
    <2>1. [Sanitized(r) EXCEPT !.environment = environment] = next
      BY <1>1 DEF Sanitized, FormRequests
    <2> HIDE DEF headers, auth
    <2>2. next \in FormRequests /\ next.headers = headers /\ next.auth = auth
      BY <1>1, <1>2, <1>3 DEF FormRequests
    <2>3. /\ next.method = r.method /\ next.body = r.body /\ next.encoding = r.encoding
          /\ next.source = r.source /\ next.parts = r.parts
      BY <1>1 DEF FormRequests
    <2> HIDE DEF next
    <2>4. Carried(next)
      BY <1>1, <2>3 DEF Carried
    <2> QED  BY <1>2, <1>3, <2>1, <2>2, <2>4 DEF Keepable, Safe
  <1>5. "default-env" \in Strings
    BY DEF Strings
  <1> QED  BY <1>4, <1>5, NoText DEF ToEnvelope, ToInvokeRequest, CreateHttpRequest, r

\* A snapshot opens like the request it was made from, in another environment.
LEMMA SnapshotKept ==
    ASSUME NEW r, Keepable(r)
    PROVE  /\ Keepable(FromSnapshot(r)) /\ FromStored(r) = r
           /\ FromSnapshot(r).headers = r.headers /\ FromSnapshot(r).method = r.method
           /\ FromSnapshot(r).query = r.query /\ FromSnapshot(r).body = r.body
           /\ FromSnapshot(r).encoding = r.encoding /\ FromSnapshot(r).source = r.source
           /\ FromSnapshot(r).parts = r.parts /\ FromSnapshot(r).auth = r.auth
           /\ FromSnapshot(r).options = r.options
  <1> DEFINE next == [r EXCEPT !.environment = ""]
  <1>1. r \in FormRequests /\ Carried(r) /\ r.headers \in Seq(PlainHeader) /\ r.auth.token = ""
        /\ AuthFits(r.auth)
    BY DEF Keepable, Safe
  <1>2. /\ next \in FormRequests /\ next.headers = r.headers /\ next.method = r.method
        /\ next.query = r.query /\ next.body = r.body /\ next.encoding = r.encoding
        /\ next.source = r.source /\ next.parts = r.parts /\ next.auth = r.auth
        /\ next.options = r.options
    BY <1>1, NoText DEF FormRequests
  <1> HIDE DEF next
  <1>3. Carried(next)
    BY <1>1, <1>2 DEF Carried
  <1>4. Keepable(next)
    BY <1>1, <1>2, <1>3 DEF Keepable, Safe
  <1>5. FromSnapshot(r) = next
    BY DEF FromSnapshot, next
  <1> QED  BY <1>2, <1>4, <1>5 DEF FromStored

\* So does the draft the design was written into.
LEMMA DesignedKept ==
    ASSUME NEW r, Keepable(r), NEW designed,
           designed = [r EXCEPT !.headers = Append(@, Designed)]
    PROVE  Safe(designed) /\ designed.headers = Append(r.headers, Designed)
  <1> DEFINE headers == Append(r.headers, Designed)
  <1>1. r \in FormRequests /\ Carried(r) /\ r.headers \in Seq(PlainHeader) /\ r.auth.token = ""
        /\ AuthFits(r.auth)
    BY DEF Keepable, Safe
  <1>2. headers \in Seq(PlainHeader \cup CookieHeader)
    BY <1>1, DesignedBack
  <1>3. designed = [r EXCEPT !.headers = headers]
    OBVIOUS
  <1> HIDE DEF headers
  <1>4. /\ designed \in FormRequests /\ designed.headers = headers /\ designed.method = r.method
        /\ designed.body = r.body /\ designed.encoding = r.encoding
        /\ designed.source = r.source /\ designed.parts = r.parts /\ designed.auth = r.auth
    BY <1>1, <1>2, <1>3 DEF FormRequests
  <1>5. Carried(designed)
    BY <1>1, <1>4 DEF Carried
  <1> QED  BY <1>1, <1>4, <1>5 DEF Safe, headers

\* What the tag of a body says of it.
Tagged(b) ==
    /\ b # Absent /\ b.is \notin {"absent", "call"}
    /\ b.is = "empty" => b = Empty
    /\ b.is = "graphql" => b = Graphql(b.held)
    /\ b.is = "jsonrpc" => /\ b = Call(b.id, b.held)
                           /\ b.id \in {"number", "quoted", "missing", "zero", "word", "null"}
                           /\ b.id = "missing" => b.held # "object"
    /\ b.is = "fields" => b.pairs \in Seq(NamedPair) /\ b = Joined(b.pairs)
    /\ b.is = "packed" => \E text \in Texts : b = Packed(text)

LEMMA Tags ==
    /\ \A b \in Bodies : Tagged(b)
    /\ \A b \in Files : b.is \in {"empty", "bytes", "packed"}
    /\ \A text \in Texts : text.is \in {"empty", "words", "object", "graphql", "jsonrpc"}
  <1> DEFINE some == Seq(NamedPair) \ {<<>>}
  <1>1. ASSUME NEW b \in [is : {"fields"}, pairs : some]
        PROVE  /\ b.is = "fields" /\ b # Absent
               /\ b.pairs \in Seq(NamedPair) /\ b = Joined(b.pairs)
    <2> HIDE DEF some
    <2>1. b.is = "fields" /\ b.pairs \in some /\ b = [is |-> "fields", pairs |-> b.pairs]
      OBVIOUS
    <2>2. b.pairs \in Seq(NamedPair) /\ b.pairs # <<>>
      BY <2>1 DEF some
    <2> QED  BY <2>1, <2>2 DEF Joined, Absent
  <1>2. ASSUME NEW b \in Bodies
        PROVE  \/ b \in Texts \/ b = Bytes
               \/ \E held \in Arguments : b = Graphql(held)
               \/ \E id \in SentIds, held \in Arguments : b = Call(id, held)
               \/ b \in [is : {"fields"}, pairs : some]
               \/ \E text \in Texts : b = Packed(text)
    <2> HIDE DEF some
    <2> QED  BY DEF Bodies, some
  <1> HIDE DEF some
  <1>3. \A text \in Texts :
            \/ text = Empty \/ text = Words \/ text = Object
            \/ \E held \in {"object", "null", "other"} : text = Graphql(held)
            \/ \E id \in {"number", "quoted"}, held \in {"object", "null"} : text = Call(id, held)
            \/ text = Call("missing", "other")
    BY DEF Texts
  <1>4. /\ Empty.is = "empty" /\ Words.is = "words" /\ Object.is = "object" /\ Bytes.is = "bytes"
        /\ Absent.is = "absent"
        /\ \A held : Graphql(held).is = "graphql" /\ Graphql(held).held = held
        /\ \A id, held : /\ Call(id, held).is = "jsonrpc" /\ Call(id, held).id = id
                         /\ Call(id, held).held = held
        /\ \A text : Packed(text).is = "packed"
    BY DEF Empty, Words, Object, Bytes, Absent, Graphql, Call, Packed
  <1>5. \A text \in Texts : text.is \in {"empty", "words", "object", "graphql", "jsonrpc"}
    BY <1>3, <1>4
  <1>6. \A b \in Files : b.is \in {"empty", "bytes", "packed"}
    BY <1>4 DEF Files
  <1>a. ASSUME NEW held PROVE Tagged(Graphql(held))
    <2>1. Graphql(held) # Absent
      BY <1>4
    <2> QED  BY <1>4, <2>1 DEF Tagged
  <1>b. ASSUME NEW id \in {"number", "quoted", "missing", "zero", "word", "null"}, NEW held,
               id = "missing" => held # "object"
        PROVE  Tagged(Call(id, held))
    <2>1. Call(id, held) # Absent
      BY <1>4
    <2> QED  BY <1>4, <1>b, <2>1 DEF Tagged
  <1>c. Tagged(Empty) /\ Tagged(Words) /\ Tagged(Object) /\ Tagged(Bytes)
    <2>1. Empty # Absent /\ Words # Absent /\ Object # Absent /\ Bytes # Absent
      BY <1>4
    <2> QED  BY <1>4, <2>1 DEF Tagged
  <1>7. ASSUME NEW b \in Bodies
        PROVE  Tagged(b)
    <2>1. CASE b \in Texts
      BY <1>3, <1>a, <1>b, <1>c, <2>1
    <2>2. CASE b = Bytes
      BY <1>c, <2>2
    <2>3. CASE \E id \in SentIds, held \in Arguments : b = Call(id, held)
      BY <1>b, <2>3 DEF SentIds
    <2>4. CASE b \in [is : {"fields"}, pairs : some]
      BY <1>1, <2>4 DEF Tagged
    <2>5. CASE \E text \in Texts : b = Packed(text)
      <3>1. PICK text \in Texts : b = Packed(text)
        BY <2>5
      <3>2. b # Absent /\ b.is = "packed"
        BY <1>4, <3>1
      <3> QED  BY <3>1, <3>2 DEF Tagged
    <2>6. CASE \E held \in Arguments : b = Graphql(held)
      BY <1>a, <2>6
    <2> QED  BY <1>2, <2>1, <2>2, <2>3, <2>4, <2>5, <2>6
  <1> QED  BY <1>5, <1>6, <1>7

Openable(r) ==
    /\ Safe(r)
    /\ \E plain \in Seq(PlainHeader) : r.headers = plain \/ r.headers = Append(plain, Designed)

\* Where the body, the encoding and the kept text of a request come from.
LEMMA Origins ==
    ASSUME NEW r, Safe(r)
    PROVE  \/ /\ r.encoding = "text" /\ r.source = Absent
              /\ r.body \in Bodies \cup {Absent}
           \/ \E held \in Arguments :
                  /\ r.encoding = "text" /\ r.source = Graphql(held) /\ r.parts = <<>>
                  /\ r.body \in {Absent, Graphql(held)}
           \/ \E id \in Ids, held \in Arguments :
                  /\ r.encoding = "text" /\ r.source = CallSource(id, held) /\ r.parts = <<>>
                  /\ r.body \in {Absent, Call(SentId(id), held)}
           \/ /\ r.encoding = "base64" /\ r.source = Absent /\ r.parts = <<>>
              /\ r.body \in Files \cup {Absent}
           \/ /\ r.encoding = "base64" /\ r.source \in Texts /\ r.parts = <<>>
              /\ r.body \in {Absent, Packed(r.source)}
  <1>1. r.body \in Bodies \cup {Absent} /\ r.encoding \in {"text", "base64"} /\ Carried(r)
    BY DEF Safe, FormRequests
  <1>2. /\ \A held : Graphql(held) # Absent
        /\ \A id, held : CallSource(id, held) # Absent
    BY DEF Graphql, CallSource, Absent
  <1>3. r.parts = <<>> \/ (r.encoding = "text" /\ r.source = Absent)
    BY <1>1 DEF Carried
  <1>4. CASE r.encoding = "text"
    BY <1>1, <1>2, <1>3, <1>4 DEF Carried
  <1>5. CASE r.encoding = "base64"
    <2>1. r.parts = <<>>
      BY <1>3, <1>5
    <2> QED  BY <1>1, <1>5, <2>1 DEF Carried
  <1> QED  BY <1>1, <1>4, <1>5

\* The id of a call is read as one that the editor can hold.
LEMMA CallRead ==
    ASSUME NEW r, Safe(r), LooksLikeCall(r)
    PROVE  ReadId(Structured(r).id) \in Ids
  <1> DEFINE text == Structured(r)
  <1>1. /\ \A held : Graphql(held).is = "graphql"
        /\ \A id, held : CallSource(id, held).id = id
        /\ Absent.is = "absent"
    BY DEF Graphql, CallSource, Absent
  <1>2. text.is \in {"jsonrpc", "call"}
    BY DEF LooksLikeCall
  <1>3. \/ text \in Bodies \cup {Absent}
        \/ \E held \in Arguments : text = Graphql(held)
        \/ \E id \in Ids, held \in Arguments : text = CallSource(id, held)
    <2>1. r.body \in Bodies \cup {Absent}
      BY DEF Safe, FormRequests
    <2>2. \/ r.source \in Texts \cup {Absent}
          \/ \E held \in Arguments : r.source = Graphql(held)
          \/ \E id \in Ids, held \in Arguments : r.source = CallSource(id, held)
      BY Origins
    <2>3. text \in {r.body, r.source}
      BY DEF Structured
    <2> HIDE DEF text
    <2> QED  BY <2>1, <2>2, <2>3, TextFacts
  <1> HIDE DEF text
  <1>4. CASE text \in Bodies \cup {Absent}
    <2>1. text \in Bodies /\ text.is = "jsonrpc"
      BY <1>1, <1>2, <1>4, Tags DEF Tagged
    <2>2. text.id \in {"number", "quoted", "missing", "zero", "word", "null"}
      BY <2>1, Tags DEF Tagged
    <2> QED  BY <2>2 DEF ReadId, Ids, text
  <1>5. CASE \E held \in Arguments : text = Graphql(held)
    BY <1>1, <1>2, <1>5
  <1>6. CASE \E id \in Ids, held \in Arguments : text = CallSource(id, held)
    <2>1. text.id \in Ids
      BY <1>1, <1>6
    <2> QED  BY <2>1 DEF ReadId, Ids, text
  <1> QED  BY <1>3, <1>4, <1>5, <1>6

\* The form that applyRequest leaves, field by field.
LEMMA AppliedFields ==
    ASSUME NEW f \in Forms, NEW r, Openable(r)
    PROVE  /\ ApplyRequest(f, r) \in Forms
           /\ ApplyRequest(f, r).method = r.method
           /\ ApplyRequest(f, r).query = r.query
           /\ ApplyRequest(f, r).options = r.options
           /\ ApplyRequest(f, r).mode = DetectMode(r)
           /\ ApplyRequest(f, r).body = (IF r.body = Absent THEN Empty ELSE r.body)
           /\ DetectMode(r) = "binary" =>
                  ApplyRequest(f, r).file = (IF r.body = Absent THEN Empty ELSE r.body)
           /\ DetectMode(r) = "msgpack" =>
                  ApplyRequest(f, r).packed = (IF r.source = Absent THEN Object ELSE r.source)
           /\ DetectMode(r) = "graphql" => ApplyRequest(f, r).variables = "object"
           /\ DetectMode(r) = "jsonrpc" => /\ ApplyRequest(f, r).id = ReadId(Structured(r).id)
                                           /\ ApplyRequest(f, r).params = "object"
           /\ ApplyRequest(f, r).auth = AppliedAuth(f.auth, r.auth)
           /\ ApplyRequest(f, r).rows.query = RowsFromPairs(ReadQuery(r.query))
           /\ ApplyRequest(f, r).rows.header = RowsFromPairs(HeaderPairs(r.headers))
           /\ ApplyRequest(f, r).rows.cookie = RowsFromPairs(CookiePairs(r.headers))
           /\ ApplyRequest(f, r).rows.field =
                  RowsFromPairs(IF DetectMode(r) = "urlencoded" /\ r.body.is = "fields"
                                THEN r.body.pairs ELSE <<>>)
           /\ ApplyRequest(f, r).rows.part = PartsFromRequest(r.parts)
  <1> DEFINE mode == DetectMode(r)
             text == Structured(r)
             pairs == IF mode = "urlencoded" /\ r.body.is = "fields" THEN r.body.pairs ELSE <<>>
             rows == [query  |-> RowsFromPairs(ReadQuery(r.query)),
                      header |-> RowsFromPairs(HeaderPairs(r.headers)),
                      cookie |-> RowsFromPairs(CookiePairs(r.headers)),
                      field  |-> RowsFromPairs(pairs),
                      part   |-> PartsFromRequest(r.parts)]
             body == IF r.body = Absent THEN Empty ELSE r.body
             file == IF mode # "binary" THEN f.file ELSE body
             packed == IF mode # "msgpack" THEN f.packed
                       ELSE IF r.source = Absent THEN Object ELSE r.source
             variables == IF mode = "graphql" THEN "object" ELSE f.variables
             params == IF mode = "jsonrpc" THEN "object" ELSE f.params
             id == IF mode = "jsonrpc" THEN ReadId(text.id) ELSE f.id
             environment == IF r.environment = "" THEN "default-env" ELSE r.environment
             auth == AppliedAuth(f.auth, r.auth)
             next == [f EXCEPT
                         !.method = r.method, !.query = r.query, !.rows = rows, !.mode = mode,
                         !.body = body, !.file = file, !.packed = packed,
                         !.variables = variables, !.params = params, !.id = id,
                         !.options = r.options, !.environment = environment, !.auth = auth]
  <1>0. Safe(r) /\ r \in FormRequests
    BY DEF Openable, Safe
  <1>1. PICK plain \in Seq(PlainHeader) : r.headers = plain \/ r.headers = Append(plain, Designed)
    BY DEF Openable
  <1>2. HeaderPairs(r.headers) \in Seq(NamedPair) /\ CookiePairs(r.headers) \in Seq(NamedPair)
    <2>1. CASE r.headers = plain
      BY <2>1, PlainBack, NoPairs
    <2>2. CASE r.headers = Append(plain, Designed)
      BY <2>2, PlainBack, DesignedBack
    <2> QED  BY <1>1, <2>1, <2>2
  <1>3. /\ r.method \in {"GET", "POST"} /\ r.query \in Seq(UrlPair) /\ r.parts \in Seq(NamedPair)
        /\ r.body \in Bodies \cup {Absent} /\ r.options \in Strings /\ r.environment \in Strings
        /\ r.auth \in SentAuth
    BY <1>0 DEF FormRequests
  <1>a. ReadQuery(r.query) \in Seq(Pair)
    BY <1>3, QueryRead
  <1>4. mode \in BodyModes
    BY DetectedMode DEF BodyModes
  <1>5. pairs \in Seq(NamedPair)
    <2>1. Absent.is = "absent"
      BY DEF Absent
    <2>2. r.body.is = "fields" => r.body.pairs \in Seq(NamedPair)
      BY <1>3, <2>1, Tags DEF Tagged
    <2> QED  BY <2>2, NoPairs
  <1>6. rows \in [Tables -> Seq(FormRow)]
    <2>1. \A some \in Seq(NamedPair) : some \in Seq(Pair)
      BY NamedAll
    <2>2. /\ rows.query \in Seq(FormRow) /\ rows.header \in Seq(FormRow) /\ rows.cookie \in Seq(FormRow)
          /\ rows.field \in Seq(FormRow) /\ rows.part \in Seq(FormRow)
      <3> HIDE DEF pairs
      <3> QED  BY <1>2, <1>3, <1>5, <1>a, <2>1, RowsTyped
    <2>3. rows = [table \in Tables |-> rows[table]]
      BY DEF Tables
    <2> HIDE DEF rows
    <2>4. \A table \in Tables : rows[table] \in Seq(FormRow)
      BY <2>2 DEF Tables
    <2> QED  BY <2>3, <2>4
  <1>7. body \in Bodies
    BY <1>3, TextFacts
  <1>8. mode \in {"binary", "msgpack"} => r.encoding = "base64"
    BY DetectedMode
  <1>9. file \in Files
    <2>1. f.file \in Files
      BY DEF Forms
    <2>2. r.encoding = "base64" => body \in Files
      BY <1>0, Origins, TextFacts
    <2> QED  BY <1>8, <2>1, <2>2
  <1>10. packed \in Texts
    <2>1. f.packed \in Texts
      BY DEF Forms
    <2>2. r.encoding = "base64" => r.source \in Texts \cup {Absent}
      BY <1>0, Origins
    <2> QED  BY <1>8, <2>1, <2>2, TextFacts
  <1>11. variables \in Arguments /\ params \in Arguments
    BY DEF Forms, Arguments
  <1>12. id \in Ids
    <2>1. f.id \in Ids
      BY DEF Forms
    <2>2. mode = "jsonrpc" => LooksLikeCall(r)
      BY DetectedMode
    <2> QED  BY <1>0, <2>1, <2>2, CallRead
  <1>13. environment \in Strings
    BY <1>3 DEF Strings
  <1>14. auth \in Credentials
    <2>1. f.auth \in Credentials
      BY DEF Forms
    <2>2. "callback" \in Strings
      BY DEF Strings
    <2> QED  BY <1>3, <2>1, <2>2, NoText DEF AppliedAuth, Credentials, SentAuth
  <1>15. ApplyRequest(f, r) = next
    BY DEF ApplyRequest
  <1> HIDE DEF rows, mode, text, pairs, body, file, packed, variables, params, id, environment, auth
  <1>16. /\ next \in Forms /\ next.method = r.method /\ next.query = r.query /\ next.options = r.options
         /\ next.mode = mode /\ next.body = body /\ next.file = file /\ next.packed = packed
         /\ next.id = id /\ next.auth = auth /\ next.rows = rows
         /\ next.variables = variables /\ next.params = params
    BY <1>3, <1>4, <1>6, <1>7, <1>9, <1>10, <1>11, <1>12, <1>13, <1>14 DEF Forms
  <1> HIDE DEF next
  <1>17. /\ mode = "binary" => file = body
         /\ mode = "msgpack" => packed = (IF r.source = Absent THEN Object ELSE r.source)
         /\ mode = "jsonrpc" => id = ReadId(text.id) /\ params = "object"
         /\ mode = "graphql" => variables = "object"
    BY DEF file, packed, id, variables, params
  <1>18. /\ rows.query = RowsFromPairs(ReadQuery(r.query))
         /\ rows.header = RowsFromPairs(HeaderPairs(r.headers))
         /\ rows.cookie = RowsFromPairs(CookiePairs(r.headers))
         /\ rows.field = RowsFromPairs(pairs)
         /\ rows.part = PartsFromRequest(r.parts)
    BY DEF rows
  <1> QED  BY <1>15, <1>16, <1>17, <1>18 DEF mode, text, pairs, body, auth

\* the body, as SameOnWire compares it
SameBody(one, other) ==
    \/ one.body = other.body /\ one.encoding = other.encoding
    \/ {one.body, other.body} \subseteq {Absent, Empty}

\* What a form in each body mode sends.
LEMMA SentBody ==
    ASSUME NEW f \in Forms, f.method = "POST"
    PROVE  /\ f.mode = "multipart" => BuildBody(f) = Absent
           /\ f.mode = "none" => BuildBody(f) = Absent
           /\ f.mode = "urlencoded" => BuildBody(f) = Joined(Pairs(f.rows.field))
           /\ f.mode = "graphql" => BuildBody(f) = Graphql(f.variables)
           /\ f.mode = "jsonrpc" => BuildBody(f) = Call(SentId(f.id), f.params)
           /\ f.mode = "binary" => BuildBody(f) = f.file
           /\ f.mode = "msgpack" => BuildBody(f) = Packed(f.packed)
           /\ f.mode \in {"json", "xml", "text"} => BuildBody(f) = f.body
           /\ BuildRequest(f).body = BuildBody(f)
           /\ BuildRequest(f).encoding = IF f.mode \in {"binary", "msgpack"} THEN "base64" ELSE "text"
  BY DEF BuildBody, BuildRequest

\* The bodies are told apart by their tags.
LEMMA Apart ==
    /\ Absent.is = "absent" /\ Empty.is = "empty" /\ Bytes.is = "bytes"
    /\ \A held : Graphql(held).is = "graphql" /\ Graphql(held).held = held
    /\ \A id, held : /\ Call(id, held).is = "jsonrpc" /\ Call(id, held).id = id
                     /\ Call(id, held).held = held
    /\ \A id, held : /\ CallSource(id, held).is = "call" /\ CallSource(id, held).id = id
                     /\ CallSource(id, held).held = held
    /\ \A text : Packed(text).is = "packed" /\ Packed(text).of = text
    /\ \A pairs : pairs # <<>> => Joined(pairs).is = "fields" /\ Joined(pairs).pairs = pairs
    /\ Joined(<<>>) = Empty
  <1>1. /\ Absent.is = "absent" /\ Empty.is = "empty" /\ Bytes.is = "bytes"
        /\ \A held : Graphql(held).is = "graphql" /\ Graphql(held).held = held
        /\ \A id, held : /\ Call(id, held).is = "jsonrpc" /\ Call(id, held).id = id
                         /\ Call(id, held).held = held
        /\ \A id, held : /\ CallSource(id, held).is = "call" /\ CallSource(id, held).id = id
                         /\ CallSource(id, held).held = held
        /\ \A text : Packed(text).is = "packed" /\ Packed(text).of = text
    BY DEF Absent, Empty, Bytes, Graphql, Call, CallSource, Packed
  <1>2. \A pairs : pairs # <<>> => Joined(pairs).is = "fields" /\ Joined(pairs).pairs = pairs
    BY Zenon DEF Joined
  <1>3. Joined(<<>>) = Empty
    BY Zenon DEF Joined
  <1> QED  BY <1>1, <1>2, <1>3

\* The exceptions, for a request with a body and no parts.
MisreadBy(type, text, request) ==
    \/ type = "form" /\ request.body.is \notin {"absent", "empty", "fields"}
    \/ type = "graphql" /\ request.body # Graphql("object")
    \/ text.is = "graphql" /\ (text.held # "object" \/ request.encoding = "base64")
    \/ text.is = "call" /\ text.held # "object"
    \/ text.is = "jsonrpc" /\ (\/ text.held # "object" \/ text.id = "quoted"
                               \/ request.encoding = "base64")
    \/ /\ type = "msgpack" /\ request.encoding = "base64"
       /\ request.source = Absent /\ request.body # Packed(Object)

\* The exceptions concern requests with a body and no parts.
LEMMA MisreadUnfolded ==
    ASSUME NEW r
    PROVE  BodyMisread(r) <=> /\ r.method # "GET" /\ r.parts = <<>>
                              /\ MisreadBy(ContentType(r.headers), Structured(r), r)
  BY Zenon DEF BodyMisread, Sent, MisreadBy

\* The kept text, or else the body.
LEMMA Texted ==
    ASSUME NEW r, Safe(r), r.method = "POST"
    PROVE  \/ /\ r.encoding = "text" /\ r.source = Absent /\ r.body \in Bodies \cup {Absent}
              /\ Structured(r) = r.body
           \/ \E held \in Arguments :
                  /\ r.encoding = "text" /\ r.source = Graphql(held)
                  /\ r.body = Graphql(held) /\ Structured(r) = Graphql(held)
           \/ \E id \in Ids, held \in Arguments :
                  /\ r.encoding = "text" /\ r.source = CallSource(id, held)
                  /\ r.body = Call(SentId(id), held) /\ Structured(r) = CallSource(id, held)
           \/ /\ r.encoding = "base64" /\ r.source = Absent /\ r.body \in Files
              /\ Structured(r) = r.body
           \/ /\ r.encoding = "base64" /\ r.source \in Texts /\ r.body = Packed(r.source)
              /\ Structured(r) \in {r.source, Packed(r.source)}
  <1>1. r.body = Absent => r.encoding = "text" /\ r.source = Absent
    BY DEF Safe, Carried
  <1>2. /\ \A held : Graphql(held) # Absent
        /\ \A id, held : CallSource(id, held) # Absent
        /\ \A text \in Texts : text # Absent
    <2>1. /\ \A held : Graphql(held) # Absent
          /\ \A id, held : CallSource(id, held) # Absent
      BY Apart
    <2>2. \A text \in Texts : text # Absent
      BY Tags, TextFacts DEF Tagged
    <2> QED  BY <2>1, <2>2
  <1>3. Structured(r) = IF r.source.is \in {"absent", "empty"} THEN r.body ELSE r.source
    BY DEF Structured
  <1>4. CASE r.encoding = "text" /\ r.source = Absent /\ r.body \in Bodies \cup {Absent}
    BY <1>3, <1>4, Apart
  <1>5. CASE \E held \in Arguments :
                 /\ r.encoding = "text" /\ r.source = Graphql(held)
                 /\ r.body \in {Absent, Graphql(held)}
    <2>1. PICK held \in Arguments : /\ r.encoding = "text" /\ r.source = Graphql(held)
                                    /\ r.body \in {Absent, Graphql(held)}
      BY <1>5
    <2>2. r.source # Absent /\ r.body = Graphql(held)
      BY <1>1, <1>2, <2>1
    <2>3. Structured(r) = Graphql(held)
      <3>1. Graphql(held).is = "graphql"
        BY Apart
      <3> QED  BY <1>3, <2>1, <3>1
    <2> QED  BY <2>1, <2>2, <2>3
  <1>6. CASE \E id \in Ids, held \in Arguments :
                 /\ r.encoding = "text" /\ r.source = CallSource(id, held)
                 /\ r.body \in {Absent, Call(SentId(id), held)}
    <2>1. PICK id \in Ids, held \in Arguments :
              /\ r.encoding = "text" /\ r.source = CallSource(id, held)
              /\ r.body \in {Absent, Call(SentId(id), held)}
      BY <1>6
    <2>2. r.source # Absent /\ r.body = Call(SentId(id), held)
      BY <1>1, <1>2, <2>1
    <2>3. Structured(r) = CallSource(id, held)
      <3>1. CallSource(id, held).is = "call"
        BY Apart
      <3> QED  BY <1>3, <2>1, <3>1
    <2> QED  BY <2>1, <2>2, <2>3
  <1>7. CASE r.encoding = "base64" /\ r.source = Absent /\ r.body \in Files \cup {Absent}
    BY <1>1, <1>3, <1>7, Apart
  <1>8. CASE r.encoding = "base64" /\ r.source \in Texts /\ r.body \in {Absent, Packed(r.source)}
    BY <1>1, <1>2, <1>3, <1>8, Apart
  <1> QED  BY <1>4, <1>5, <1>6, <1>7, <1>8, Origins

\* The body built from a request that was opened is the one it was kept with,
\* but for the requests of Misread.
LEMMA BodyBack ==
    ASSUME NEW f \in Forms, NEW r, Openable(r), r.method = "POST", r.parts = <<>>,
           NEW type, type = ContentType(r.headers)
    PROVE  SameBody(BuildRequest(ApplyRequest(f, r)), r) <=> ~MisreadBy(type, Structured(r), r)
  <1> DEFINE g == ApplyRequest(f, r)
             text == Structured(r)
             built == BuildRequest(g)
             mode == DetectMode(r)
  <1>0. Safe(r) /\ r.body \in Bodies \cup {Absent} /\ r.encoding \in {"text", "base64"}
    BY DEF Openable, Safe, FormRequests
  <1>1. g \in Forms /\ g.method = "POST" /\ g.mode = mode
    BY AppliedFields
  <1>2. /\ g.body = (IF r.body = Absent THEN Empty ELSE r.body)
        /\ mode = "binary" => g.file = (IF r.body = Absent THEN Empty ELSE r.body)
        /\ mode = "msgpack" => g.packed = (IF r.source = Absent THEN Object ELSE r.source)
        /\ mode = "graphql" => g.variables = "object"
        /\ mode = "jsonrpc" => g.id = ReadId(text.id) /\ g.params = "object"
        /\ mode = "urlencoded" =>
               g.rows.field = RowsFromPairs(IF r.body.is = "fields" THEN r.body.pairs ELSE <<>>)
    BY AppliedFields
  <1> HIDE DEF g
  <1>3. mode = IF type = "form" THEN "urlencoded"
               ELSE IF type = "graphql" \/ text.is = "graphql" THEN "graphql"
               ELSE IF text.is \in {"jsonrpc", "call"} THEN "jsonrpc"
               ELSE IF r.encoding = "base64" /\ type = "msgpack" THEN "msgpack"
               ELSE IF r.encoding = "base64" THEN "binary"
               ELSE IF type = "json" THEN "json"
               ELSE IF type \in XmlTypes THEN "xml"
               ELSE IF r.body \notin {Absent, Empty} THEN "text"
               ELSE "none"
    BY DetectedMode, Zenon DEF LooksLikeGraphql, LooksLikeCall
  <1>4. /\ mode = "urlencoded" => built.body = Joined(Pairs(g.rows.field))
        /\ mode = "graphql" => built.body = Graphql("object")
        /\ mode = "jsonrpc" => built.body = Call(SentId(g.id), "object")
        /\ mode = "binary" => built.body = g.file
        /\ mode = "msgpack" => built.body = Packed(g.packed)
        /\ mode \in {"json", "xml", "text"} => built.body = g.body
        /\ mode = "none" => built.body = Absent
        /\ built.encoding = IF mode \in {"binary", "msgpack"} THEN "base64" ELSE "text"
    BY <1>1, <1>2, SentBody
  <1> SUFFICES SameBody(built, r) <=> ~MisreadBy(type, text, r)
    BY DEF built, g, text
  <1> HIDE DEF text, mode, built
  <1>5. \/ /\ r.encoding = "text" /\ r.source = Absent /\ r.body \in Bodies \cup {Absent}
           /\ text = r.body
        \/ \E held \in Arguments :
               /\ r.encoding = "text" /\ r.source = Graphql(held)
               /\ r.body = Graphql(held) /\ text = Graphql(held)
        \/ \E id \in Ids, held \in Arguments :
               /\ r.encoding = "text" /\ r.source = CallSource(id, held)
               /\ r.body = Call(SentId(id), held) /\ text = CallSource(id, held)
        \/ /\ r.encoding = "base64" /\ r.source = Absent /\ r.body \in Files
           /\ text = r.body
        \/ /\ r.encoding = "base64" /\ r.source \in Texts /\ r.body = Packed(r.source)
           /\ text \in {r.source, Packed(r.source)}
    BY <1>0, Texted DEF text
  <1>a. r.encoding = "base64" => /\ r.body.is \in {"empty", "bytes", "packed"}
                                 /\ text = r.body \/ r.body.is = "packed"
    <2>1. \A some : Packed(some).is = "packed"
      BY Apart
    <2>2. \A b \in Files : b.is \in {"empty", "bytes", "packed"}
      BY Tags
    <2> QED  BY <1>5, <2>1, <2>2
  <1>b. r.encoding = "text" => text = r.body \/ (text.is = "call" /\ r.body.is = "jsonrpc")
    <2>1. /\ \A id, held : CallSource(id, held).is = "call"
          /\ \A id, held : Call(SentId(id), held).is = "jsonrpc"
      BY DEF Call, CallSource
    <2> QED  BY <1>5, <2>1
  <1>6. CASE type = "form"
    <2>1. mode = "urlencoded" /\ built.encoding = "text"
      BY <1>3, <1>4, <1>6
    <2>2. CASE r.body.is = "fields"
      <3>1. r.body.pairs \in Seq(NamedPair) /\ r.body = Joined(r.body.pairs)
        BY <1>0, <2>2, Tags, Apart DEF Tagged
      <3>2. Pairs(RowsFromPairs(r.body.pairs)) = r.body.pairs
        BY <3>1, NamedAll, RoundTrip
      <3>3. built.body = r.body
        BY <1>2, <1>4, <2>1, <2>2, <3>1, <3>2
      <3>4. r.encoding = "text" /\ text = r.body
        BY <1>0, <1>a, <1>b, <2>2
      <3>5. SameBody(built, r)
        BY <2>1, <3>3, <3>4 DEF SameBody
      <3>6. ~MisreadBy(type, text, r)
        BY <1>6, <2>2, <3>4, Zenon DEF MisreadBy
      <3> QED  BY <3>5, <3>6
    <2>3. CASE r.body.is # "fields"
      <3>1. Pairs(RowsFromPairs(<<>>)) = <<>>
        BY NoPairs, NamedAll, RoundTrip
      <3>2. built.body = Empty
        BY <1>2, <1>4, <2>1, <2>3, <3>1, Apart
      <3>3. SameBody(built, r) <=> r.body \in {Absent, Empty}
        <4>1. r.encoding = "base64" => r.body # Absent
          BY <1>5, Tags, TextFacts, Apart DEF Tagged
        <4> QED  BY <3>2 DEF SameBody
      <3>4. r.body \in {Absent, Empty} <=> r.body.is \in {"absent", "empty"}
        BY <1>0, Tags, Apart DEF Tagged
      <3>5. r.body \in {Absent, Empty} => text.is \in {"absent", "empty"}
        <4>1. Absent.is = "absent" /\ Empty.is = "empty"
          BY Apart
        <4> QED  BY <1>0, <1>a, <1>b, <4>1
      <3>6. MisreadBy(type, text, r) <=> r.body.is \notin {"absent", "empty"}
        BY <1>6, <2>3, <3>4, <3>5, Zenon DEF MisreadBy
      <3> QED  BY <3>3, <3>4, <3>6
    <2> QED  BY <2>2, <2>3
  <1>c. r.body \in Bodies => Tagged(r.body)
    BY Tags
  <1>7. CASE type # "form" /\ (type = "graphql" \/ text.is = "graphql")
    <2>1. built.body = Graphql("object") /\ built.encoding = "text"
      BY <1>3, <1>4, <1>7
    <2>2. r.body = Graphql("object") => /\ r.encoding = "text" /\ text = Graphql("object")
                                        /\ text.is = "graphql" /\ text.held = "object"
      <3>1. Graphql("object").is = "graphql" /\ Graphql("object").held = "object"
        BY Apart
      <3> QED  BY <1>0, <1>a, <1>b, <3>1
    <2>3. SameBody(built, r) <=> r.body = Graphql("object")
      BY <2>1, <2>2, Apart DEF SameBody
    <2>4. r.body = Graphql("object") => ~MisreadBy(type, text, r)
      BY <1>7, <2>2 DEF MisreadBy
    <2>5. r.body # Graphql("object") => MisreadBy(type, text, r)
      <3>1. text.is = "graphql" /\ r.body # Graphql("object")
                => text.held # "object" \/ r.encoding = "base64"
        <4>1. text.is = "graphql" /\ r.encoding = "text" => text = r.body
          BY <1>b
        <4>2. r.body.is = "graphql" => r.body = Graphql(r.body.held)
          BY <1>0, <1>c, Apart DEF Tagged
        <4> QED  BY <1>0, <4>1, <4>2
      <3> QED  BY <1>7, <3>1, Zenon DEF MisreadBy
    <2> QED  BY <2>3, <2>4, <2>5
  <1>8. CASE type \notin {"form", "graphql"} /\ text.is \in {"jsonrpc", "call"}
    <2>1. built.body = Call(SentId(ReadId(text.id)), "object") /\ built.encoding = "text"
      BY <1>2, <1>3, <1>4, <1>8
    <2>2. SameBody(built, r) <=> built.body = r.body /\ r.encoding = "text"
      BY <2>1 DEF SameBody, Call, Absent, Empty
    <2>3. CASE \E id \in Ids, held \in Arguments :
                   /\ r.encoding = "text" /\ r.source = CallSource(id, held)
                   /\ r.body = Call(SentId(id), held) /\ text = CallSource(id, held)
      <3>1. PICK id \in Ids, held \in Arguments :
                /\ r.encoding = "text" /\ r.body = Call(SentId(id), held)
                /\ text = CallSource(id, held)
        BY <2>3
      <3>2. text.is = "call" /\ text.id = id /\ text.held = held
        BY <3>1, Apart
      <3>3. ReadId(id) = id
        BY DEF ReadId, Ids
      <3>4. MisreadBy(type, text, r) <=> held # "object"
        BY <1>8, <3>1, <3>2, Zenon DEF MisreadBy
      <3>5. built.body.held = "object" /\ r.body.held = held
        BY <2>1, <3>1, Apart
      <3>6. held = "object" => built.body = r.body
        BY <2>1, <3>1, <3>2, <3>3
      <3>7. held # "object" => built.body # r.body
        BY <3>5
      <3> QED  BY <2>2, <3>1, <3>4, <3>6, <3>7
    <2>4. CASE r.encoding = "base64"
      <3>1. text.is = "jsonrpc"
        BY <1>5, <1>8, <2>4, Tags, TextFacts, Apart
      <3> QED  BY <2>2, <2>4, <3>1 DEF MisreadBy
    <2>5. CASE r.encoding = "text" /\ text = r.body
      <3>1. r.body.is = "jsonrpc"
        BY <1>0, <1>8, <1>c, <2>5, Apart DEF Tagged
      <3>2. /\ r.body = Call(r.body.id, r.body.held)
            /\ r.body.id \in {"number", "quoted", "missing", "zero", "word", "null"}
            /\ r.body.id = "missing" => r.body.held # "object"
        BY <1>0, <1>c, <3>1, Apart DEF Tagged
      <3>3. MisreadBy(type, text, r) <=> r.body.held # "object" \/ r.body.id = "quoted"
        BY <1>8, <2>5, <3>1 DEF MisreadBy
      <3>4. built.body.held = "object" /\ built.body.id = SentId(ReadId(r.body.id))
        BY <2>1, <2>5, Apart
      <3>5. /\ \A id \in {"number", "zero", "word", "null"} : SentId(ReadId(id)) = id
            /\ SentId(ReadId("quoted")) = "number" /\ SentId(ReadId("missing")) = "number"
        BY DEF SentId, ReadId
      <3>6. r.body.held = "object" /\ r.body.id # "quoted" => built.body = r.body
        <4>1. r.body.held = "object" /\ r.body.id # "quoted"
                  => SentId(ReadId(r.body.id)) = r.body.id
          BY <3>2, <3>5
        <4> QED  BY <2>1, <2>5, <3>2, <4>1
      <3>7. r.body.held # "object" \/ r.body.id = "quoted" => built.body # r.body
        BY <3>4, <3>5
      <3> QED  BY <2>2, <2>5, <3>3, <3>6, <3>7
    <2>6. \/ \E id \in Ids, held \in Arguments :
                 /\ r.encoding = "text" /\ r.source = CallSource(id, held)
                 /\ r.body = Call(SentId(id), held) /\ text = CallSource(id, held)
          \/ r.encoding = "base64"
          \/ r.encoding = "text" /\ text = r.body
      BY <1>5
    <2> QED  BY <2>3, <2>4, <2>5, <2>6
  <1>9. CASE type \notin {"form", "graphql"} /\ text.is \notin {"graphql", "jsonrpc", "call"}
    <2>1. MisreadBy(type, text, r) <=> /\ type = "msgpack" /\ r.encoding = "base64"
                                       /\ r.source = Absent /\ r.body # Packed(Object)
      BY <1>9 DEF MisreadBy
    <2>2. CASE r.encoding = "text"
      <3>1. mode \in {"json", "xml", "text", "none"} /\ built.encoding = "text"
            /\ (mode = "none" => r.body \in {Absent, Empty})
        BY <1>3, <1>4, <1>9, <2>2
      <3>2. built.body = r.body \/ (built.body \in {Absent, Empty} /\ r.body \in {Absent, Empty})
        BY <1>2, <1>4, <3>1
      <3>3. SameBody(built, r)
        BY <2>2, <3>1, <3>2 DEF SameBody
      <3> QED  BY <2>1, <2>2, <3>3
    <2>3. CASE r.encoding = "base64" /\ type # "msgpack"
      <3>1. mode = "binary" /\ built.encoding = "base64"
        BY <1>3, <1>4, <1>9, <2>3
      <3>2. r.body # Absent
        BY <1>5, <2>3, Tags, TextFacts, Apart DEF Tagged
      <3>3. built.body = r.body
        BY <1>2, <1>4, <3>1, <3>2
      <3>4. SameBody(built, r)
        BY <2>3, <3>1, <3>3 DEF SameBody
      <3> QED  BY <2>1, <2>3, <3>4
    <2>4. CASE r.encoding = "base64" /\ type = "msgpack"
      <3>1. mode = "msgpack" /\ built.encoding = "base64"
            /\ built.body = Packed(IF r.source = Absent THEN Object ELSE r.source)
        BY <1>2, <1>3, <1>4, <1>9, <2>4
      <3>2. SameBody(built, r) <=> built.body = r.body
        BY <2>4, <3>1, Apart DEF SameBody
      <3>3. r.source # Absent => r.body = Packed(r.source)
        BY <1>5, <2>4
      <3> QED  BY <2>1, <2>4, <3>1, <3>2, <3>3
    <2> QED  BY <1>0, <2>2, <2>3, <2>4
  <1> QED  BY <1>6, <1>7, <1>8, <1>9

\* What the wire tells apart besides the body.
LEMMA SameUnfolded ==
    ASSUME NEW one, NEW other
    PROVE  SameOnWire(one, other) <=>
               /\ one.method = other.method /\ one.query = other.query
               /\ one.headers = other.headers /\ one.parts = other.parts
               /\ one.auth = other.auth /\ one.options = other.options
               /\ SameBody(one, other)
  BY Zenon DEF SameOnWire, SameBody

\* A request that is opened is sent as it was, but for those of Misread.
LEMMA Reopened ==
    ASSUME NEW f \in Forms, NEW r, Openable(r)
    PROVE  /\ SameOnWire(BuildRequest(ApplyRequest(f, r)), r) <=> ~Misread(r)
           /\ Named(ReadQuery(r.query)) = Pairs(ApplyRequest(f, r).rows.query)
           /\ ApplyRequest(f, r).query = r.query
  <1> DEFINE g == ApplyRequest(f, r)
             built == BuildRequest(g)
             mode == DetectMode(r)
  <1>1. /\ Safe(r) /\ r \in FormRequests /\ Carried(r) /\ r.auth.token = ""
        /\ AuthFits(r.auth)
    BY DEF Openable, Safe
  <1>2. /\ g \in Forms /\ g.method = r.method /\ g.query = r.query /\ g.options = r.options
        /\ g.mode = mode /\ g.auth = AppliedAuth(f.auth, r.auth)
        /\ g.rows.query = RowsFromPairs(ReadQuery(r.query))
        /\ g.rows.header = RowsFromPairs(HeaderPairs(r.headers))
        /\ g.rows.cookie = RowsFromPairs(CookiePairs(r.headers))
        /\ g.rows.part = PartsFromRequest(r.parts)
    BY AppliedFields
  <1> HIDE DEF g
  <1>3. r.query \in Seq(UrlPair) /\ r.parts \in Seq(NamedPair) /\ r.auth \in SentAuth
        /\ r.method \in {"GET", "POST"} /\ r.body \in Bodies \cup {Absent}
    BY <1>1 DEF FormRequests
  <1>4. /\ mode # "soap"
        /\ mode = "multipart" <=> r.parts # <<>>
    BY DetectedMode
  <1>5. built.headers = r.headers
    <2>1. PICK plain \in Seq(PlainHeader) : r.headers = plain \/ r.headers = Append(plain, Designed)
      BY DEF Openable
    <2>2. BuildHeaders(g) = r.headers
      BY <1>2, <1>4, <2>1, HeadersBack
    <2> QED  BY <2>2 DEF BuildRequest
  <1>6. built.parts = r.parts
    <2>1. Pairs(g.rows.part) = r.parts
      BY <1>2, <1>3, NamedAll, RoundTrip
    <2>2. built.parts = IF g.mode = "multipart" THEN Pairs(g.rows.part) ELSE <<>>
      BY DEF BuildRequest
    <2> QED  BY <1>2, <1>4, <2>1, <2>2
  <1>7. built.auth = r.auth <=> ~AuthMisread(r.auth)
    <2> DEFINE auth == r.auth
               back == BuildAuth(AppliedAuth(f.auth, auth))
    <2>1. built.auth = back
      BY <1>2 DEF BuildRequest
    <2>2. /\ AuthFits(auth) /\ auth.token = "" /\ auth \in SentAuth
      BY <1>1, <1>3
    <2> HIDE DEF auth
    <2>3. CASE auth.kind = "oauth2_authorization_code"
      <3>1. back = [kind |-> auth.kind, secret |-> auth.secret, token |-> "",
                    username |-> auth.username,
                    redirect |-> IF auth.redirect = "" THEN "callback" ELSE auth.redirect,
                    refs |-> "own"]
        BY <2>3 DEF BuildAuth, AppliedAuth, WithUser
      <3>2. AuthMisread(auth) <=> auth.refs # "own" \/ auth.redirect = ""
        BY <2>3, Zenon DEF AuthMisread
      <3> HIDE DEF back
      <3>3. auth.redirect # "" /\ auth.refs = "own" => back = auth
        BY <2>2, <3>1 DEF SentAuth
      <3>4. back = auth => auth.redirect # "" /\ auth.refs = "own"
        <4>1. back.refs = "own" /\ back.redirect # ""
          BY <3>1
        <4> QED  BY <4>1
      <3> QED  BY <2>1, <3>2, <3>3, <3>4 DEF auth
    <2>4. CASE auth.kind # "oauth2_authorization_code"
      <3>1. back = auth
        BY <2>2, <2>4 DEF BuildAuth, AppliedAuth, WithUser, SentAuth, AuthFits, AuthKinds
      <3>2. ~AuthMisread(auth)
        BY <2>4 DEF AuthMisread
      <3> QED  BY <2>1, <3>1, <3>2 DEF auth
    <2> QED  BY <2>3, <2>4
  <1>8. built.method = r.method /\ built.query = r.query /\ built.options = r.options
    BY <1>2 DEF BuildRequest
  <1>9. Named(ReadQuery(r.query)) = Pairs(g.rows.query)
    BY <1>2, <1>3, QueryRead, RoundTrip
  <1>10. SameBody(built, r) <=> ~BodyMisread(r)
    <2>1. BodyMisread(r) <=> /\ r.method # "GET" /\ r.parts = <<>>
                         /\ MisreadBy(ContentType(r.headers), Structured(r), r)
      BY MisreadUnfolded
    <2>2. CASE r.method = "GET"
      <3>1. r.body = Absent
        BY <1>1, <2>2 DEF Carried
      <3>2. built.body = Absent
        BY <1>2, <2>2 DEF BuildRequest, BuildBody
      <3> QED  BY <2>1, <2>2, <3>1, <3>2 DEF SameBody
    <2>3. CASE r.method = "POST" /\ r.parts # <<>>
      <3>1. r.body = Absent
        BY <1>1, <2>3 DEF Carried
      <3>2. built.body = Absent
        BY <1>2, <1>4, <2>3 DEF BuildRequest, BuildBody
      <3> QED  BY <2>1, <2>3, <3>1, <3>2 DEF SameBody
    <2>4. CASE r.method = "POST" /\ r.parts = <<>>
      <3>1. SameBody(built, r) <=> ~MisreadBy(ContentType(r.headers), Structured(r), r)
        BY <2>4, BodyBack DEF g
      <3> QED  BY <2>1, <2>4, <3>1
    <2> QED  BY <1>3, <2>2, <2>3, <2>4
  <1>11. SameOnWire(built, r) <=> ~Misread(r)
    <2>1. SameOnWire(built, r) <=> SameBody(built, r) /\ built.auth = r.auth
      BY <1>5, <1>6, <1>8, SameUnfolded, Zenon
    <2> QED  BY <1>7, <1>10, <2>1, Zenon DEF Misread
  <1> QED  BY <1>2, <1>9, <1>11 DEF g

\* The environment of a request plays no part in it.
LEMMA SnapshotSame ==
    ASSUME NEW built, NEW r, Keepable(r)
    PROVE  /\ SameOnWire(built, FromSnapshot(r)) <=> SameOnWire(built, r)
           /\ Misread(FromSnapshot(r)) <=> Misread(r)
  <1> DEFINE next == FromSnapshot(r)
  <1>1. /\ next.headers = r.headers /\ next.method = r.method /\ next.query = r.query
        /\ next.body = r.body /\ next.encoding = r.encoding /\ next.source = r.source
        /\ next.parts = r.parts /\ next.auth = r.auth /\ next.options = r.options
    BY SnapshotKept
  <1> HIDE DEF next
  <1>2. SameOnWire(built, next) <=> SameOnWire(built, r)
    BY <1>1, Zenon DEF SameOnWire
  <1>3. Misread(next) <=> Misread(r)
    <2>1. Structured(next) = Structured(r)
      BY <1>1 DEF Structured
    <2> QED  BY <1>1, <2>1, Zenon DEF Misread, BodyMisread, Sent
  <1> QED  BY <1>2, <1>3 DEF next

------------------------------------------------------------------------------
(* The invariant.                                                          *)

\* The form holds only what the editor can hold; what is kept could have come
\* from the form; the URL field is only left while no opened request is shown.
FormInv ==
    /\ form \in Forms
    /\ Keepable(kept)
    /\ typing \in BOOLEAN /\ stray \in BOOLEAN
    /\ typing => opened = NoRequest
    /\ ReopensAsSent
    /\ RowsMatchUrl

\* The pair that a design, and another workbench, bring.
LEMMA OnePair == << <<"a", "v">> >> \in Seq(NamedPair)
  <1> DEFINE pair == <<"a", "v">>
  <1>1. pair \in NamedPair
    BY DEF NamedPair, Strings
  <1> HIDE DEF pair
  <1>2. << pair >> \in Seq(NamedPair)
    BY <1>1
  <1> QED  BY <1>2 DEF pair

\* A new form sends no headers.
LEMMA NothingBuilt == BuildHeaders(NewForm("POST")) = <<>> /\ <<>> \in Seq(PlainHeader)
  <1>1. RowsFromPairs(<<>>) = << BlankRow >>
    BY DEF RowsFromPairs
  <1>2. /\ NewForm("POST").rows.header = RowsFromPairs(<<>>)
        /\ NewForm("POST").rows.cookie = RowsFromPairs(<<>>)
        /\ NewForm("POST").mode = "none"
    BY <1>1 DEF NewForm
  <1>3. <<>> \in Seq(PlainHeader)
    <2> HIDE DEF PlainHeader
    <2> QED  OBVIOUS
  <1>4. HeaderPairs(<<>>) = <<>> /\ CookiePairs(<<>>) = <<>>
    <2>1. NoCookies(<<>>) = <<>> /\ CookiePairs(<<>>) = <<>>
      BY <1>3, PlainBack
    <2> QED  BY <2>1 DEF HeaderPairs
  <1>5. BuildHeaders(NewForm("POST")) = <<>>
    BY <1>2, <1>3, <1>4, HeadersBack
  <1> QED  BY <1>3, <1>5

\* A request that somebody else stored can be kept, whatever its credentials.
LEMMA ImportedKept ==
    ASSUME NEW auth, AuthFits(auth), auth.token = ""
    PROVE  Keepable(Imported(auth)) /\ Imported(auth).method = "POST"
  <1> DEFINE r == BuildRequest(NewForm("POST"))
             query == << <<"a", "v">> >>
             next == [r EXCEPT !.query = query, !.auth = auth]
  <1>1. NewForm("POST") \in Forms
    BY NewForms
  <1>2. r \in FormRequests /\ Carried(r) /\ r.method = "POST"
    <2>1. r.method = "POST"
      BY DEF BuildRequest, NewForm
    <2>2. r \in FormRequests /\ Carried(r)
      BY <1>1, BuiltBody, BuiltRequest
    <2> QED  BY <2>1, <2>2
  <1>3. r.headers = <<>>
    BY NothingBuilt DEF BuildRequest
  <1>4. query \in Seq(UrlPair)
    <2>1. query \in Seq(NamedPair)
      BY OnePair
    <2> HIDE DEF query
    <2>2. query \in Seq(Pair)
      BY <2>1, NamedAll
    <2> QED  BY <2>2, UrlPairs
  <1>5. auth \in SentAuth
    BY DEF AuthFits
  <1> HIDE DEF r, query
  <1>6. /\ next \in FormRequests /\ next.headers = <<>> /\ next.auth = auth
        /\ next.method = r.method /\ next.body = r.body /\ next.encoding = r.encoding
        /\ next.source = r.source /\ next.parts = r.parts
    BY <1>2, <1>3, <1>4, <1>5 DEF FormRequests
  <1>7. <<>> \in Seq(PlainHeader)
    BY NothingBuilt
  <1>8. Imported(auth) = next
    BY DEF Imported, r, query
  <1> HIDE DEF next
  <1>9. Carried(next)
    BY <1>2, <1>6 DEF Carried
  <1> QED  BY <1>2, <1>6, <1>7, <1>8, <1>9 DEF Keepable, Safe

\* A new form, and a request somebody else stored.
LEMMA FormInvInit == FormInit => FormInv
  <1> SUFFICES ASSUME FormInit PROVE FormInv
    OBVIOUS
  <1>1. form \in Forms
    BY NewForms DEF FormInit
  <1>2. Keepable(kept)
    <2>1. AuthFits(NoCode) /\ NoCode.token = ""
      BY DEF AuthFits, NoCode, SentAuth, AuthKinds, WithUser, Strings
    <2> QED  BY <2>1, ImportedKept DEF FormInit
  <1>3. Named(ReadQuery(form.query)) = Pairs(form.rows.query)
    <2>1. form.query = <<>> /\ form.rows.query = RowsFromPairs(<<>>)
      <3>1. NewForm("GET").rows.query = RowsFromPairs(<<>>) /\ NewForm("GET").query = <<>>
        BY DEF NewForm, RowsFromPairs
      <3> QED  BY <3>1 DEF FormInit
    <2> QED  BY <2>1, NoPairs, UrlPairs, RoundTrip
  <1> QED  BY <1>1, <1>2, <1>3 DEF FormInit, FormInv, ReopensAsSent, RowsMatchUrl

------------------------------------------------------------------------------
(* The steps.                                                              *)

\* A change keeps the invariant when the new form is one, and shows its query.
LEMMA ChangeKeeps ==
    ASSUME FormInv, NEW next, next \in Forms, Change(next),
           stray' \in BOOLEAN,
           ~stray' => Named(ReadQuery(next.query)) = Pairs(next.rows.query)
    PROVE  FormInv'
  <1>1. /\ form' = next /\ opened' = NoRequest /\ kept' = kept /\ typing' = typing /\ typing = FALSE
    BY DEF Change, FormInv
  <1>2. RowsMatchUrl'
    BY <1>1 DEF RowsMatchUrl
  <1>3. ReopensAsSent'
    BY <1>1 DEF ReopensAsSent, NoRequest, Imported
  <1> QED  BY <1>1, <1>2, <1>3 DEF FormInv, NoRequest, Imported

\* A change that leaves the query and its rows alone.
LEMMA OtherChange ==
    ASSUME FormInv, NEW next, next \in Forms, Change(next), stray' = stray,
           next.query = form.query, next.rows.query = form.rows.query
    PROVE  FormInv'
  <1>1. stray \in BOOLEAN /\ (~stray => Named(ReadQuery(form.query)) = Pairs(form.rows.query))
    BY DEF FormInv, RowsMatchUrl, Change
  <1> QED  BY <1>1, ChangeKeeps

\* The rows of the query are edited and the URL follows.
LEMMA EditQueryKeeps ==
    ASSUME FormInv, EditQuery
    PROVE  FormInv'
  <1>1. PICK rows \in RowEdits("query", form.rows.query) :
            /\ Change([form EXCEPT !.rows.query = rows, !.query = Pairs(rows)])
            /\ stray' = FALSE
    BY DEF EditQuery
  <1> DEFINE next == [form EXCEPT !.rows.query = rows, !.query = Pairs(rows)]
  <1>2. form \in Forms /\ "query" \in Tables /\ form.rows.query \in Seq(FormRow)
    BY DEF FormInv, Forms, Tables
  <1>3. rows \in Seq(FormRow)
    BY <1>2, RowEditsTyped
  <1>4. next \in Forms /\ next.query = Pairs(rows) /\ next.rows.query = rows
    BY <1>2, <1>3, QueryEdited
  <1>5. Named(ReadQuery(Pairs(rows))) = Pairs(rows)
    BY <1>3, PairsTyped, NamedAll, UrlPairs
  <1> HIDE DEF next
  <1>6. Change(next) /\ stray' = FALSE
    BY <1>1 DEF next
  <1> QED  BY <1>4, <1>5, <1>6, ChangeKeeps

\* The other tables.
LEMMA WithTable ==
    ASSUME NEW f \in Forms, NEW table \in Tables \ {"query"}, NEW rows \in Seq(FormRow)
    PROVE  /\ [f EXCEPT !.rows[table] = rows] \in Forms
           /\ [f EXCEPT !.rows[table] = rows].query = f.query
           /\ [f EXCEPT !.rows[table] = rows].rows.query = f.rows.query
  <1>1. [f EXCEPT !.rows[table] = rows] \in Forms
    BY WithRows
  <1>2. f.rows \in [Tables -> Seq(FormRow)]
    BY DEF Forms
  <1>3. [f.rows EXCEPT ![table] = rows].query = f.rows.query
    <2> HIDE DEF FormRow
    <2> QED  BY <1>2 DEF Tables
  <1>4. [f EXCEPT !.rows[table] = rows].rows = [f.rows EXCEPT ![table] = rows]
    BY DEF Forms
  <1>5. [f EXCEPT !.rows[table] = rows].query = f.query
    BY DEF Forms
  <1> QED  BY <1>1, <1>3, <1>4, <1>5

\* Every table holds rows.
LEMMA NewRows ==
    ASSUME NEW f \in Forms, NEW table \in Tables
    PROVE  f.rows[table] \in Seq(FormRow)
  <1>1. f.rows \in [Tables -> Seq(FormRow)]
    BY DEF Forms
  <1> HIDE DEF FormRow
  <1> QED  BY <1>1

\* The queries that are typed are pairs, one of them with a second mark.
LEMMA TypedQueries ==
    ASSUME NEW query \in Queries
    PROVE  query \in Seq(UrlPair)
  <1> DEFINE pair == <<"", "v">>
             other == <<"a", "">>
             one == <<"a", "v">>
             marked == <<"a", SecondMark>>
  <1>1. pair \in UrlPair /\ other \in UrlPair /\ one \in UrlPair /\ marked \in UrlPair
    BY DEF UrlPair, Strings
  <1> HIDE DEF pair, other, one, marked
  <1>2. /\ << >> \in Seq(UrlPair) /\ << one >> \in Seq(UrlPair)
        /\ << pair, other >> \in Seq(UrlPair) /\ << marked, one >> \in Seq(UrlPair)
    BY <1>1
  <1> QED  BY <1>2 DEF Queries, pair, other, one, marked

\* The other tables do not touch the query.
LEMMA EditTableKeeps ==
    ASSUME FormInv, EditTable
    PROVE  FormInv'
  <1>0. PICK table \in {"header", "cookie", "field"} :
            \E rows \in RowEdits(table, form.rows[table]) : Change([form EXCEPT !.rows[table] = rows])
    BY DEF EditTable
  <1>1. PICK rows \in RowEdits(table, form.rows[table]) : Change([form EXCEPT !.rows[table] = rows])
    BY <1>0
  <1>2. form \in Forms /\ table \in Tables \ {"query"} /\ stray' = stray
    BY DEF FormInv, Tables, EditTable
  <1>3. rows \in Seq(FormRow)
    BY <1>2, WithRows, NewRows, RowEditsTyped
  <1> DEFINE next == [form EXCEPT !.rows[table] = rows]
  <1>4. next \in Forms /\ next.query = form.query /\ next.rows.query = form.rows.query
    BY <1>2, <1>3, WithTable
  <1>5. Change(next)
    BY <1>1
  <1> HIDE DEF next
  <1> QED  BY <1>2, <1>4, <1>5, OtherChange

\* Nor do the parts.
LEMMA EditPartsKeeps ==
    ASSUME FormInv, EditParts
    PROVE  FormInv'
  <1>1. PICK parts \in PartEdits(form.rows.part) : Change([form EXCEPT !.rows.part = parts])
    BY DEF EditParts
  <1>2. form \in Forms /\ "part" \in Tables \ {"query"} /\ stray' = stray
    BY DEF FormInv, Tables, EditParts
  <1>3. parts \in Seq(FormRow)
    BY <1>2, NewRows, PartEditsTyped
  <1> DEFINE next == [form EXCEPT !.rows["part"] = parts]
  <1>4. next \in Forms /\ next.query = form.query /\ next.rows.query = form.rows.query
    BY <1>2, <1>3, WithTable
  <1>5. Change(next)
    BY <1>1
  <1> HIDE DEF next
  <1> QED  BY <1>2, <1>4, <1>5, OtherChange

\* The URL is typed: the rows wait.
LEMMA TypeUrlKeeps ==
    ASSUME FormInv, TypeUrl
    PROVE  FormInv'
  <1>1. PICK query \in Queries : form' = [form EXCEPT !.query = query]
    BY DEF TypeUrl
  <1>2. typing' = TRUE /\ opened' = NoRequest /\ kept' = kept /\ stray' = stray /\ form \in Forms
    BY DEF TypeUrl, FormInv
  <1>3. query \in Seq(UrlPair)
    BY TypedQueries
  <1>4. form' \in Forms
    BY <1>1, <1>2, <1>3, EditTyped
  <1>5. RowsMatchUrl'
    BY <1>2 DEF RowsMatchUrl
  <1>6. ReopensAsSent'
    BY <1>2 DEF ReopensAsSent, NoRequest, Imported
  <1> QED  BY <1>2, <1>4, <1>5, <1>6 DEF FormInv, NoRequest, Imported

\* The URL field loses the focus: the rows are read from it.
LEMMA BlurUrlKeeps ==
    ASSUME FormInv, BlurUrl
    PROVE  FormInv'
  <1> DEFINE rows == RowsFromPairs(ReadQuery(form.query))
             next == [form EXCEPT !.rows.query = rows]
  <1>1. /\ typing' = FALSE /\ stray' = FALSE /\ kept' = kept /\ opened' = opened
        /\ form' = next /\ opened = NoRequest /\ form \in Forms
    BY DEF BlurUrl, FormInv
  <1>2. form.query \in Seq(UrlPair) /\ "query" \in Tables /\ form.rows \in [Tables -> Seq(FormRow)]
    BY <1>1 DEF Forms, Tables
  <1>3. rows \in Seq(FormRow) /\ Named(ReadQuery(form.query)) = Pairs(rows)
    BY <1>2, QueryRead, RowsTyped, RoundTrip
  <1> HIDE DEF rows
  <1>4. next \in Forms
    BY <1>1, <1>2, <1>3, WithRows
  <1>5. next.query = form.query /\ next.rows.query = rows
    <2>1. next.rows = [form.rows EXCEPT !["query"] = rows] /\ next.query = form.query
      BY <1>1 DEF Forms
    <2>2. [form.rows EXCEPT !["query"] = rows]["query"] = rows
      <3> HIDE DEF FormRow
      <3> QED  BY <1>2
    <2> QED  BY <2>1, <2>2
  <1> HIDE DEF next
  <1>6. RowsMatchUrl'
    BY <1>1, <1>3, <1>5 DEF RowsMatchUrl
  <1>7. ReopensAsSent'
    BY <1>1 DEF ReopensAsSent, NoRequest, Imported
  <1> QED  BY <1>1, <1>4, <1>6, <1>7 DEF FormInv, NoRequest, Imported

\* Changes of one field besides the query and the rows.
LEMMA SameQuery ==
    ASSUME NEW f \in Forms
    PROVE  \A x :
               LET same(next) == next.query = f.query /\ next.rows.query = f.rows.query
               IN  /\ same([f EXCEPT !.method = x]) /\ same([f EXCEPT !.body = x])
                   /\ same([f EXCEPT !.packed = x]) /\ same([f EXCEPT !.file = x])
                   /\ same([f EXCEPT !.variables = x]) /\ same([f EXCEPT !.params = x])
                   /\ same([f EXCEPT !.id = x]) /\ same([f EXCEPT !.version = x])
                   /\ same([f EXCEPT !.action = x]) /\ same([f EXCEPT !.envelope = x])
                   /\ same([f EXCEPT !.auth = x]) /\ same([f EXCEPT !.options = x])
                   /\ same([f EXCEPT !.environment = x])
  BY DEF Forms

\* The header rows are replaced: nothing else of the tables changes.
LEMMA HeaderRows ==
    ASSUME NEW f \in Forms, NEW rows \in Seq(FormRow), NEW all,
           all = [f.rows EXCEPT !["header"] = rows]
    PROVE  all \in [Tables -> Seq(FormRow)] /\ all.query = f.rows.query
  <1>1. f.rows \in [Tables -> Seq(FormRow)] /\ "header" \in Tables /\ "query" \in Tables
    BY DEF Forms, Tables
  <1> HIDE DEF FormRow
  <1> QED  BY <1>1

\* A file is chosen, and its type replaces the content type.
LEMMA FileChanged ==
    ASSUME NEW f \in Forms, NEW rows \in Seq(FormRow), NEW next,
           next = [f EXCEPT !.file = Bytes, !.rows.header = rows]
    PROVE  next \in Forms /\ next.query = f.query /\ next.rows.query = f.rows.query
  <1> DEFINE all == [f.rows EXCEPT !["header"] = rows]
  <1>1. all \in [Tables -> Seq(FormRow)] /\ all.query = f.rows.query
    BY HeaderRows
  <1>2. next = [f EXCEPT !.file = Bytes, !.rows = all]
    BY DEF Forms
  <1> HIDE DEF all
  <1> QED  BY <1>1, <1>2, TextFacts DEF Forms

\* The method is chosen.
LEMMA SetMethodKeeps ==
    ASSUME FormInv, SetMethod
    PROVE  FormInv'
  <1>1. PICK method \in {"GET", "POST"} : Change([form EXCEPT !.method = method])
    BY DEF SetMethod
  <1>2. form \in Forms /\ stray' = stray
    BY DEF FormInv, SetMethod
  <1> DEFINE next == [form EXCEPT !.method = method]
  <1>3. next \in Forms /\ next.query = form.query /\ next.rows.query = form.rows.query
    BY <1>2, EditTyped, SameQuery
  <1>4. Change(next)
    BY <1>1
  <1> HIDE DEF next
  <1> QED  BY <1>2, <1>3, <1>4, OtherChange

\* A body mode is chosen: its method and its content type come with it.
LEMMA SelectBodyModeKeeps ==
    ASSUME FormInv, SelectBodyMode
    PROVE  FormInv'
  <1> DEFINE method(mode) == IF mode \in {"graphql", "jsonrpc", "soap", "binary", "msgpack"}
                             THEN "POST" ELSE form.method
             rows(mode) == WithContentType(form.rows.header, ContentTypeOf(mode, form.version))
             next(mode) == [form EXCEPT !.mode = mode, !.method = method(mode), !.rows.header = rows(mode)]
  <1>1. form \in Forms /\ stray' = stray
    BY DEF FormInv, SelectBodyMode
  <1>2. PICK mode \in BodyModes : Change(next(mode))
    <2>1. PICK mode \in BodyModes :
              Change([form EXCEPT
                    !.mode = mode,
                    !.method = IF mode \in {"graphql", "jsonrpc", "soap", "binary", "msgpack"}
                               THEN "POST" ELSE @,
                    !.rows.header = WithContentType(@, ContentTypeOf(mode, form.version))])
      BY DEF SelectBodyMode
    <2> QED  BY <1>1, <2>1 DEF Forms
  <1>3. form.method \in {"GET", "POST"} /\ form.version \in {"1.1", "1.2"} /\ "header" \in Tables
    BY <1>1 DEF Forms, Tables
  <1>4. method(mode) \in {"GET", "POST"} /\ rows(mode) \in Seq(FormRow)
    BY <1>1, <1>3, NewRows, ContentTypeTyped, WithTypeTyped
  <1>5. next(mode) \in Forms /\ next(mode).query = form.query /\ next(mode).rows.query = form.rows.query
    <2> DEFINE m == method(mode)
               rs == rows(mode)
               result == next(mode)
    <2>1. m \in {"GET", "POST"} /\ rs \in Seq(FormRow)
      BY <1>4
    <2> DEFINE all == [form.rows EXCEPT !["header"] = rs]
    <2>2. result = [form EXCEPT !.mode = mode, !.method = m, !.rows = all]
      BY <1>1 DEF Forms
    <2> HIDE DEF m, rs, result
    <2>3. all \in [Tables -> Seq(FormRow)] /\ all.query = form.rows.query
      BY <1>1, <2>1, HeaderRows
    <2> HIDE DEF all
    <2>4. result \in Forms /\ result.query = form.query /\ result.rows.query = form.rows.query
      BY <1>1, <2>1, <2>2, <2>3 DEF Forms
    <2> QED  BY <2>4 DEF result
  <1> HIDE DEF next
  <1> QED  BY <1>1, <1>2, <1>5, OtherChange

\* The body editors of the modes.
LEMMA EditBodyKeeps ==
    ASSUME FormInv, EditBody
    PROVE  FormInv'
  <1>1. form \in Forms /\ stray' = stray
    BY DEF FormInv, EditBody
  <1>2. ASSUME NEW next \in Forms, Change(next),
               next.query = form.query, next.rows.query = form.rows.query
        PROVE  FormInv'
    BY <1>1, <1>2, OtherChange
  <1>3. ASSUME NEW text \in Texts, Change([form EXCEPT !.body = text])
        PROVE  FormInv'
    BY <1>1, <1>2, <1>3, BodyTyped, SameQuery
  <1>4. ASSUME NEW held \in Arguments, Change([form EXCEPT !.variables = held])
        PROVE  FormInv'
    BY <1>1, <1>2, <1>4, BodyTyped, SameQuery
  <1>5. ASSUME NEW held \in Arguments, Change([form EXCEPT !.params = held])
        PROVE  FormInv'
    BY <1>1, <1>2, <1>5, BodyTyped, SameQuery
  <1>6. ASSUME NEW id \in RpcIds, Change([form EXCEPT !.id = id])
        PROVE  FormInv'
    BY <1>1, <1>2, <1>6, BodyTyped, SameQuery
  <1>7. ASSUME NEW version \in {"1.1", "1.2"},
               Change([form EXCEPT !.version = version,
                                   !.rows.header = RebuiltRows(@, ContentTypeOf("soap", version))])
        PROVE  FormInv'
    <2> DEFINE rows == RebuiltRows(form.rows.header, ContentTypeOf("soap", version))
               next == [form EXCEPT !.version = version, !.rows.header = rows]
    <2>1. rows \in Seq(FormRow)
      <3>1. "soap" \in BodyModes /\ "header" \in Tables
        BY DEF BodyModes, Tables
      <3> QED  BY <1>1, <3>1, NewRows, ContentTypeTyped, WithTypeTyped
    <2>2. Change(next)
      BY <1>1, <1>7 DEF Forms
    <2> DEFINE all == [form.rows EXCEPT !["header"] = rows]
    <2>3. next = [form EXCEPT !.version = version, !.rows = all]
      BY <1>1 DEF Forms
    <2> HIDE DEF rows, next
    <2>4. all \in [Tables -> Seq(FormRow)] /\ all.query = form.rows.query
      BY <1>1, <2>1, HeaderRows
    <2> HIDE DEF all
    <2>5. next \in Forms /\ next.query = form.query /\ next.rows.query = form.rows.query
      BY <1>1, <2>3, <2>4 DEF Forms
    <2> QED  BY <1>2, <2>2, <2>5
  <1>8. ASSUME Change([form EXCEPT !.action = IF @ = "" THEN "act" ELSE ""])
        PROVE  FormInv'
    BY <1>1, <1>2, <1>8, BodyTyped, SameQuery
  <1>9. ASSUME Change([form EXCEPT !.envelope = IF @ = Empty THEN Words ELSE Empty])
        PROVE  FormInv'
    BY <1>1, <1>2, <1>9, BodyTyped, SameQuery
  <1>10. ASSUME NEW type \in {"octet", "json"},
                Change([form EXCEPT !.file = Bytes, !.rows.header = RebuiltRows(@, type)])
         PROVE  FormInv'
    <2> DEFINE rows == RebuiltRows(form.rows.header, type)
               next == [form EXCEPT !.file = Bytes, !.rows.header = rows]
    <2>1. rows \in Seq(FormRow)
      <3>1. type \in Strings /\ "header" \in Tables
        BY DEF Strings, Tables
      <3> QED  BY <1>1, <3>1, NewRows, WithTypeTyped
    <2>2. Change(next)
      BY <1>1, <1>10 DEF Forms
    <2> HIDE DEF rows
    <2>3. next \in Forms /\ next.query = form.query /\ next.rows.query = form.rows.query
      BY <1>1, <2>1, FileChanged
    <2> HIDE DEF next
    <2> QED  BY <1>2, <2>2, <2>3
  <1>11. ASSUME Change([form EXCEPT !.file = Empty])
         PROVE  FormInv'
    BY <1>1, <1>2, <1>11, BodyTyped, SameQuery
  <1>12. ASSUME NEW text \in Texts, Change([form EXCEPT !.packed = text])
         PROVE  FormInv'
    BY <1>1, <1>2, <1>12, BodyTyped, SameQuery
  <1>13. \/ \E text \in Texts : Change([form EXCEPT !.body = text])
         \/ \E held \in Arguments : Change([form EXCEPT !.variables = held])
         \/ \E held \in Arguments : Change([form EXCEPT !.params = held])
         \/ \E id \in RpcIds : Change([form EXCEPT !.id = id])
         \/ \E version \in {"1.1", "1.2"} :
                Change([form EXCEPT !.version = version,
                                    !.rows.header = RebuiltRows(@, ContentTypeOf("soap", version))])
         \/ Change([form EXCEPT !.action = IF @ = "" THEN "act" ELSE ""])
         \/ Change([form EXCEPT !.envelope = IF @ = Empty THEN Words ELSE Empty])
         \/ \E type \in {"octet", "json"} :
                Change([form EXCEPT !.file = Bytes, !.rows.header = RebuiltRows(@, type)])
         \/ Change([form EXCEPT !.file = Empty])
         \/ \E text \in Texts : Change([form EXCEPT !.packed = text])
    BY Zenon DEF EditBody
  <1> QED  BY <1>3, <1>4, <1>5, <1>6, <1>7, <1>8, <1>9, <1>10, <1>11, <1>12, <1>13, Zenon

\* The credentials.
LEMMA EditAuthKeeps ==
    ASSUME FormInv, EditAuth
    PROVE  FormInv'
  <1>1. form \in Forms /\ stray' = stray
    BY DEF FormInv, EditAuth
  <1>2. ASSUME NEW next \in Forms, Change(next),
               next.query = form.query, next.rows.query = form.rows.query
        PROVE  FormInv'
    BY <1>1, <1>2, OtherChange
  <1>3. ASSUME NEW kind \in AuthKinds, Change([form EXCEPT !.auth.kind = kind])
        PROVE  FormInv'
    <2> DEFINE next == [form EXCEPT !.auth.kind = kind]
    <2>1. next.query = form.query /\ next.rows.query = form.rows.query
      BY <1>1 DEF Forms
    <2>2. next \in Forms
      BY <1>1, AuthTyped
    <2> QED  BY <1>2, <1>3, <2>1, <2>2
  <1>4. ASSUME NEW token \in {"", "t"},
               Change([form EXCEPT !.auth.source = "direct", !.auth.token = token])
        PROVE  FormInv'
    <2> DEFINE next == [form EXCEPT !.auth.source = "direct", !.auth.token = token]
    <2>1. next.query = form.query /\ next.rows.query = form.rows.query
      BY <1>1 DEF Forms
    <2>2. next \in Forms
      BY <1>1, AuthTyped
    <2> QED  BY <1>2, <1>4, <2>1, <2>2
  <1>5. ASSUME NEW secret \in {"", "s"}, Change([form EXCEPT !.auth.secret = secret])
        PROVE  FormInv'
    <2> DEFINE next == [form EXCEPT !.auth.secret = secret]
    <2>1. next.query = form.query /\ next.rows.query = form.rows.query
      BY <1>1 DEF Forms
    <2>2. next \in Forms
      BY <1>1, AuthTyped
    <2> QED  BY <1>2, <1>5, <2>1, <2>2
  <1>6. ASSUME NEW username \in {"", "u"}, Change([form EXCEPT !.auth.username = username])
        PROVE  FormInv'
    <2> DEFINE next == [form EXCEPT !.auth.username = username]
    <2>1. next.query = form.query /\ next.rows.query = form.rows.query
      BY <1>1 DEF Forms
    <2>2. next \in Forms
      BY <1>1, AuthTyped
    <2> QED  BY <1>2, <1>6, <2>1, <2>2
  <1>7. ASSUME NEW redirect \in {"", "callback"}, Change([form EXCEPT !.auth.redirect = redirect])
        PROVE  FormInv'
    <2> DEFINE next == [form EXCEPT !.auth.redirect = redirect]
    <2>1. next.query = form.query /\ next.rows.query = form.rows.query
      BY <1>1 DEF Forms
    <2>2. next \in Forms
      BY <1>1, AuthTyped
    <2> QED  BY <1>2, <1>7, <2>1, <2>2
  <1>8. \/ \E kind \in AuthKinds : Change([form EXCEPT !.auth.kind = kind])
        \/ \E token \in {"", "t"} : Change([form EXCEPT !.auth.source = "direct", !.auth.token = token])
        \/ \E secret \in {"", "s"} : Change([form EXCEPT !.auth.secret = secret])
        \/ \E username \in {"", "u"} : Change([form EXCEPT !.auth.username = username])
        \/ \E redirect \in {"", "callback"} : Change([form EXCEPT !.auth.redirect = redirect])
    BY Zenon DEF EditAuth
  <1> QED  BY <1>3, <1>4, <1>5, <1>6, <1>7, <1>8, Zenon

\* The options and the environment.
LEMMA EditOptionsKeeps ==
    ASSUME FormInv, EditOptions
    PROVE  FormInv'
  <1>1. form \in Forms /\ stray' = stray
    BY DEF FormInv, EditOptions
  <1>2. \E option \in {"default", "other"}, name \in {"default-env", "other-env"} :
            \/ Change([form EXCEPT !.options = option])
            \/ Change([form EXCEPT !.environment = name])
    BY DEF EditOptions
  <1>3. PICK option \in {"default", "other"}, name \in {"default-env", "other-env"} :
            \/ Change([form EXCEPT !.options = option])
            \/ Change([form EXCEPT !.environment = name])
    BY <1>2
  <1> DEFINE one == [form EXCEPT !.options = option]
             other == [form EXCEPT !.environment = name]
  <1>4. /\ one \in Forms /\ one.query = form.query /\ one.rows.query = form.rows.query
        /\ other \in Forms /\ other.query = form.query /\ other.rows.query = form.rows.query
    BY <1>1, AuthTyped, SameQuery
  <1>5. Change(one) \/ Change(other)
    BY <1>3
  <1> HIDE DEF one, other
  <1> QED  BY <1>1, <1>4, <1>5, OtherChange

\* What is kept of the form is a request that the form can show.
LEMMA KeepRequestKeeps ==
    ASSUME FormInv, KeepRequest
    PROVE  FormInv'
  <1>1. /\ form' = form /\ opened' = opened /\ typing' = typing /\ stray' = stray
        /\ kept' \in {ToEnvelope(Sanitized(BuildRequest(form))),
                      ToInvokeRequest(Sanitized(BuildRequest(form)))}
    BY DEF KeepRequest
  <1>2. Keepable(kept')
    <2>1. form \in Forms
      BY DEF FormInv
    <2> QED  BY <1>1, <2>1, KeptRequest
  <1>3. ReopensAsSent' /\ RowsMatchUrl'
    <2>1. ReopensAsSent /\ RowsMatchUrl
      BY DEF FormInv
    <2> QED  BY <1>1, <2>1, Zenon DEF ReopensAsSent, RowsMatchUrl, NoRequest, Imported
  <1> QED  BY <1>1, <1>2, <1>3 DEF FormInv, NoRequest, Imported

\* A stored request or a snapshot is opened.
LEMMA OpenKeptKeeps ==
    ASSUME FormInv, OpenKept
    PROVE  FormInv'
  <1>1. /\ opened' = kept /\ kept' = kept /\ typing' = FALSE /\ stray' = FALSE
        /\ form \in Forms /\ Keepable(kept)
    BY DEF OpenKept, FormInv
  <1>2. PICK r \in {FromStored(kept), FromSnapshot(kept)} : form' = ApplyRequest(form, r)
    BY DEF OpenKept
  <1>3. Keepable(r) /\ r.query = kept.query
    BY <1>1, <1>2, SnapshotKept
  <1>4. Openable(r)
    BY <1>3 DEF Openable, Keepable
  <1>5. form' \in Forms
    BY <1>1, <1>2, <1>4, AppliedFields
  <1>6. SameOnWire(BuildRequest(form'), kept) <=> ~Misread(kept)
    <2>1. SameOnWire(BuildRequest(form'), r) <=> ~Misread(r)
      BY <1>1, <1>2, <1>4, Reopened
    <2>2. /\ SameOnWire(BuildRequest(form'), r) <=> SameOnWire(BuildRequest(form'), kept)
          /\ Misread(r) <=> Misread(kept)
      BY <1>1, <1>2, SnapshotKept, SnapshotSame
    <2> QED  BY <2>1, <2>2, Zenon
  <1>7. Named(ReadQuery(form'.query)) = Pairs(form'.rows.query)
    BY <1>1, <1>2, <1>4, Reopened
  <1>8. ReopensAsSent' /\ RowsMatchUrl'
    BY <1>1, <1>6, <1>7, Zenon DEF ReopensAsSent, RowsMatchUrl
  <1> QED  BY <1>1, <1>5, <1>8 DEF FormInv

\* The draft with the design written into it is opened.
LEMMA OpenDesignedKeeps ==
    ASSUME FormInv, OpenDesigned
    PROVE  FormInv'
  <1> DEFINE r == [kept EXCEPT !.headers = Append(@, Designed)]
  <1>1. /\ form' = ApplyRequest(form, r) /\ opened' = r /\ kept' = kept
        /\ typing' = FALSE /\ stray' = FALSE /\ form \in Forms /\ Keepable(kept)
    BY DEF OpenDesigned, FormInv, Designed
  <1>2. Safe(r) /\ r.headers = Append(kept.headers, Designed)
    BY <1>1, DesignedKept
  <1> HIDE DEF r
  <1>3. Openable(r)
    BY <1>1, <1>2 DEF Openable, Keepable
  <1>4. form' \in Forms
    BY <1>1, <1>3, AppliedFields
  <1>5. SameOnWire(BuildRequest(form'), r) <=> ~Misread(r)
    BY <1>1, <1>3, Reopened
  <1>6. Named(ReadQuery(form'.query)) = Pairs(form'.rows.query)
    BY <1>1, <1>3, Reopened
  <1>7. ReopensAsSent' /\ RowsMatchUrl'
    BY <1>1, <1>5, <1>6, Zenon DEF ReopensAsSent, RowsMatchUrl
  <1> QED  BY <1>1, <1>4, <1>7 DEF FormInv

\* A request that another editor stored is opened.
LEMMA OpenAnothersKeeps ==
    ASSUME FormInv, OpenAnothers
    PROVE  FormInv'
  <1> DEFINE r == Imported(OfAnother)
  <1>1. /\ form' = ApplyRequest(form, r) /\ opened' = r /\ kept' = kept
        /\ typing' = FALSE /\ stray' = FALSE /\ form \in Forms /\ Keepable(kept)
    BY DEF OpenAnothers, FormInv
  <1>2. Keepable(r)
    <2>1. AuthFits(OfAnother) /\ OfAnother.token = ""
      BY DEF AuthFits, OfAnother, NoCode, SentAuth, AuthKinds, WithUser, Strings
    <2> QED  BY <2>1, ImportedKept
  <1> HIDE DEF r
  <1>3. Openable(r)
    BY <1>2 DEF Openable, Keepable
  <1>4. form' \in Forms
    BY <1>1, <1>3, AppliedFields
  <1>5. SameOnWire(BuildRequest(form'), r) <=> ~Misread(r)
    BY <1>1, <1>3, Reopened
  <1>6. Named(ReadQuery(form'.query)) = Pairs(form'.rows.query)
    BY <1>1, <1>3, Reopened
  <1>7. ReopensAsSent' /\ RowsMatchUrl'
    BY <1>1, <1>5, <1>6, Zenon DEF ReopensAsSent, RowsMatchUrl
  <1> QED  BY <1>1, <1>2, <1>4, <1>7 DEF FormInv

\* A request of another workbench is opened: the rows are those of before.
LEMMA OpenForeignKeeps ==
    ASSUME FormInv, OpenForeign
    PROVE  FormInv'
  <1>1. /\ stray' = TRUE /\ opened' = NoRequest /\ kept' = kept /\ typing' = FALSE
        /\ form \in Forms /\ Keepable(kept)
    BY DEF OpenForeign, FormInv
  <1> DEFINE query == << <<"a", "v">> >>
             typed(mode) == IF mode = "graphql" THEN << <<"Content-Type", "json">> >> ELSE <<>>
             rows(mode) == RowsFromPairs(typed(mode))
             all(mode) == [form.rows EXCEPT !["header"] = rows(mode)]
             next(mode) == [form EXCEPT
                               !.method = "POST", !.query = query, !.mode = mode,
                               !.rows = all(mode),
                               !.variables = IF mode = "graphql" THEN "object" ELSE @,
                               !.params = IF mode = "jsonrpc" THEN "object" ELSE @,
                               !.id = IF mode = "jsonrpc" THEN "null" ELSE @,
                               !.version = IF mode = "soap" THEN "1.2" ELSE @,
                               !.action = IF mode = "soap" THEN "act" ELSE @,
                               !.envelope = IF mode = "soap" THEN Words ELSE @]
  <1>2. PICK mode \in {"graphql", "soap", "jsonrpc"} : form' = next(mode)
    <2>1. PICK mode \in {"graphql", "soap", "jsonrpc"} :
           form' = [form EXCEPT
                       !.method = "POST", !.query = << <<"a", "v">> >>, !.mode = mode,
                       !.rows.header = RowsFromPairs(IF mode = "graphql"
                                                     THEN << <<"Content-Type", "json">> >>
                                                     ELSE <<>>),
                       !.variables = IF mode = "graphql" THEN "object" ELSE @,
                       !.params = IF mode = "jsonrpc" THEN "object" ELSE @,
                       !.id = IF mode = "jsonrpc" THEN "null" ELSE @,
                       !.version = IF mode = "soap" THEN "1.2" ELSE @,
                       !.action = IF mode = "soap" THEN "act" ELSE @,
                       !.envelope = IF mode = "soap" THEN Words ELSE @]
      BY DEF OpenForeign
    <2> QED  BY <1>1, <2>1 DEF Forms
  <1>3. all(mode) \in [Tables -> Seq(FormRow)]
    <2>1. typed(mode) \in Seq(Pair)
      <3> DEFINE pair == <<"Content-Type", "json">>
      <3>1. pair \in Pair
        BY DEF Pair, Strings
      <3> HIDE DEF pair
      <3>2. << pair >> \in Seq(Pair)
        BY <3>1
      <3> QED  BY <3>2, NoPairs DEF pair
    <2>2. rows(mode) \in Seq(FormRow)
      BY <2>1, RowsTyped
    <2> QED  BY <1>1, <2>2, HeaderRows
  <1>4. query \in Seq(UrlPair)
    <2>1. query \in Seq(NamedPair)
      BY OnePair
    <2> HIDE DEF query
    <2> QED  BY <2>1, NamedAll, UrlPairs
  <1> DEFINE variables == IF mode = "graphql" THEN "object" ELSE form.variables
             params == IF mode = "jsonrpc" THEN "object" ELSE form.params
  <1>5. variables \in Arguments /\ params \in Arguments
    BY <1>1 DEF Forms, Arguments
  <1>6. form' = [form EXCEPT
                     !.method = "POST", !.query = query, !.mode = mode, !.rows = all(mode),
                     !.variables = variables, !.params = params,
                     !.id = IF mode = "jsonrpc" THEN "null" ELSE @,
                     !.version = IF mode = "soap" THEN "1.2" ELSE @,
                     !.action = IF mode = "soap" THEN "act" ELSE @,
                     !.envelope = IF mode = "soap" THEN Words ELSE @]
    BY <1>2, Zenon
  <1>7. form' \in Forms
    <2>1. mode \in BodyModes /\ "null" \in Ids
      BY DEF BodyModes, Ids
    <2> DEFINE tables == all(mode)
               id == IF mode = "jsonrpc" THEN "null" ELSE form.id
               version == IF mode = "soap" THEN "1.2" ELSE form.version
               action == IF mode = "soap" THEN "act" ELSE form.action
               envelope == IF mode = "soap" THEN Words ELSE form.envelope
    <2>2. /\ tables \in [Tables -> Seq(FormRow)] /\ id \in Ids /\ version \in {"1.1", "1.2"}
          /\ action \in {"", "act"} /\ envelope \in {Empty, Words}
      BY <1>1, <1>3, <2>1 DEF Forms
    <2>3. form' = [form EXCEPT
                      !.method = "POST", !.query = query, !.mode = mode, !.rows = tables,
                      !.variables = variables, !.params = params, !.id = id,
                      !.version = version, !.action = action, !.envelope = envelope]
      BY <1>6
    <2> HIDE DEF query, tables, variables, params, id, version, action, envelope
    <2> QED  BY <1>1, <1>4, <1>5, <2>1, <2>2, <2>3 DEF Forms
  <1>8. ReopensAsSent' /\ RowsMatchUrl'
    BY <1>1 DEF ReopensAsSent, RowsMatchUrl, NoRequest, Imported
  <1> QED  BY <1>1, <1>7, <1>8 DEF FormInv

\* No step of the editor breaks it.
LEMMA FormStep == FormInv /\ [FormNext]_formVars => FormInv'
  <1> SUFFICES ASSUME FormInv, [FormNext]_formVars PROVE FormInv'
    OBVIOUS
  <1>1. CASE UNCHANGED formVars
    BY <1>1, Zenon DEF FormInv, formVars, ReopensAsSent, RowsMatchUrl, NoRequest, Imported
  <1>2. CASE FormNext
    BY <1>2, EditQueryKeeps, EditTableKeeps, EditPartsKeeps, TypeUrlKeeps, BlurUrlKeeps,
       SetMethodKeeps, SelectBodyModeKeeps, EditBodyKeeps, EditAuthKeeps, EditOptionsKeeps,
       KeepRequestKeeps, OpenKeptKeeps, OpenAnothersKeeps, OpenDesignedKeeps, OpenForeignKeeps, Zenon DEF FormNext
  <1> QED  BY <1>1, <1>2

\* Through any number of edits, the form holds what the editor can hold, and
\* what the store and the history keep (sanitizeHttpRequestForPersistence) is
\* a request buildRequest could have written, without cookies and without a
\* bearer token.
THEOREM FormInvariant == FormSpec => []FormInv
  <1> QED  BY FormInvInit, FormStep, PTL DEF FormSpec

\* A kept request that is opened again (applyRequest) is sent (buildRequest) as
\* it was kept, whatever the form held before, exactly when it is none of the
\* requests of Misread: a body that nextBodyMode takes for another or whose
\* null arguments come back as {}, and a code of OAuth kept under references of
\* another editor or without a redirect.
THEOREM FormReopens == FormSpec => []ReopensAsSent
  <1>1. FormInv => ReopensAsSent
    BY DEF FormInv
  <1> QED  BY <1>1, FormInvariant, PTL

\* The named pairs of the URL, up to its second question mark (split("?", 2)
\* drops the rest), are the enabled named rows of the query table, in their
\* order, through every edit of the rows (urlWithQueryRows), of the URL
\* (queryRowsFromUrl) and through every request that is opened, but for those
\* of the other workbenches.
THEOREM FormRowsMatchUrl == FormSpec => []RowsMatchUrl
  <1>1. FormInv => RowsMatchUrl
    BY DEF FormInv
  <1> QED  BY <1>1, FormInvariant, PTL
=============================================================================
