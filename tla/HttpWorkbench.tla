---------------------------- MODULE HttpWorkbench ----------------------------
(***************************************************************************)
(* The HTTP editor of each open HTTP tab: editing, sending, cancelling,    *)
(* opening a request into the form, replaying from history, saving, saving *)
(* as a case, and keeping a case in step with its interface.               *)
(*                                                                         *)
(* The form is the request it came from, its URL and its fields; the       *)
(* fields also stand for the structure a case shares with its interface.   *)
(* Every input is disabled while a request is under way, but a request can *)
(* be opened into the form at any time.                                    *)
(*                                                                         *)
(* The Ctrl+Enter listener is on the window, of every mounted tab, and is  *)
(* installed again only when the URL or `loading` changes: between those   *)
(* moments it keeps the form it captured (`armed`).                        *)
(***************************************************************************)
EXTENDS Naturals, FiniteSets

CONSTANTS
    Tabs,           \* open HTTP tabs; a tab's session id is the id its new request gets
    Interface,      \* a saved interface
    Cases,          \* ids for test cases of Interface
    SavedCases,     \* those saved from the start
    Urls, Fields,   \* contents; 0 is the empty one
    BadFields,      \* fields that validateParameterNames refuses
    Asynchronous,   \* kinds of handler that may be awaiting: "save", "case", "update", "replay"
    MaxSends,       \* bound on runs
    MaxSteps,       \* bound on what the user does
    None

Requests == {Interface} \union Cases \union Tabs
Kinds == {"save", "create", "case", "update", "replay"}

(* A request in the form, an answer and a run; `of` is the request it was  *)
(* opened from.                                                            *)
Contents == [of : Requests \union {None}, url : Urls, fields : Fields]
Answers == [request : Contents, outcome : {"ok", "failed", "saved"}]
Runs == [request : Contents, phase : {"secret", "sent", "history"}, cancelled : BOOLEAN]

ASSUME HttpWorkbenchAssumption ==
    /\ {0, 1} \subseteq Urls /\ 0 \in Fields /\ BadFields \subseteq Fields \ {0}
    /\ SavedCases \subseteq Cases /\ Asynchronous \subseteq Kinds
    /\ None \notin Requests \union Contents \union Answers \union Runs
    /\ MaxSends \in Nat /\ MaxSteps \in Nat

VARIABLES
    editor,     \* the state of each tab
    run,        \* the handleSend under way in each tab
    awaiting,   \* the handlers of each tab that await a save or a load
    stored,     \* the saved requests
    executed,   \* the request snapshots in the history
    mixed,      \* history: tabs in which a request was opened during a run, or one that was
                \* saved from such a tab, or whose shortcut sent the request open before
    tainted,    \* history: requests saved from a mixed tab
    sends, steps

vars == <<editor, run, awaiting, stored, executed, mixed, tainted, sends, steps>>

Content(of, url, fields) == [of |-> of, url |-> url, fields |-> fields]
Blank == Content(None, 0, 0)
Answer(request, outcome) == [request |-> request, outcome |-> outcome]

(* The parts of a tab that handlers read and set.  `armed` is the form of  *)
(* the render the Ctrl+Enter listener was installed in.                    *)
NewEditor ==
    [form |-> Blank, requestId |-> None, baseline |-> None, armed |-> Blank,
     result |-> None, lastRequest |-> None, executionId |-> None,
     syncCaseResponse |-> FALSE, saveDraft |-> None, caseDialog |-> None]

Saved(content, baseline, response, actual) ==
    [content |-> content, baseline |-> baseline, response |-> response, actual |-> actual]

Init ==
    /\ editor = [t \in Tabs |-> NewEditor]
    /\ run = [t \in Tabs |-> None]
    /\ awaiting = [t \in Tabs |-> {}]
    /\ stored = [r \in {Interface} \union SavedCases |-> Saved(Content(r, 1, 0), 0, None, None)]
    /\ executed = {} /\ mixed = {} /\ tainted = {} /\ sends = 0 /\ steps = 0

loading(t) == run[t] # None
Valid(content) == content.fields \notin BadFields
IsCase(content) == content.of \in Cases
HasResponse(answer) == answer # None /\ answer.outcome # "failed"

User == steps < MaxSteps /\ steps' = steps + 1

-------------------------------------------------------------------------------
(* Editing.                                                                *)

(* What a render does to the listener: it is installed again when the URL  *)
(* or `loading` changed.                                                   *)
Rearmed(old, new, loadingChanged) ==
    IF loadingChanged \/ old.form.url # new.form.url THEN [new EXCEPT !.armed = new.form] ELSE new

Set(t, new) == editor' = [editor EXCEPT ![t] = Rearmed(editor[t], new, FALSE)]

EditUrl(t) ==
    /\ User /\ ~loading(t)
    /\ \E url \in Urls \ {editor[t].form.url} : Set(t, [editor[t] EXCEPT !.form.url = url])
    /\ UNCHANGED <<run, awaiting, stored, executed, mixed, tainted, sends>>

EditFields(t) ==
    /\ User /\ ~loading(t)
    /\ \E fields \in Fields \ {editor[t].form.fields} :
          Set(t, [editor[t] EXCEPT !.form.fields = fields])
    /\ UNCHANGED <<run, awaiting, stored, executed, mixed, tainted, sends>>

ToggleSync(t) ==
    /\ User /\ ~loading(t) /\ IsCase(editor[t].form)
    /\ Set(t, [editor[t] EXCEPT !.syncCaseResponse = ~@])
    /\ UNCHANGED <<run, awaiting, stored, executed, mixed, tainted, sends>>

-------------------------------------------------------------------------------
(* Sending.                                                                *)

(* The first, synchronous part of handleSend, on the form it captured.  An *)
(* authorization code is stored before the request is built.               *)
Cleared(t) ==
    Rearmed(editor[t], [editor[t] EXCEPT !.result = None, !.executionId = None], TRUE)

Sending(t, request, first) ==
    [editor |-> IF first = "sent" THEN [Cleared(t) EXCEPT !.lastRequest = request] ELSE Cleared(t),
     run |-> [request |-> request, phase |-> first, cancelled |-> FALSE]]

Send(t, request) ==
    /\ ~loading(t) /\ Valid(request)
    /\ sends < MaxSends /\ sends' = sends + 1
    /\ \E first \in {"secret", "sent"} :
          /\ editor' = [editor EXCEPT ![t] = Sending(t, request, first).editor]
          /\ run' = [run EXCEPT ![t] = Sending(t, request, first).run]
    /\ mixed' = mixed \ {t}
    /\ UNCHANGED <<awaiting, stored, executed, tainted>>

ClickSend(t) == User /\ Send(t, editor[t].form)

(* One key press reaches the listener of every mounted tab.                *)
Pressed == {t \in Tabs : ~loading(t) /\ editor[t].armed.url # 0 /\ Valid(editor[t].armed)}

Shortcut ==
    /\ User /\ Pressed # {}
    /\ sends + Cardinality(Pressed) <= MaxSends /\ sends' = sends + Cardinality(Pressed)
    /\ editor' = [t \in Tabs |-> IF t \in Pressed THEN Sending(t, editor[t].armed, "sent").editor
                                 ELSE editor[t]]
    /\ run' = [t \in Tabs |-> IF t \in Pressed THEN Sending(t, editor[t].armed, "sent").run
                              ELSE run[t]]
    /\ mixed' = (mixed \ Pressed) \union {t \in Pressed : editor[t].armed.of # editor[t].form.of}
    /\ UNCHANGED <<awaiting, stored, executed, tainted>>

(* The finally block, with what the handler shows last.                    *)
Finished(t, result) ==
    /\ editor' = [editor EXCEPT ![t] =
                    Rearmed(editor[t], [editor[t] EXCEPT !.result = result, !.executionId = None], TRUE)]
    /\ run' = [run EXCEPT ![t] = None]

SecretStored(t) ==
    /\ loading(t) /\ run[t].phase = "secret"
    /\ run' = [run EXCEPT ![t].phase = "sent"]
    /\ editor' = [editor EXCEPT ![t].lastRequest = run[t].request]
    /\ UNCHANGED <<awaiting, stored, executed, mixed, tainted, sends, steps>>

Started(t) ==
    /\ loading(t) /\ run[t].phase = "sent" /\ editor[t].executionId = None
    /\ editor' = [editor EXCEPT ![t].executionId = run[t].request]
    /\ UNCHANGED <<run, awaiting, stored, executed, mixed, tainted, sends, steps>>

(* onSend resolved: the answer is shown, then the history is loaded.       *)
Answered(t) ==
    /\ loading(t) /\ run[t].phase = "sent"
    /\ editor' = [editor EXCEPT ![t].result = Answer(run[t].request, "ok")]
    /\ run' = [run EXCEPT ![t].phase = "history"]
    /\ executed' = executed \union {run[t].request}
    /\ UNCHANGED <<awaiting, stored, mixed, tainted, sends, steps>>

HistoryListed(t) ==
    /\ loading(t) /\ run[t].phase = "history"
    /\ Finished(t, editor[t].result)
    /\ UNCHANGED <<awaiting, stored, executed, mixed, tainted, sends, steps>>

StaysLoading(t) ==                                  \* mutant: loading is reset on success only
    /\ loading(t)
    /\ editor' = [editor EXCEPT ![t].result = Answer(run[t].request, "failed")]
    /\ run' = [run EXCEPT ![t].phase = "caught"]
    /\ UNCHANGED <<awaiting, stored, executed, mixed, tainted, sends, steps>>

(* The secret store, onSend or the history refused: the catch block shows  *)
(* a failure, over the answer too.                                         *)
SendFailed(t) ==
    /\ loading(t)
    /\ Finished(t, Answer(run[t].request, "failed"))
    /\ UNCHANGED <<awaiting, stored, executed, mixed, tainted, sends, steps>>

(* The button sends a cancel only when the execution is known; the run     *)
(* then ends like any other.                                               *)
Cancel(t) ==
    /\ User /\ loading(t) /\ editor[t].executionId # None
    /\ run' = [run EXCEPT ![t].cancelled = TRUE]
    /\ UNCHANGED <<editor, awaiting, stored, executed, mixed, tainted, sends>>

-------------------------------------------------------------------------------
(* Opening a request into the form.                                        *)

(* applyRequest: the saved response is shown, or none; a run goes on.      *)
Applied(editing, id, saved) ==
    [editing EXCEPT
        !.form = saved.content, !.requestId = id, !.baseline = saved.baseline,
        !.syncCaseResponse = saved.response # None,
        !.result = IF saved.response = None THEN None
                   ELSE Answer(saved.response, "saved"),
        !.lastRequest = IF saved.actual # None THEN saved.actual
                        ELSE IF saved.response = None THEN None ELSE saved.content]

Apply(t, id, saved) ==
    /\ Set(t, Applied(editor[t], id, saved))
    /\ mixed' = IF loading(t) \/ id \in tainted THEN mixed \union {t} ELSE mixed \ {t}

(* A stored request names itself, whatever form it was saved from.         *)
Loaded(r) == [stored[r] EXCEPT !.content.of = r]

(* Opening a case brings the structure of its interface; a case that       *)
(* differs is aligned and saved, without waiting for the save.             *)
Latest(r) ==
    IF r \in Cases /\ Interface \in DOMAIN stored
    THEN [Loaded(r) EXCEPT !.baseline = stored[Interface].content.fields,
                           !.content.fields = stored[Interface].content.fields]
    ELSE Loaded(r)

Awaits(kind, id, saved) == [kind |-> kind, id |-> id, saved |-> saved]
Begin(t, kind, id, saved) ==
    /\ kind \in Asynchronous /\ awaiting[t] = {}
    /\ awaiting' = [awaiting EXCEPT ![t] = @ \union {Awaits(kind, id, saved)}]

Hydrate(t, r) ==
    /\ User /\ r \in DOMAIN stored
    /\ Apply(t, r, Latest(r))
    /\ IF Latest(r).content = Loaded(r).content
       THEN UNCHANGED awaiting
       ELSE Begin(t, "save", r, Latest(r))
    /\ UNCHANGED <<run, stored, executed, tainted, sends>>

(* Replaying loads a snapshot, which has no id.                            *)
Replay(t) ==
    /\ User /\ ~loading(t)
    /\ \E request \in executed : Begin(t, "replay", None, Saved(request, None, None, None))
    /\ UNCHANGED <<editor, run, stored, executed, mixed, tainted, sends>>

Deleted(r) ==
    /\ User /\ r \in DOMAIN stored
    /\ stored' = [x \in DOMAIN stored \ {r} |-> stored[x]]
    /\ editor' = [t \in Tabs |-> IF editor[t].requestId = r
                                 THEN [editor[t] EXCEPT !.requestId = None] ELSE editor[t]]
    /\ UNCHANGED <<run, awaiting, executed, mixed, tainted, sends>>

-------------------------------------------------------------------------------
(* Saving.                                                                 *)

(* The response shown and the request that was sent for it.                *)
Snapshot(editing, keep) ==
    IF keep /\ HasResponse(editing.result)
    THEN [response |-> editing.result.request, actual |-> editing.lastRequest]
    ELSE [response |-> None, actual |-> None]

Metadata(editing) ==
    LET kept == IF editing.requestId \in DOMAIN stored THEN stored[editing.requestId]
                ELSE Saved(editing.form, None, None, None)
        new == Snapshot(editing, editing.syncCaseResponse /\ IsCase(editing.form))
        fresh == new.response # None
    IN  Saved(editing.form, IF IsCase(editing.form) THEN editing.baseline ELSE editing.form.fields,
              IF fresh THEN new.response ELSE kept.response,
              IF fresh /\ new.actual # None THEN new.actual ELSE kept.actual)

(* handleSave, from the button or the definition tab's event: a request    *)
(* with an id is saved, a new one asks for a name and a directory first.   *)
HandleSave(t, fromEvent) ==
    /\ User /\ Valid(editor[t].form)
    /\ ~fromEvent => ~loading(t)
    /\ fromEvent => ~IsCase(editor[t].form)
    /\ IF editor[t].requestId = None
       THEN /\ Set(t, [editor[t] EXCEPT !.saveDraft = editor[t].form])
            /\ UNCHANGED <<awaiting, tainted>>
       ELSE /\ Begin(t, "save", editor[t].requestId, Metadata(editor[t]))
            /\ tainted' = IF t \in mixed THEN tainted \union {editor[t].requestId} ELSE tainted
            /\ UNCHANGED editor
    /\ UNCHANGED <<run, stored, executed, mixed, sends>>

SubmitDraft(t) ==
    /\ User /\ editor[t].saveDraft # None
    /\ Begin(t, "create", t, Saved(editor[t].saveDraft, None, None, None))
    /\ UNCHANGED <<editor, run, stored, executed, mixed, tainted, sends>>

CloseDialog(t) ==
    /\ User /\ awaiting[t] = {} /\ {editor[t].saveDraft, editor[t].caseDialog} # {None}
    /\ Set(t, [editor[t] EXCEPT !.saveDraft = None, !.caseDialog = None])
    /\ UNCHANGED <<run, awaiting, stored, executed, mixed, tainted, sends>>

(* The case dialog opens from the menu, or from an event whose listener    *)
(* captured the first render: to that one there is no response to keep.    *)
OpenCaseDialog(t, fromEvent) ==
    /\ User /\ editor[t].caseDialog = None
    /\ ~fromEvent => ~loading(t) /\ ~IsCase(editor[t].form) /\ Valid(editor[t].form)
    /\ \E type \in {"debug", "test"} :
          Set(t, [editor[t] EXCEPT !.caseDialog =
             [type |-> type,
              response |-> ~fromEvent /\ type = "debug" /\ HasResponse(editor[t].result)]])
    /\ UNCHANGED <<run, awaiting, stored, executed, mixed, tainted, sends>>

ToggleCaseResponse(t) ==
    /\ User /\ editor[t].caseDialog # None /\ awaiting[t] = {}
    /\ editor[t].caseDialog.type = "debug" /\ HasResponse(editor[t].result)
    /\ Set(t, [editor[t] EXCEPT !.caseDialog.response = ~@])
    /\ UNCHANGED <<run, awaiting, stored, executed, mixed, tainted, sends>>

LooseSnapshot(editing, dialog) ==                   \* mutant: the response of the form as it is now
    Saved(editing.form, editing.form.fields,
          IF dialog.response THEN editing.form ELSE None, editing.lastRequest)

CaseOf(editing, dialog) ==
    LET new == Snapshot(editing, dialog.type = "debug" /\ dialog.response)
    IN  Saved(editing.form, editing.form.fields, new.response, editing.lastRequest)

SaveAsCase(t) ==
    /\ User /\ editor[t].caseDialog # None
    /\ \E id \in Cases \ DOMAIN stored :
          /\ Begin(t, "case", id, CaseOf(editor[t], editor[t].caseDialog))
          /\ tainted' = IF t \in mixed THEN tainted \union {id} ELSE tainted
    /\ UNCHANGED <<editor, run, stored, executed, mixed, sends>>

-------------------------------------------------------------------------------
(* A case and its interface.                                               *)

Differs(editing) ==
    IsCase(editing.form) /\ editing.baseline # None /\ editing.form.fields # editing.baseline

SyncCaseWithInterface(t) ==
    /\ User /\ Differs(editor[t])
    /\ LET kept == IF editor[t].requestId \in DOMAIN stored THEN stored[editor[t].requestId]
                   ELSE Saved(editor[t].form, None, None, None)
       IN  Apply(t, editor[t].requestId,
                 [kept EXCEPT !.content = [editor[t].form EXCEPT !.fields = editor[t].baseline],
                              !.baseline = editor[t].baseline])
    /\ UNCHANGED <<run, awaiting, stored, executed, tainted, sends>>

UpdateInterfaceFromCase(t) ==
    /\ User /\ Differs(editor[t])
    /\ Begin(t, "update", Interface, Saved(editor[t].form, editor[t].form.fields, None, None))
    /\ UNCHANGED <<editor, run, stored, executed, mixed, tainted, sends>>

-------------------------------------------------------------------------------
(* An awaited call comes back and the handler goes on with the tab as it   *)
(* is now.                                                                 *)
After(editing, call) ==
    CASE call.kind = "create" -> [editing EXCEPT !.requestId = call.id, !.saveDraft = None]
      [] call.kind = "case" -> [editing EXCEPT !.caseDialog = None]
      [] call.kind = "update" -> [editing EXCEPT !.baseline = call.saved.baseline]
      [] call.kind = "replay" -> Applied(editing, None, call.saved)
      [] OTHER -> editing

Returned(t) ==
    \E call \in awaiting[t] :
        /\ awaiting' = [awaiting EXCEPT ![t] = @ \ {call}]
        /\ Set(t, After(editor[t], call))
        /\ stored' = IF call.kind = "replay" THEN stored
                     ELSE [r \in DOMAIN stored \union {call.id} |->
                              IF r = call.id THEN call.saved ELSE stored[r]]
        /\ mixed' = IF call.kind # "replay" THEN mixed
                    ELSE IF loading(t) THEN mixed \union {t} ELSE mixed \ {t}
        /\ UNCHANGED <<run, executed, tainted, sends, steps>>

CallFailed(t) ==
    /\ awaiting[t] # {} /\ awaiting' = [awaiting EXCEPT ![t] = {}]
    /\ UNCHANGED <<editor, run, stored, executed, mixed, tainted, sends, steps>>

Edit(t) == EditUrl(t) \/ EditFields(t) \/ ToggleSync(t)
Open(t) == (\E r \in Requests : Hydrate(t, r)) \/ Replay(t) \/ SyncCaseWithInterface(t)
Keep(t) ==
    \/ \E fromEvent \in BOOLEAN : HandleSave(t, fromEvent) \/ OpenCaseDialog(t, fromEvent)
    \/ SubmitDraft(t) \/ CloseDialog(t) \/ ToggleCaseResponse(t) \/ SaveAsCase(t)
    \/ UpdateInterfaceFromCase(t)
Settle(t) == SecretStored(t) \/ Answered(t) \/ HistoryListed(t) \/ SendFailed(t)

Next ==
    \/ \E t \in Tabs :
          \/ Edit(t) \/ ClickSend(t) \/ Cancel(t) \/ Open(t) \/ Keep(t)
          \/ Started(t) \/ Settle(t) \/ Returned(t) \/ CallFailed(t)
    \/ Shortcut
    \/ \E r \in Requests : Deleted(r)

(* Every promise the editor awaits for a run settles.                      *)
Spec == Init /\ [][Next]_vars /\ \A t \in Tabs : WF_vars(Settle(t))

-------------------------------------------------------------------------------
(* The response shown answers the request in the form: opening, replaying  *)
(* and saving never leave the response of another request on screen.  Only *)
(* a run that a request was opened over, or the shortcut after opening a   *)
(* request with the same URL, brings another's response, which a save can  *)
(* keep and the next opening show.                                         *)
ResponseBelongs ==
    \A t \in Tabs \ mixed : editor[t].result # None =>
        /\ editor[t].result.outcome = "saved" \/ editor[t].result.request.of = editor[t].form.of
        /\ loading(t) => editor[t].result.request = run[t].request

(* A case that keeps a response keeps with it the request that was sent    *)
(* for it, however the form was edited between sending and saving.         *)
SavedResponseIsAnswer ==
    \A r \in DOMAIN stored \ tainted :
        stored[r].response # None => stored[r].actual = stored[r].response

(* Together: what is shown and what is saved as an answer is the answer to *)
(* the request it is shown or saved with.                                  *)
AnswersBelong == ResponseBelongs /\ SavedResponseIsAnswer

(* Whatever fails, a run ends and the button sends again.                  *)
SendSettles == \A t \in Tabs : loading(t) ~> ~loading(t)
=============================================================================
