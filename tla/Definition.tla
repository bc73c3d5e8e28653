----------------------------- MODULE Definition -----------------------------
(***************************************************************************)
(* The design tab of an interface: its visual and its source editor, the   *)
(* definition text both work on, saving and binding the definition.  What  *)
(* the debug forms get of each change is in DesignSync.                    *)
(*                                                                         *)
(* The panel is mounted while the design tab is shown; mounting loads the  *)
(* definition that is bound to the request.  A saveDefinition under way    *)
(* keeps nobody from leaving the tab or from showing it again: it goes on  *)
(* without its panel, beside the new one.  A design has five parts,        *)
(* each a small number; the text is the design that its parser finds in    *)
(* it, which the x-apivoy-* extension lines carry.  Of the 2.0 text the    *)
(* body mode is not a part.                                                *)
(*                                                                         *)
(* Between handlers the panel keeps what they set; a handler that awaits   *)
(* goes on with the values it captured.                                    *)
(***************************************************************************)
EXTENDS Naturals, FiniteSets

CONSTANTS
    Tabs,          \* open HTTP tabs, each with a saved request of its own
    Values,        \* contents of a part of a design; 0 is the default
    Asynchronous,  \* what may fail: "load", "save", "bind"
    MaxDefinitions, MaxSteps,    \* bounds
    MaxFileParts,  \* bound on what an imported document says
    Absent

Versions == {"2.0", "3.1"}
Designs == [fields : Values, responses : Values, security : Values, bodyMode : Values, version : Versions]
Default == [fields |-> 0, responses |-> 0, security |-> 0, bodyMode |-> 0, version |-> "3.1"]
Files == {design \in Designs : Cardinality({part \in DOMAIN Default : design[part] # Default[part]}) <= MaxFileParts}

(* Texts, the state of a panel, of a saveDefinition and of a reload; ids   *)
(* are numbers.                                                            *)
Texts == [design : Designs, valid : BOOLEAN, empty : BOOLEAN]
Panels ==
    [design : Designs, content : Texts, mode : {"visual", "source"}, definitionId : Nat \union {Absent},
     busy : BOOLEAN, lastVisual : Texts, baseline : Texts, dirty : BOOLEAN, lastValid : Values,
     drift : SUBSET DOMAIN Default, unparsed : BOOLEAN, loaded : BOOLEAN, edited : BOOLEAN,
     raced : BOOLEAN]
SaveRows ==
    [phase : {"save", "bind"}, requestId : Tabs \union {Absent}, id : Nat \union {Absent},
     content : Texts, drift : SUBSET DOMAIN Default, shown : Designs,
     here : BOOLEAN,       \* the panel that started it is still mounted
     number : Nat]         \* tells saves apart
TextLists == UNION {[ids -> Texts] : ids \in SUBSET Nat}
LoadRows ==
    [requestId : Tabs \union {Absent},
     lists : SUBSET TextLists,                     \* what client.list may answer
     links : SUBSET (Nat \union {Absent})]     \* what client.binding may answer

ASSUME DefinitionAssumption ==
    /\ 0 \in Values /\ Absent \notin Tabs \union Nat \union Panels
    /\ MaxDefinitions \in Nat /\ MaxSteps \in Nat /\ MaxFileParts \in Nat

VARIABLES
    panel,         \* the mounted design panel of each tab
    loading,       \* the reloads under way in each tab
    saving,        \* the saveDefinitions under way in each tab
    requestId,     \* the request of each tab: its own, or none once that was deleted
    definitions,   \* the stored texts
    binding,       \* the definition of each request
    shownAtSave,   \* history: the design that was shown when a tab's definition was saved
    maker,         \* history: the tab a definition was made by
    excused,       \* history: tabs that saved before they had loaded, were shown again
                   \* while their definition was not bound, or lost their request
    steps          \* edits and saves made

definitionVars == <<panel, loading, saving, requestId, definitions, binding, shownAtSave, maker, excused, steps>>

(* The text: empty, or a document with a design in it; a document can be   *)
(* one that validateDefinitionSource refuses.                              *)
Text(design, valid) == [design |-> design, valid |-> valid, empty |-> FALSE]
NoText == [design |-> Default, valid |-> FALSE, empty |-> TRUE]

(* fieldsToDefinition.                                                     *)
FieldsToDefinition(design) ==
    Text([design EXCEPT !.bodyMode = IF design.version = "2.0" THEN 0 ELSE @], TRUE)

(* The state of a panel: `design` is what the visual editor shows, and     *)
(* drift, unparsed, loaded, edited and raced are history.  The source      *)
(* editor tells an edited text by comparing it with its baseline;          *)
(* `unparsed` says that text or baseline changed there otherwise than by   *)
(* typing, `raced` that a save of the tab was under way when the panel was *)
(* shown.                                                                  *)
NewPanel ==
    [design |-> Default, content |-> NoText, mode |-> "visual", definitionId |-> Absent,
     busy |-> FALSE, lastVisual |-> NoText, baseline |-> NoText, dirty |-> FALSE,
     lastValid |-> 0, drift |-> {}, unparsed |-> FALSE, loaded |-> FALSE, edited |-> FALSE,
     raced |-> FALSE]

DefinitionInit ==
    /\ panel = [t \in Tabs |-> Absent]
    /\ loading = [t \in Tabs |-> {}] /\ saving = [t \in Tabs |-> {}]
    /\ requestId = [t \in Tabs |-> t]
    /\ definitions = [d \in {} |-> NoText] /\ binding = [r \in {} |-> 0]
    /\ shownAtSave = [t \in Tabs |-> Absent] /\ maker = [d \in {} |-> 0] /\ excused = {}
    /\ steps = 0

(* An edit or a save; showing and leaving an editor is not counted.        *)
User == steps < MaxSteps /\ steps' = steps + 1
Mounted(t) == panel[t] # Absent
Visual(t) == Mounted(t) /\ panel[t].mode = "visual"
Source(t) == Mounted(t) /\ panel[t].mode = "source"
Set(t, new) == panel' = [panel EXCEPT ![t] = new]

stored == <<requestId, definitions, binding>>
history == <<shownAtSave, maker, excused>>

-------------------------------------------------------------------------------
(* Showing the tab and loading.                                            *)

(* What reload may get: the definitions and the binding as they are now or *)
(* become before it ends; each is read at a moment of its own.             *)
BoundTo(r) == IF r \in DOMAIN binding THEN binding[r] ELSE Absent
NewLoad(r) == [requestId |-> r, lists |-> {definitions}, links |-> {BoundTo(r)}]

(* A definition that a new panel may not find: made, but not bound, or     *)
(* being saved for the first time.                                         *)
Unbound(t) ==
    \/ \E d \in DOMAIN maker : maker[d] = t /\ \A r \in DOMAIN binding : binding[r] # d
    \/ \E save \in saving[t] : save.id = Absent

(* The panel is mounted anew: not busy, whatever is under way.             *)
OpenDesignTab(t) ==
    /\ ~Mounted(t)
    /\ Set(t, [NewPanel EXCEPT !.raced = saving[t] # {}])
    /\ loading' = [loading EXCEPT ![t] = {NewLoad(requestId[t])}]
    /\ excused' = IF Unbound(t) THEN excused \union {t} ELSE excused
    /\ UNCHANGED <<saving, stored, shownAtSave, maker, steps>>

(* The panel is gone and its state with it; a save goes on.                *)
Left(save) == [save EXCEPT !.here = FALSE]

LeaveDesignTab(t) ==
    /\ Mounted(t)
    /\ panel' = [panel EXCEPT ![t] = Absent]
    /\ loading' = [loading EXCEPT ![t] = {}]
    /\ saving' = [saving EXCEPT ![t] = {Left(save) : save \in @}]
    /\ UNCHANGED <<stored, history, steps>>

(* What reload takes over: the bound definition, else what can be read off *)
(* the draft.                                                              *)
Parsed(t, id, text) ==
    [panel[t] EXCEPT !.design = text.design, !.content = text, !.definitionId = id,
                     !.lastVisual = text, !.drift = {}, !.loaded = TRUE, !.edited = FALSE,
                     !.unparsed = panel[t].mode = "source"]

Inferred(t, value) ==
    Parsed(t, Absent,
        IF value = 0 THEN NoText
        ELSE FieldsToDefinition([Default EXCEPT !.fields = value, !.bodyMode = value]))

Loaded(t) ==
    \E load \in loading[t] : \E list \in load.lists, link \in load.links :
        /\ Mounted(t)
        /\ loading' = [loading EXCEPT ![t] = @ \ {load}]
        /\ \/ link \in DOMAIN list /\ Set(t, Parsed(t, link, list[link]))
           \/ link \notin DOMAIN list /\ \E value \in Values : Set(t, Inferred(t, value))
        /\ UNCHANGED <<saving, stored, history, steps>>

(* The error is shown; the panel stays empty and can be edited and saved.  *)
LoadFailed(t) ==
    \E load \in loading[t] :
        /\ "load" \in Asynchronous
        /\ loading' = [loading EXCEPT ![t] = @ \ {load}]
        /\ UNCHANGED <<panel, saving, stored, history, steps>>

-------------------------------------------------------------------------------
(* The visual editor.                                                      *)

(* The parts of the design a handler has new values for are set, and the   *)
(* text is generated anew.  `generated` is what it is generated from.      *)
Edited(t, design, generated) ==
    [panel[t] EXCEPT !.design = design, !.content = FieldsToDefinition(generated),
                     !.lastVisual = FieldsToDefinition(generated), !.edited = TRUE,
                     !.drift = IF generated = design THEN {} ELSE {"responses"},
                     !.unparsed = panel[t].mode = "source"]

UpdateFields(t) ==
    /\ User /\ Visual(t)
    /\ \E value \in Values :
          LET design == [panel[t].design EXCEPT !.fields = value] IN Set(t, Edited(t, design, design))
    /\ UNCHANGED <<loading, saving, stored, history>>

ChangeBodyMode(t) ==
    /\ User /\ Visual(t)
    /\ \E value \in Values :
          LET design == [panel[t].design EXCEPT !.bodyMode = value] IN Set(t, Edited(t, design, design))
    /\ UNCHANGED <<loading, saving, stored, history>>

ChangeSecurity(t) ==
    /\ User /\ Visual(t)
    /\ \E value \in Values :
          LET design == [panel[t].design EXCEPT !.security = value] IN Set(t, Edited(t, design, design))
    /\ UNCHANGED <<loading, saving, stored, history>>

(* A name, a format, an order or a blank response.                         *)
ChangeResponses(t) ==
    /\ User /\ Visual(t)
    /\ \E value \in Values :
          LET design == [panel[t].design EXCEPT !.responses = value] IN Set(t, Edited(t, design, design))
    /\ UNCHANGED <<loading, saving, stored, history>>

(* A response component, a new status code or a deleted response changes   *)
(* responses and fields in two calls of one handler: the second generates  *)
(* the text from the responses as they were.                               *)
ChangeResponsesAndFields(t) ==
    /\ User /\ Visual(t)
    /\ \E value, others \in Values :
          /\ value # panel[t].design.responses
          /\ LET stale == [panel[t].design EXCEPT !.fields = others]
             IN  Set(t, Edited(t, [stale EXCEPT !.responses = value], stale))
    /\ UNCHANGED <<loading, saving, stored, history>>

(* Without fields only the choice is kept.                                 *)
ChangeOpenApiVersion(t) ==
    /\ User /\ Mounted(t)
    /\ \E version \in Versions \ {panel[t].design.version} :
          LET design == [panel[t].design EXCEPT !.version = version] IN
          Set(t, IF design.fields # 0 THEN Edited(t, design, design)
                 ELSE [panel[t] EXCEPT !.design = design, !.drift = @ \union {"version"}])
    /\ UNCHANGED <<loading, saving, stored, history>>

-------------------------------------------------------------------------------
(* The source editor.                                                      *)

EnterSourceMode(t) ==
    /\ Mounted(t)
    /\ Set(t, [panel[t] EXCEPT !.mode = "source", !.baseline = panel[t].content, !.dirty = FALSE,
                               !.unparsed = panel[t].mode = "source",
                               !.lastValid = IF panel[t].mode = "source" THEN @ ELSE panel[t].design.fields])
    /\ UNCHANGED <<loading, saving, stored, history, steps>>

(* Typing.  The version of the text is detected at once.                   *)
EditSource(t) ==
    /\ User /\ Source(t)
    /\ \E design \in Designs, valid \in BOOLEAN :
          /\ \E part \in DOMAIN Default : \A other \in DOMAIN Default \ {part} :
                design[other] = panel[t].content.design[other]
          /\ Set(t, [panel[t] EXCEPT !.content = Text(design, valid), !.edited = TRUE,
                                  !.dirty = Text(design, valid) # panel[t].baseline,
                                  !.design.version = design.version])
    /\ UNCHANGED <<loading, saving, stored, history>>

(* The format button; of an invalid text it may mend the indentation.      *)
FormatSource(t) ==
    /\ User /\ Source(t) /\ ~panel[t].content.valid /\ ~panel[t].content.empty
    /\ Set(t, [panel[t] EXCEPT !.content.valid = TRUE, !.edited = TRUE, !.unparsed = TRUE])
    /\ UNCHANGED <<loading, saving, stored, history>>

(* Fields and responses are parsed; security and body mode stay as they    *)
(* were, whatever the text says.                                           *)
Reparsed(t) ==
    LET text == panel[t].content.design
        shown == [panel[t].design EXCEPT !.responses = text.responses,
                      !.fields = IF panel[t].content = panel[t].lastVisual THEN @ ELSE text.fields]
    IN  [panel[t] EXCEPT
            !.mode = "visual", !.design = shown, !.dirty = FALSE,
            !.lastVisual = panel[t].content, !.baseline = panel[t].content, !.unparsed = FALSE,
            !.drift = {part \in {"fields", "security", "bodyMode"} : shown[part] # text[part]}
                      \union (@ \intersect {"version"})]

(* A text that counts as not edited is not parsed.                         *)
Unread(t) ==
    [panel[t] EXCEPT !.mode = "visual", !.unparsed = FALSE,
        !.drift = IF ~panel[t].unparsed THEN @
                  ELSE {part \in DOMAIN Default : panel[t].design[part] # panel[t].content.design[part]}]

EnterVisualMode(t) ==
    /\ Source(t)
    /\ Set(t, IF ~panel[t].dirty THEN Unread(t)
              ELSE IF ~panel[t].content.valid THEN [panel[t] EXCEPT !.design.fields = panel[t].lastValid]
              ELSE Reparsed(t))
    /\ UNCHANGED <<loading, saving, stored, history, steps>>

(* A file is taken as it is; security and body mode stay.                  *)
ImportFile(t) ==
    /\ User /\ Mounted(t) /\ ~panel[t].busy
    /\ \E design \in Files, valid \in BOOLEAN :
          Set(t, [panel[t] EXCEPT
                    !.content = Text(design, valid), !.edited = TRUE,
                    !.unparsed = panel[t].mode = "source",
                    !.design.fields = design.fields, !.design.responses = design.responses,
                    !.design.version = design.version,
                    !.drift = {part \in {"security", "bodyMode"} : panel[t].design[part] # design[part]}])
    /\ UNCHANGED <<loading, saving, stored, history>>

-------------------------------------------------------------------------------
(* Saving.                                                                 *)

LastVisualContent(t) ==                             \* mutant: source edits are not saved
    IF panel[t].content.empty THEN FieldsToDefinition(panel[t].design) ELSE panel[t].lastVisual

DefinitionContent(t) ==
    IF panel[t].content.empty THEN FieldsToDefinition(panel[t].design) ELSE panel[t].content

NewSave(t) ==
    [phase |-> "save", requestId |-> requestId[t], id |-> panel[t].definitionId,
     content |-> DefinitionContent(t), drift |-> panel[t].drift,
     shown |-> IF Source(t) THEN DefinitionContent(t).design ELSE panel[t].design,
     here |-> TRUE, number |-> steps]

(* saveDefinition up to client.save.  A text with errors opens in the      *)
(* source editor instead.                                                  *)
SaveDefinition(t) ==
    LET content == DefinitionContent(t) IN
    /\ User /\ Mounted(t) /\ ~panel[t].busy
    /\ \/ /\ ~content.valid
          /\ Set(t, [panel[t] EXCEPT !.mode = "source", !.unparsed = TRUE,
                        !.lastValid = IF panel[t].mode = "source" THEN @ ELSE panel[t].design.fields])
          /\ UNCHANGED <<saving, history>>
       \/ /\ content.valid
          /\ panel[t].definitionId # Absent \/ Cardinality(DOMAIN definitions) < MaxDefinitions
          /\ Set(t, [panel[t] EXCEPT !.busy = TRUE,
                        !.content = IF @.empty THEN content ELSE @,
                        !.lastVisual = IF panel[t].content.empty THEN content ELSE @])
          /\ saving' = [saving EXCEPT ![t] = @ \union {NewSave(t)}]
          /\ excused' = IF panel[t].loaded THEN excused ELSE excused \union {t}
          /\ UNCHANGED <<shownAtSave, maker>>
    /\ UNCHANGED <<loading, stored>>

IdForgotten(t, id) == panel[t]                      \* mutant: the id is not kept
Remember(t, id) == [panel[t] EXCEPT !.definitionId = id]

(* client.save returned; the panel keeps the id, if it is still there.     *)
SavedId(save) == IF save.id # Absent THEN save.id ELSE Cardinality(DOMAIN definitions) + 1
Put(id, text) == [d \in DOMAIN definitions \union {id} |-> IF d = id THEN text ELSE definitions[d]]
Listed(load, list) == [load EXCEPT !.lists = @ \union {list}]
LinkedTo(load, r, id) == IF load.requestId = r THEN [load EXCEPT !.links = @ \union {id}] ELSE load

DefinitionSaved(t) ==
    \E save \in saving[t] :
        LET id == SavedId(save) IN
        /\ save.phase = "save"
        /\ definitions' = Put(id, save.content)
        /\ loading' = [x \in Tabs |-> {Listed(load, Put(id, save.content)) : load \in loading[x]}]
        /\ maker' = [d \in DOMAIN maker \union {id} |-> IF d = id /\ save.id = Absent THEN t ELSE maker[d]]
        /\ shownAtSave' = [shownAtSave EXCEPT ![t] = [design |-> save.shown, drift |-> save.drift]]
        /\ panel' = IF save.here THEN [panel EXCEPT ![t] = Remember(t, id)] ELSE panel
        /\ saving' = [saving EXCEPT ![t] = (@ \ {save}) \union {[save EXCEPT !.phase = "bind", !.id = id]}]
        /\ UNCHANGED <<requestId, binding, excused, steps>>

(* saveDefinition ends: a panel that is still there is not busy any more.  *)
Ends(t, save) ==
    /\ panel' = IF save.here THEN [panel EXCEPT ![t].busy = FALSE] ELSE panel
    /\ saving' = [saving EXCEPT ![t] = @ \ {save}]

(* The request exists: it is bound, the binding is read back and found.    *)
DefinitionBound(t) ==
    \E save \in saving[t] :
        /\ save.phase = "bind" /\ save.requestId # Absent
        /\ save.requestId \in {requestId[x] : x \in Tabs}
        /\ binding' = [r \in DOMAIN binding \union {save.requestId} |->
                          IF r = save.requestId THEN save.id ELSE binding[r]]
        /\ loading' = [x \in Tabs |-> {LinkedTo(load, save.requestId, save.id) : load \in loading[x]}]
        /\ Ends(t, save)
        /\ UNCHANGED <<requestId, definitions, history, steps>>

(* Saving or binding failed, or the request is gone.                       *)
SaveFailed(t) ==
    \E save \in saving[t] :
        /\ save.phase \in Asynchronous \/ (save.phase = "bind" /\ save.requestId = Absent)
        /\ Ends(t, save)
        /\ UNCHANGED <<loading, stored, history, steps>>

(* The request is deleted: its binding goes with it, the open panel loads  *)
(* again for the tab's own id.                                             *)
Orphan(save) == [save EXCEPT !.requestId = Absent]

DeleteRequest(t) ==
    /\ User /\ requestId[t] # Absent
    /\ requestId' = [requestId EXCEPT ![t] = Absent]
    /\ binding' = [r \in DOMAIN binding \ {requestId[t]} |-> binding[r]]
    /\ loading' = [x \in Tabs |->
                      {LinkedTo(load, requestId[t], Absent) : load \in loading[x]}
                      \union {load \in {NewLoad(Absent)} : x = t /\ Mounted(t)}]
    /\ saving' = [saving EXCEPT ![t] = {Orphan(save) : save \in @}]
    /\ excused' = excused \union {t}
    /\ UNCHANGED <<panel, definitions, shownAtSave, maker>>

Load(t) == Loaded(t) \/ LoadFailed(t)
Settle(t) == DefinitionSaved(t) \/ DefinitionBound(t) \/ SaveFailed(t)

DefinitionNext ==
    \E t \in Tabs :
        \/ OpenDesignTab(t) \/ LeaveDesignTab(t) \/ Load(t)
        \/ UpdateFields(t) \/ ChangeBodyMode(t) \/ ChangeSecurity(t)
        \/ ChangeResponses(t) \/ ChangeResponsesAndFields(t) \/ ChangeOpenApiVersion(t)
        \/ EnterSourceMode(t) \/ EditSource(t) \/ FormatSource(t) \/ EnterVisualMode(t) \/ ImportFile(t)
        \/ SaveDefinition(t) \/ Settle(t) \/ DeleteRequest(t)

DefinitionSpec == DefinitionInit /\ [][DefinitionNext]_definitionVars

-------------------------------------------------------------------------------
Parts == {"fields", "responses", "security", "bodyMode"}
Written(version) == IF version = "2.0" THEN Parts \ {"bodyMode"} ELSE Parts

(* Opening the tab again shows the design that was shown when it was       *)
(* saved, except for the parts that had drifted and the body mode of a 2.0 *)
(* text, which is written nowhere.  A panel that was shown while a save of *)
(* the tab was under way may have read the text before it, and is excepted.*)
ReopensAsSaved ==
    \A t \in Tabs \ excused :
        /\ shownAtSave[t] # Absent /\ Visual(t) /\ panel[t].loaded /\ ~panel[t].edited
        /\ panel[t].definitionId # Absent /\ ~panel[t].raced
        => \A part \in Written(panel[t].content.design.version) \ (shownAtSave[t].drift \union panel[t].drift) :
              panel[t].design[part] = shownAtSave[t].design[part]

(* However often saving or binding fails and is tried again, and however   *)
(* often the tab is left and shown again during a save, a request has one  *)
(* definition: a failed binding is retried with the definition that was    *)
(* saved.  A panel that saves before it has loaded, that is shown while a  *)
(* definition of the tab is not bound or is being saved for the first      *)
(* time, or whose request is deleted, can make another.                    *)
OneDefinition ==
    \A d, e \in DOMAIN maker : maker[d] = maker[e] /\ maker[d] \notin excused => d = e
=============================================================================
