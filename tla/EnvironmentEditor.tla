-------------------------- MODULE EnvironmentEditor --------------------------
(***************************************************************************)
(* EnvironmentEditor, the dialog for the global variables, the references  *)
(* to secrets and the named environments.                                  *)
(*                                                                         *)
(* Variables and references are one record of the store and are always     *)
(* written together: the section that is not being edited goes along as    *)
(* the dialog knows it.  `busy` disables the inputs and the buttons of the *)
(* dialog, but not its navigation and not closing it; what was sent goes   *)
(* on without it.                                                          *)
(***************************************************************************)
EXTENDS Naturals, FiniteSets

CONSTANTS
    Contents,      \* what a set of variables can hold
    NoContent,     \* no variables
    Resources,     \* ids of named environments
    Secrets        \* names of secrets

ASSUME EnvironmentAssumption == NoContent \in Contents /\ Resources # {}

VARIABLES
    environment,   \* the store: global variables, secret references, named environments
    parameters,    \* the global parameters, in localStorage
    editor,        \* the dialog
    left,          \* writes under way that a closed dialog left behind
    overwritten    \* history: a write changed a section that was not being edited

environmentVars == <<environment, parameters, editor, left, overwritten>>

Draft == "draft"
NoJob == [kind |-> "none"]

(* job is the handler under way.  doubt is history: the dialog does not    *)
(* know what is stored, because it could not load it, did not hear how a   *)
(* write ended, or something else was written since.                       *)
Closed == [open |-> FALSE, environments |-> <<>>, defaultVariables |-> NoContent,
           defaultSecretRefs |-> {}, active |-> "global-variables", text |-> NoContent,
           globalParameters |-> NoContent, secretRefs |-> {}, job |-> NoJob, doubt |-> TRUE]

(* A list of environments with one more or another content, or with fewer. *)
Adding(list, id, content) == [i \in DOMAIN list \union {id} |-> IF i = id THEN content ELSE list[i]]
Dropping(list, id) == [i \in DOMAIN list \ {id} |-> list[i]]

EnvironmentInit ==
    /\ environment = [variables |-> CHOOSE c \in Contents : c # NoContent, refs |-> {},
                      resources |-> [i \in {CHOOSE r \in Resources : TRUE} |-> NoContent]]
    /\ parameters = NoContent /\ editor = Closed /\ left = {} /\ overwritten = FALSE

Busy == editor.job # NoJob
Selected(e) == e.active \in DOMAIN e.environments

(* The effect on [active, defaultVariables, defaultSecretRefs,             *)
(* selectedEnvironment]: the inputs show the active section.  A section    *)
(* that is gone from the list leaves the inputs as they are.               *)
Effect(e) ==
    CASE e.active = "global-variables" -> [e EXCEPT !.text = e.defaultVariables]
      [] e.active = "vault" -> [e EXCEPT !.secretRefs = e.defaultSecretRefs]
      [] Selected(e) -> [e EXCEPT !.text = e.environments[e.active]]
      [] OTHER -> e

Editing(e) == editor' = e /\ UNCHANGED <<environment, parameters, left, overwritten>>

-------------------------------------------------------------------------------
(* The dialog.                                                             *)

Reloading(e) == [e EXCEPT !.job = [kind |-> "reload", read |-> FALSE]]

OpenEnvironment ==
    /\ ~editor.open
    /\ Editing(Reloading([Closed EXCEPT !.open = TRUE, !.globalParameters = parameters]))

(* Closing unmounts the editor, not what it has sent.                      *)
Remaining == IF editor.job.kind \in {"none", "reload"} \/ editor.job.stage = "done" THEN {}
             ELSE {editor.job}
CloseEnvironment ==
    /\ editor.open
    /\ editor' = Closed /\ left' = left \union Remaining
    /\ UNCHANGED <<environment, parameters, overwritten>>

Navigate ==
    /\ editor.open
    /\ \E s \in {"global-variables", "global-parameters", "vault"} \union DOMAIN editor.environments :
          s # editor.active /\ Editing(Effect([editor EXCEPT !.active = s]))

(* KeyValueEditor, and the field of the vault.                             *)
EditSection ==
    /\ editor.open /\ ~Busy
    /\ \/ \E c \in Contents :
             CASE editor.active = "vault" -> FALSE
               [] editor.active = "global-parameters" ->
                    c # editor.globalParameters /\ Editing([editor EXCEPT !.globalParameters = c])
               [] OTHER -> c # editor.text /\ Editing([editor EXCEPT !.text = c])
       \/ \E names \in SUBSET Secrets :
             /\ editor.active = "vault" /\ names # editor.secretRefs
             /\ Editing([editor EXCEPT !.secretRefs = names])

AddEnvironment ==
    /\ editor.open /\ ~Busy /\ Draft \notin DOMAIN editor.environments
    /\ Editing([editor EXCEPT !.environments = Adding(@, Draft, NoContent),
                              !.active = Draft, !.text = NoContent])

RemoveDraft ==
    /\ editor.open /\ ~Busy /\ editor.active = Draft /\ Selected(editor)
    /\ Editing(Effect([editor EXCEPT !.environments = Dropping(@, Draft),
                                     !.active = "global-variables"]))

Reload == editor.open /\ ~Busy /\ Editing(Reloading(editor))

-------------------------------------------------------------------------------
(* Writes.  `of` is the section that is saved or the environment concerned *)
(* and `made`, in the end, the environment created; doubt is history, what *)
(* the dialog did not know when it sent the write.                         *)

Write(kind, of, variables, refs) ==
    [kind |-> kind, of |-> of, variables |-> variables, refs |-> refs, stage |-> "sent", doubt |-> FALSE,
     made |-> Draft]

Sends(job) == Editing([editor EXCEPT !.job = [job EXCEPT !.doubt = editor.doubt]])

WriteDefault(section, variables, refs) == Write("save", section, variables, refs)

VaultAlone(e) == WriteDefault("vault", NoContent, e.secretRefs)   \* mutant: the variables are left out
SaveVault(e) == WriteDefault("vault", e.defaultVariables, e.secretRefs)

(* The last branch of saveCurrent also takes a section that is gone.       *)
SaveVariables(e) ==
    WriteDefault(IF e.active = "global-variables" THEN e.active ELSE "gone", e.text, e.defaultSecretRefs)

SaveCurrent ==
    /\ editor.open /\ ~Busy
    /\ CASE editor.active = "global-parameters" ->
              /\ parameters' = editor.globalParameters
              /\ UNCHANGED <<environment, editor, left, overwritten>>
         [] editor.active = "vault" -> Sends(SaveVault(editor))
         [] Selected(editor) ->
              IF editor.active = Draft THEN Sends(Write("create", Draft, editor.text, {}))
              ELSE Sends(Write("update", editor.active, editor.text, {}))
         [] OTHER -> Sends(SaveVariables(editor))

CopyEnvironment ==
    /\ editor.open /\ ~Busy /\ Selected(editor) /\ editor.active # Draft
    /\ Sends(Write("create", editor.active, editor.environments[editor.active], {}))

RemoveEnvironment ==
    /\ editor.open /\ ~Busy /\ Selected(editor) /\ editor.active # Draft
    /\ Sends(Write("delete", editor.active, NoContent, {}))

(* putSecret: the secret first, then the reference to it.                  *)
PutSecret ==
    /\ editor.open /\ ~Busy /\ editor.active = "vault"
    /\ \E name \in Secrets :
          Sends([WriteDefault("vault", editor.defaultVariables, editor.defaultSecretRefs \union {name})
                     EXCEPT !.stage = "put"])

EnvironmentUser ==
    \/ Navigate \/ EditSection \/ AddEnvironment \/ RemoveDraft \/ Reload \/ SaveCurrent
    \/ CopyEnvironment \/ RemoveEnvironment \/ PutSecret

-------------------------------------------------------------------------------
(* reload: Promise.all of the list, whose failure counts as an empty one,  *)
(* and the global variables.                                               *)

ReloadRead ==
    /\ editor.job.kind = "reload" /\ editor.job.read = FALSE
    /\ Editing([editor EXCEPT !.job = [kind |-> "reload", read |-> TRUE, of |-> environment]])

ReloadAnswered(listOk) ==
    /\ editor.job.kind = "reload" /\ editor.job.read = TRUE
    /\ LET got == editor.job.of IN
       Editing(Effect([editor EXCEPT !.environments = IF listOk THEN got.resources ELSE <<>>,
                                     !.defaultVariables = got.variables,
                                     !.defaultSecretRefs = got.refs,
                                     !.doubt = got # environment, !.job = NoJob]))

ReloadFails ==
    /\ editor.job.kind = "reload"
    /\ Editing([editor EXCEPT !.job = NoJob])

-------------------------------------------------------------------------------
(* The store, and the answers of a write.                                  *)

Jobs == left \union (IF editor.job.kind \in {"none", "reload"} THEN {} ELSE {editor.job})

(* The desktop sends save_environment its argument under another name than *)
(* the command has: it is always refused.                                  *)
Accepted(job, desktop) ==
    CASE job.kind = "save" -> ~desktop
      [] job.kind = "update" -> job.of \in DOMAIN environment.resources
      [] OTHER -> TRUE

NewId == CHOOSE id \in Resources : id \notin DOMAIN environment.resources
Made(job) == IF job.kind = "create" THEN NewId ELSE Draft
Room(job) == job.kind = "create" => DOMAIN environment.resources # Resources    \* a bound

Written(job) ==
    CASE job.kind = "save" -> [environment EXCEPT !.variables = job.variables, !.refs = job.refs]
      [] job.kind = "update" -> [environment EXCEPT !.resources[job.of] = job.variables]
      [] job.kind = "create" -> [environment EXCEPT !.resources = Adding(@, NewId, job.variables)]
      [] job.kind = "delete" -> [environment EXCEPT !.resources = Dropping(@, job.of)]

(* What a write must leave alone, unless the dialog was in doubt or its    *)
(* section is gone from the list.                                          *)
Spares(job) ==
    job.kind = "save" /\ ~job.doubt =>
        CASE job.of = "vault" -> job.variables = environment.variables
          [] job.of = "global-variables" -> job.refs = environment.refs
          [] OTHER -> TRUE

Moved(job, next) ==           \* the job is the dialog's, or one it left behind
    IF job = editor.job
    THEN /\ editor' = [editor EXCEPT !.job = next] /\ UNCHANGED left
    ELSE /\ left' = left \ {job} /\ UNCHANGED editor

SecretStored ==
    \E job \in Jobs :
        /\ job.stage = "put"
        /\ IF job = editor.job THEN /\ editor' = [editor EXCEPT !.job.stage = "sent"] /\ UNCHANGED left
           ELSE /\ left' = (left \ {job}) \union {[job EXCEPT !.stage = "sent"]} /\ UNCHANGED editor
        /\ UNCHANGED <<environment, parameters, overwritten>>

Doubted(jobs) == {[j EXCEPT !.doubt = TRUE] : j \in jobs}

JobApplied(desktop) ==
    \E job \in Jobs :
        /\ job.stage = "sent" /\ Accepted(job, desktop) /\ Room(job)
        /\ environment' = Written(job)
        /\ overwritten' = (overwritten \/ ~Spares(job))
        /\ IF job = editor.job
           THEN /\ editor' = [editor EXCEPT !.job = [job EXCEPT !.made = Made(job), !.stage = "done"]]
                /\ left' = Doubted(left)
           ELSE /\ left' = Doubted(left \ {job})
                /\ editor' = IF ~editor.open THEN editor
                             ELSE IF editor.job.kind \in {"none", "reload"}
                                  THEN [editor EXCEPT !.doubt = TRUE]
                                  ELSE [editor EXCEPT !.doubt = TRUE, !.job.doubt = TRUE]
        /\ UNCHANGED parameters

(* What the handler does with the answer.  A created environment becomes   *)
(* the active section, wherever the user has gone meanwhile.               *)
AfterAnswer(e, job) ==
    CASE job.kind = "save" /\ job.of = "vault" ->
            Effect([e EXCEPT !.defaultSecretRefs = job.refs, !.secretRefs = job.refs])
      [] job.kind = "save" /\ job.of # "vault" -> Effect([e EXCEPT !.defaultVariables = job.variables])
      [] job.kind = "update" -> Effect([e EXCEPT !.environments[job.of] = job.variables])
      [] job.kind = "create" ->
            Effect([e EXCEPT !.active = job.made,
                             !.environments = Adding(IF job.of = Draft THEN Dropping(@, Draft) ELSE @,
                                                     job.made, job.variables)])
      [] job.kind = "delete" ->
            Effect([e EXCEPT !.environments = Dropping(@, job.of), !.active = "global-variables"])

JobAnswered ==
    /\ editor.job.kind \notin {"none", "reload"} /\ editor.job.stage = "done"
    /\ Editing([AfterAnswer(editor, editor.job) EXCEPT !.job = NoJob])

JobRefused(desktop) ==
    \E job \in Jobs :
        /\ job.stage = "sent" /\ ~Accepted(job, desktop)
        /\ Moved(job, NoJob)
        /\ UNCHANGED <<environment, parameters, overwritten>>

(* The store is not reached, or its answer is lost.                        *)
JobFails ==
    \E job \in Jobs :
        /\ IF job = editor.job
           THEN /\ editor' = [editor EXCEPT !.job = NoJob, !.doubt = @ \/ job.stage = "done"]
                /\ UNCHANGED left
           ELSE Moved(job, NoJob)
        /\ UNCHANGED <<environment, parameters, overwritten>>

EnvironmentAsync(desktop) ==
    ReloadRead \/ ReloadAnswered(TRUE) \/ SecretStored \/ JobApplied(desktop) \/ JobAnswered \/ JobRefused(desktop)
EnvironmentFault == ReloadAnswered(FALSE) \/ ReloadFails \/ JobFails

-------------------------------------------------------------------------------
(* Saving one section of the environment leaves the others as they are     *)
(* stored, and once nothing is under way the dialog shows what is stored,  *)
(* although each save also writes what the dialog only remembers.  The     *)
(* exceptions: the dialog could not load what is stored, did not hear how  *)
(* a write ended, or was opened while a write of the dialog before it was  *)
(* still under way; and a save in a section that a reload has removed from *)
(* the list, which goes to the global variables.                           *)
EnvironmentKept ==
    /\ ~overwritten
    /\ editor.open /\ ~Busy /\ ~editor.doubt =>
          /\ editor.defaultVariables = environment.variables
          /\ editor.defaultSecretRefs = environment.refs
          /\ \A id \in DOMAIN editor.environments \ {Draft} :
                id \in DOMAIN environment.resources /\ editor.environments[id] = environment.resources[id]
===============================================================================
