---------------------------- MODULE DesignMerge ----------------------------
(***************************************************************************)
(* The design of FieldTree is merged into the request that is being        *)
(* debugged, at every change of the design: mergeDesignIntoHttpDraft, a    *)
(* function of the design and the draft, checked on every design the       *)
(* editor can reach.                                                       *)
(*                                                                         *)
(* A draft holds parameters, headers and cookies, by name in one case, in  *)
(* their order for each name, and a body.  Its address is one that URL     *)
(* reads: for another one the merge throws before it changes anything.     *)
(***************************************************************************)
EXTENDS FieldTree, Sequences

CONSTANTS BodyModes     \* of "none", "form-data", "urlencoded", "json", "binary", ...

(* Modes in which the body is text that the user types.                    *)
TextModes == BodyModes \ {"none", "form-data", "urlencoded", "binary"}

(* A value is empty or typed; one has a variable and an equals sign in it. *)
Mixed == "{{v}}=w"
DraftValues == {"", "typed", Mixed}

(* URLSearchParams writes the braces of a variable in percent code, so     *)
(* that nothing replaces it any more; the fragment goes.                   *)
Encoded(value) == IF value = Mixed THEN "%7B%7Bv%7D%7D%3Dw" ELSE value
Requoted(params) ==
    [n \in DOMAIN params |-> [i \in DOMAIN params[n] |-> Encoded(params[n][i])]]

(* A cookie is split at every equals sign, and the first two pieces stay;  *)
(* of several with one name the last.                                      *)
UpToEquals(value) == IF value = Mixed THEN "{{v}}" ELSE value
Reread(cookies) == [n \in DOMAIN cookies |-> <<UpToEquals(cookies[n][Len(cookies[n])])>>]

Designed(scope) == {fields[f].name : f \in {g \in DOMAIN fields : fields[g].scope = scope}} \ {""}

Overwritten(old, names) ==                          \* mutant: a designed name is set, not only added
    [n \in DOMAIN old \union names |-> IF n \in names THEN <<"">> ELSE old[n]]
Added(old, names) ==
    [n \in DOMAIN old \union names |-> IF n \in DOMAIN old THEN old[n] ELSE <<"">>]

(* The header of the body's type is the mode's, or none; a designed one    *)
(* called Cookie is empty and goes when the cookies are read again.        *)
OwnType(mode) == IF mode \in {"none", "form-data"} THEN {} ELSE {"Content-Type"}
MergedHeaders(headers, mode) ==
    LET all == Added(headers, Designed("request.headers") \ {"Cookie"}) IN
    [n \in (DOMAIN all \ {"Content-Type"}) \union OwnType(mode) |->
        IF n = "Content-Type" THEN <<mode>> ELSE all[n]]

BodyFields == {f \in DOMAIN fields : fields[f].scope = "request.body" /\ fields[f].name # ""}
BodyRoots == {f \in BodyFields : fields[f].parentId \notin BodyFields}

(* Forms are built from the fields again, a typed text body stays.         *)
MergedBody(draft, mode) ==
    IF mode \in {"none", "form-data", "binary"} THEN ""
    ELSE IF mode = "urlencoded" THEN IF BodyRoots = {} THEN "" ELSE "examples"
    ELSE IF BodyFields # {} /\ draft.body = "" THEN "examples"
    ELSE draft.body

MergedParts(draft, mode) ==
    IF mode = "form-data" THEN {<<fields[f].name, f>> : f \in BodyRoots}
    ELSE IF mode = "none" THEN {} ELSE draft.parts

MergeDesign(draft, mode) ==
    [params |-> Requoted(Added(draft.params, Designed("request.params"))),
     fragment |-> FALSE,
     headers |-> MergedHeaders(draft.headers, mode),
     cookies |-> Added(Reread(draft.cookies), Designed("request.cookies")),
     body |-> MergedBody(draft, mode),
     parts |-> MergedParts(draft, mode)]

-------------------------------------------------------------------------------
(* The drafts to look at.  Parameters, headers and cookies do not          *)
(* influence each other, so that drafts with the same in each are enough.  *)
Lists == {<<Mixed, "typed">>, <<"typed", Mixed>>}
Alike(names, list) == [n \in names \union {"Content-Type"} |-> list]
Given == {Alike(names, list) : names \in SUBSET Names, list \in Lists}
Draft(given, body) ==
    [params |-> given, fragment |-> TRUE, headers |-> given, cookies |-> given, body |-> body, parts |-> {}]
Drafts == {Draft(given, "") : given \in Given} \union {Draft([n \in {} |-> <<"">>], "typed")}

(* What is kept of a typed draft: all parameters but the variables in      *)
(* them, all headers but the body's type, the last cookie of each name up  *)
(* to a second equals sign, and a body that is text.                       *)
ParamsKept(old, new) ==
    \A n \in DOMAIN old :
        /\ n \in DOMAIN new /\ DOMAIN new[n] = DOMAIN old[n]
        /\ \A i \in DOMAIN old[n] : old[n][i] # Mixed => new[n][i] = old[n][i]
HeadersKept(old, new) ==
    \A n \in DOMAIN old \ {"Content-Type"} : n \in DOMAIN new /\ new[n] = old[n]
CookiesKept(old, new) ==
    \A n \in DOMAIN old :
        LET last == old[n][Len(old[n])] IN
        n \in DOMAIN new /\ (last # Mixed => new[n] = <<last>>)
BodyKept(old, new, mode) == mode \in TextModes /\ old = "typed" => new = "typed"

DesignShown(merged) ==
    /\ Designed("request.params") \subseteq DOMAIN merged.params
    /\ Designed("request.headers") \ {"Cookie", "Content-Type"} \subseteq DOMAIN merged.headers
    /\ Designed("request.cookies") \subseteq DOMAIN merged.cookies

TypeIsMode(merged, mode) ==
    IF mode \in {"none", "form-data"} THEN "Content-Type" \notin DOMAIN merged.headers
    ELSE "Content-Type" \in DOMAIN merged.headers /\ merged.headers["Content-Type"] = <<mode>>

Keeps(draft, mode) ==
    LET merged == MergeDesign(draft, mode) IN
    /\ ParamsKept(draft.params, merged.params)
    /\ HeadersKept(draft.headers, merged.headers)
    /\ CookiesKept(draft.cookies, merged.cookies)
    /\ BodyKept(draft.body, merged.body, mode)
    /\ DesignShown(merged) /\ TypeIsMode(merged, mode)
    /\ MergeDesign(merged, mode) = merged

(* Bringing a design into the debug form keeps what the user typed (test:  *)
(* "merges design structure into HTTP debugging without replacing existing *)
(* values") but for what is named above and the bodies that are rebuilt    *)
(* from fields (forms, binary and none); every designed name appears, but  *)
(* for headers called Cookie or Content-Type; the body's type is that of   *)
(* the mode; and since the result is the draft of the next change, doing   *)
(* it again changes nothing.                                               *)
MergeKeepsValues == \A draft \in Drafts, mode \in BodyModes : Keeps(draft, mode)
=============================================================================
