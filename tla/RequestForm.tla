----------------------------- MODULE RequestForm -----------------------------
(***************************************************************************)
(* The editor of one HTTP request (packages/ui/src/HttpWorkbench.tsx): the *)
(* rows of its five tables, the URL that mirrors the query rows, the body  *)
(* modes, the credentials; the request built from it; what of a request    *)
(* is kept, by the store and by the history; and the way back from a kept  *)
(* request to the form, which has to guess the body mode.                  *)
(*                                                                         *)
(* Texts are told apart by how the code reads them, not by their letters:  *)
(* two JSON texts with equal values are the same text.  Values hold no     *)
(* separator ("&", ";").  Name, scripts, assertions and variables are left *)
(* out.                                                                    *)
(***************************************************************************)
EXTENDS Naturals, Sequences, FiniteSets, SequencesExt

CONSTANT
    MaxEdits        \* bound: what the user may change in one behaviour

ASSUME EditsAssumption == MaxEdits \in Nat

VARIABLES
    form,           \* what the editor holds
    kept,           \* the stored request, or a snapshot in the history
    opened,         \* the request the form shows and nobody edited since
    typing,         \* the URL field has the focus
    stray,          \* the query rows are those of the request shown before
    edits           \* how many edits were made, up to MaxEdits

formVars == <<form, kept, opened, typing, stray, edits>>

------------------------------------------------------------------------------
(* Rows of the query, header, cookie and form tables.                      *)

\* filter: the elements at the positions that pass a test, in their order
Nth(positions, i) ==
    CHOOSE p \in positions : Cardinality({q \in positions : q <= p}) = i

Selected(seq, positions) ==
    [i \in 1..Cardinality(positions) |-> seq[Nth(positions, i)]]

\* createHeaderRow, createQueryRow: enabled when there is something in it
CreateRow(key, value) ==
    [key |-> key, value |-> value, note |-> "", on |-> key # "" \/ value # ""]

BlankRow == CreateRow("", "")

\* keyValueRowHasContent; a note is a description, a type or a required mark
HasContent(row) == row.key # "" \/ row.value # "" \/ row.note # ""

\* headerRowsFromPairs, queryRowsFromUrl: one row per pair and room for one
RowsFromPairs(pairs) ==
    Append([i \in DOMAIN pairs |-> CreateRow(pairs[i][1], pairs[i][2])], BlankRow)

\* editKeyValueRow: writing into an empty row enables it, emptying disables
EditRow(row, field, new) ==
    LET next == [row EXCEPT ![field] = new]
    IN  [next EXCEPT !.on = HasContent(next) /\ (row.on \/ ~HasContent(row))]

\* appendEmptyKeyValueRow
AppendEmpty(rows, i) ==
    IF i = Len(rows) /\ HasContent(rows[i]) THEN Append(rows, BlankRow) ELSE rows

\* the change handlers of name, value, type, mark and description
Written(rows, i, field, new) ==
    AppendEmpty([rows EXCEPT ![i] = EditRow(@, field, new)], i)

\* activateEmptyRow: the focus enters an empty, disabled row
Activated(rows, i) ==
    LET next == [rows EXCEPT ![i].on = TRUE]
    IN  IF i = Len(rows) THEN Append(next, BlankRow) ELSE next

\* the check box of a row
Toggled(rows, i) ==
    LET next == [rows EXCEPT ![i].on = ~@]
    IN  IF next[i].on /\ i = Len(rows) THEN Append(next, BlankRow) ELSE next

\* remove
Removed(rows, i) ==
    LET next == RemoveAt(rows, i)
    IN  IF next # <<>> /\ ~HasContent(Last(next)) THEN next ELSE Append(next, BlankRow)

\* the star in the heading: all rows with content required, or none
AllRequired(rows) ==
    LET full == {i \in DOMAIN rows : HasContent(rows[i])}
        mark == IF \A i \in full : rows[i].note = "required" THEN "" ELSE "required"
    IN  [i \in DOMAIN rows |-> IF i \in full THEN [rows[i] EXCEPT !.note = mark]
                                             ELSE rows[i]]

HeaderNames == {"", "Content-Type", "Cookie"}
HeaderValues == {"", "json", "graphql", "form", "msgpack"}

\* what may be typed into a field of a table; the tables share their code, so
\* that marks are only made in two of them
Typable(table, field) ==
    CASE field = "note"  -> IF table \in {"query", "part"} THEN {"", "required"} ELSE {""}
      [] field = "key"   -> IF table = "header" THEN HeaderNames ELSE {"", "a"}
      [] field = "value" -> IF table = "header" THEN HeaderValues
                            ELSE {"", "v"}

\* KeyValueRows: everything the user can make of the rows of a table
RowEdits(table, rows) ==
    (UNION {{Written(rows, i, field, new) :
                 new \in Typable(table, field) \ {rows[i][field]}} :
            i \in DOMAIN rows, field \in {"key", "value", "note"}})
    \cup {Activated(rows, i) : i \in {j \in DOMAIN rows :
                                      ~rows[j].on /\ ~HasContent(rows[j])}}
    \cup {Toggled(rows, i) : i \in DOMAIN rows}
    \cup {Removed(rows, i) : i \in {j \in DOMAIN rows :
                                    j < Len(rows) \/ HasContent(rows[j])}}
    \cup (IF table = "query" THEN {AllRequired(rows)} ELSE {})

\* a value of the URL with a question mark in it; as rows write a value, its
\* question mark is in percent code and is none
SecondMark == "v?w"

\* queryRowsFromUrl: the query ends at the second question mark
ReadQuery(query) ==
    LET mark == SelectInSeq(query, LAMBDA pair : pair[2] = SecondMark)
    IN  IF mark = 0 THEN query
        ELSE [i \in 1..mark |-> IF i = mark THEN <<query[i][1], "v">> ELSE query[i]]

------------------------------------------------------------------------------
(* Parts of a form-data body: rows with their own rules.                   *)

\* createMultipartEditorPart: enabled when it has a name
CreatePart(key, value) == [CreateRow(key, value) EXCEPT !.on = key # ""]

PartsFromRequest(parts) ==
    Append([i \in DOMAIN parts |-> CreatePart(parts[i][1], parts[i][2])], BlankRow)

\* updateMultipart
WithPart(parts, i, part) ==
    LET next == [parts EXCEPT ![i] = part]
    IN  IF i = Len(parts) /\ (HasContent(part) \/ part.on) THEN Append(next, BlankRow)
                                                           ELSE next

\* the delete button of a part
PartRemoved(parts, i) ==
    LET next == RemoveAt(parts, i)
    IN  IF next # <<>> /\ ~HasContent(Last(next)) /\ ~Last(next).on
        THEN next ELSE Append(next, BlankRow)

\* attachMultipartFile: the file's bytes become the value
AttachFile(parts, i) == WithPart(parts, i, EditRow(parts[i], "value", "file"))

\* the form-data table: fields, files, check boxes, focus and delete
PartEdits(parts) ==
    (UNION {{WithPart(parts, i, EditRow(parts[i], field, new)) :
                 new \in Typable("part", field) \ {parts[i][field]}} :
            i \in DOMAIN parts, field \in {"key", "value", "note"}})
    \cup {AttachFile(parts, i) : i \in DOMAIN parts}
    \cup {WithPart(parts, i, [parts[i] EXCEPT !.on = ~@]) : i \in DOMAIN parts}
    \cup {PartRemoved(parts, i) : i \in {j \in DOMAIN parts :
                                         j < Len(parts) \/ HasContent(parts[j])}}

------------------------------------------------------------------------------
(* Bodies.                                                                 *)

Absent == [is |-> "absent"]
Empty == [is |-> "empty"]
Words == [is |-> "words"]                   \* no JSON
Object == [is |-> "object"]                 \* JSON of no special shape
Bytes == [is |-> "bytes"]                   \* a file, in Base64

\* {query, variables, operationName?}; held: its variables are an object, or
\* null, or the text has other members than these
Graphql(held) == [is |-> "graphql", held |-> held]

\* {jsonrpc, method, params, id}; held: its params are an object, or null,
\* or the text has other members than these
Call(id, held) == [is |-> "jsonrpc", id |-> id, held |-> held]

\* the text kept beside a JSON-RPC body: the id as it was typed
CallSource(id, held) == [is |-> "call", id |-> id, held |-> held]

\* what the editors of variables and params hold
Arguments == {"object", "null", "broken"}

\* name=value pairs joined by "&"
Joined(pairs) == IF pairs = <<>> THEN Empty ELSE [is |-> "fields", pairs |-> pairs]

\* encodeMessagePack, in Base64
Packed(text) == [is |-> "packed", of |-> text]

\* what the user may write into a body editor
Texts == {Empty, Words, Object,
          Graphql("object"), Graphql("null"), Graphql("other"),
          Call("number", "object"), Call("number", "null"), Call("quoted", "object"),
          Call("missing", "other")}

\* the id field of the JSON-RPC editor and the id it sends
RpcIds == {"", "1", "word", "null"}
SentId(id) == CASE id = "" -> "zero" [] id = "1" -> "number" [] OTHER -> id
ReadId(id) == IF id \in {"number", "quoted", "missing"} THEN "1" ELSE id

\* BODY_MODES and the content type each one sets
BodyModes == {"none", "multipart", "urlencoded", "json", "xml", "text",
              "graphql", "jsonrpc", "soap", "binary", "msgpack"}

ContentTypeOf(mode, version) ==
    CASE mode \in {"none", "multipart"}             -> ""
      [] mode = "urlencoded"                        -> "form"
      [] mode \in {"json", "graphql", "jsonrpc"}    -> "json"
      [] mode = "soap"                              -> IF version = "1.1" THEN "text/xml"
                                                                          ELSE "soap"
      [] mode = "binary"                            -> "octet"
      [] OTHER                                      -> mode

XmlTypes == {"xml", "text/xml", "soap", "soap-action"}

------------------------------------------------------------------------------
(* From the form to the request.                                           *)

Pairs(rows) ==
    LET sent == Selected(rows, {i \in DOMAIN rows : rows[i].on /\ rows[i].key # ""})
    IN  [i \in DOMAIN sent |-> <<sent[i].key, sent[i].value>>]

\* the pairs that have a name
Named(pairs) == Selected(pairs, {i \in DOMAIN pairs : pairs[i][1] # ""})

Header(name, value) == [name |-> name, value |-> value, cookies |-> <<>>]

\* the headers that hold no cookies
NoCookies(headers) == Selected(headers, {i \in DOMAIN headers : headers[i].name # "Cookie"})

\* the content type is the value of the first such header, "" without one
ContentType(headers) ==
    LET i == SelectInSeq(headers, LAMBDA header : header.name = "Content-Type")
    IN  IF i = 0 THEN "" ELSE headers[i].value

\* the headers buildRequest writes: rows, cookies, then the SOAP action
BuildHeaders(f) ==
    LET typed == Pairs(f.rows.header)
        plain == [i \in DOMAIN typed |-> Header(typed[i][1], typed[i][2])]
        jar == Pairs(f.rows.cookie)
        all == IF jar = <<>> THEN plain
               ELSE Append(plain, [Header("Cookie", "") EXCEPT !.cookies = jar])
        type == SelectInSeq(all, LAMBDA header : header.name = "Content-Type")
    IN  IF f.mode # "soap" \/ f.action = "" THEN all
        ELSE IF f.version = "1.1" THEN Append(all, Header("SOAPAction", f.action))
        ELSE IF type = 0 THEN all
        ELSE [all EXCEPT ![type].value = "soap-action"]

BuildBody(f) ==
    IF f.method = "GET" THEN Absent
    ELSE CASE f.mode \in {"none", "multipart"}     -> Absent
           [] f.mode = "urlencoded"                -> Joined(Pairs(f.rows.field))
           [] f.mode = "graphql"                   -> Graphql(f.variables)
           [] f.mode = "jsonrpc"                   -> Call(SentId(f.id), f.params)
           [] f.mode = "soap"                      -> f.envelope
           [] f.mode = "binary"                    -> f.file
           [] f.mode = "msgpack"                   -> Packed(f.packed)
           [] OTHER                                -> f.body

\* the text the editor keeps to show the body again
BuildSource(f) ==
    CASE f.mode = "msgpack" -> f.packed
      [] f.mode = "graphql" -> Graphql(f.variables)
      [] f.mode = "jsonrpc" -> CallSource(f.id, f.params)
      [] OTHER              -> Absent

AuthKinds == {"none", "bearer", "basic", "api_key",
              "oauth2_client_credentials", "oauth2_authorization_code"}
WithUser == {"basic", "oauth2_client_credentials", "oauth2_authorization_code"}

\* buildAuth.  The name of a key's header, the URLs, the scope and the audience
\* of OAuth travel like the user name.  The references under which an editor
\* keeps the code and its verifier are drawn when it is mounted: "own".
BuildAuth(auth) ==
    LET direct == auth.kind = "bearer" /\ auth.source = "direct"
        code == auth.kind = "oauth2_authorization_code"
    IN  [kind     |-> auth.kind,
         secret   |-> IF auth.kind = "none" \/ direct THEN "" ELSE auth.secret,
         token    |-> IF direct THEN auth.token ELSE "",
         username |-> IF auth.kind \in WithUser THEN auth.username ELSE "",
         redirect |-> IF code THEN auth.redirect ELSE "",
         refs     |-> IF code THEN "own" ELSE ""]

BuildRequest(f) ==
    [method   |-> f.method,
     query    |-> f.query,
     headers  |-> BuildHeaders(f),
     body     |-> BuildBody(f),
     encoding |-> IF f.mode \in {"binary", "msgpack"} THEN "base64" ELSE "text",
     source   |-> BuildSource(f),
     parts    |-> IF f.mode = "multipart" THEN Pairs(f.rows.part) ELSE <<>>,
     auth     |-> BuildAuth(f.auth),
     options  |-> f.options,
     environment |-> f.environment]

\* JSON.parse in buildRequest throws on what is no JSON
Buildable(f) ==
    /\ f.mode = "graphql" => f.variables # "broken"
    /\ f.mode = "jsonrpc" => f.params # "broken"
    /\ f.mode = "msgpack" => f.packed # Words

\* validateParameterNames
NamesValid(f) ==
    \A table \in {"query", "header", "cookie"}
                 \cup (IF f.mode = "urlencoded" THEN {"field"} ELSE {})
                 \cup (IF f.mode = "multipart" THEN {"part"} ELSE {}) :
        \A i \in DOMAIN f.rows[table] :
            LET row == f.rows[table][i]
            IN  row.on => /\ HasContent(row) => row.key # ""
                          /\ row.note = "required" => row.value # ""

\* sanitizeHttpRequestForPersistence, and the same rule of the store
Sanitized(request) ==
    [request EXCEPT !.headers = NoCookies(@), !.auth.token = ""]

\* createHttpRequest: every field of the request goes into the envelope
CreateHttpRequest(request, environment) == [request EXCEPT !.environment = environment]

\* toEnvelope of the web client: the default environment, whichever was chosen
ToEnvelope(request) == CreateHttpRequest(request, "default-env")

\* toInvokeRequest of the desktop: no environment is sent
ToInvokeRequest(request) == [request EXCEPT !.environment = ""]

\* httpRequestFromEnvelope, for a stored request: every field comes back
FromStored(envelope) == envelope

\* fromEnvelope, for a history snapshot: the environment does not come back
FromSnapshot(envelope) == [envelope EXCEPT !.environment = ""]

------------------------------------------------------------------------------
(* From the request back to the form.                                      *)

\* cookieRowsFromHeaders
CookiePairs(headers) ==
    Named(FlattenSeq([i \in DOMAIN headers |->
        IF headers[i].name = "Cookie" THEN headers[i].cookies ELSE <<>>]))

HeaderPairs(headers) ==
    LET others == NoCookies(headers)
    IN  [i \in DOMAIN others |-> <<others[i].name, others[i].value>>]

\* structuredSource: the kept text, or else the body
Structured(request) ==
    IF request.source.is \in {"absent", "empty"} THEN request.body ELSE request.source

LooksLikeGraphql(request) == Structured(request).is = "graphql"
LooksLikeCall(request) == Structured(request).is \in {"jsonrpc", "call"}

\* mutant: the content type decides before the kept text is looked at
DetectByType(request) ==
    LET type == ContentType(request.headers)
        rules == << <<request.parts # <<>>, "multipart">>,
                    <<type = "form", "urlencoded">>,
                    <<type = "json", "json">>,
                    <<type = "msgpack", "msgpack">>,
                    <<type \in XmlTypes, "xml">>,
                    <<request.body \notin {Absent, Empty}, "text">>,
                    <<TRUE, "none">> >>
    IN  rules[SelectInSeq(rules, LAMBDA rule : rule[1])][2]

\* nextBodyMode: the first rule that applies
DetectMode(request) ==
    LET type == ContentType(request.headers)
        rules == << <<request.parts # <<>>, "multipart">>,
                    <<type = "form", "urlencoded">>,
                    <<type = "graphql" \/ LooksLikeGraphql(request), "graphql">>,
                    <<LooksLikeCall(request), "jsonrpc">>,
                    <<request.encoding = "base64" /\ type = "msgpack", "msgpack">>,
                    <<request.encoding = "base64", "binary">>,
                    <<type = "json", "json">>,
                    <<type \in XmlTypes, "xml">>,
                    <<request.body \notin {Absent, Empty}, "text">>,
                    <<TRUE, "none">> >>
    IN  rules[SelectInSeq(rules, LAMBDA rule : rule[1])][2]

\* the credentials applyRequest leaves: without any, the old secret stays;
\* the references of the code are not read, a missing redirect is the default
AppliedAuth(auth, loaded) ==
    LET none == loaded.kind = "none"
    IN  [kind     |-> loaded.kind,
         source   |-> IF loaded.kind = "bearer" /\ loaded.secret # "" /\ loaded.token = ""
                      THEN "secret_ref" ELSE "direct",
         token    |-> IF loaded.kind = "bearer" THEN loaded.token ELSE "",
         secret   |-> IF none THEN auth.secret ELSE loaded.secret,
         username |-> IF none THEN auth.username ELSE loaded.username,
         redirect |-> IF none THEN auth.redirect
                      ELSE IF loaded.redirect = "" THEN "callback" ELSE loaded.redirect]

\* applyRequest: the editors of the other body modes keep what they held
ApplyRequest(f, request) ==
    LET mode == DetectMode(request)
        text == Structured(request)
    IN  [f EXCEPT
            !.method = request.method,
            !.query = request.query,
            !.rows = [query  |-> RowsFromPairs(ReadQuery(request.query)),
                      header |-> RowsFromPairs(HeaderPairs(request.headers)),
                      cookie |-> RowsFromPairs(CookiePairs(request.headers)),
                      field  |-> RowsFromPairs(
                                    IF mode = "urlencoded" /\ request.body.is = "fields"
                                    THEN request.body.pairs ELSE <<>>),
                      part   |-> PartsFromRequest(request.parts)],
            !.mode = mode,
            !.body = IF request.body = Absent THEN Empty ELSE request.body,
            !.file = IF mode # "binary" THEN @
                     ELSE IF request.body = Absent THEN Empty ELSE request.body,
            !.packed = IF mode # "msgpack" THEN @
                       ELSE IF request.source = Absent THEN Object ELSE request.source,
            !.variables = IF mode = "graphql" THEN "object" ELSE @,
            !.params = IF mode = "jsonrpc" THEN "object" ELSE @,
            !.id = IF mode = "jsonrpc" THEN ReadId(text.id) ELSE @,
            !.options = request.options,
            !.environment = IF request.environment = "" THEN "default-env"
                                                        ELSE request.environment,
            !.auth = AppliedAuth(f.auth, request.auth)]

------------------------------------------------------------------------------
(* The editor.                                                             *)

NoAuth == [kind |-> "none", source |-> "direct", token |-> "", secret |-> "",
           username |-> "", redirect |-> "callback"]

NewForm(method) ==
    [method |-> method, query |-> <<>>,
     rows |-> [table \in {"query", "header", "cookie", "field", "part"} |-> <<BlankRow>>],
     mode |-> "none", body |-> Empty, file |-> Empty, packed |-> Object,
     variables |-> "object", params |-> "object", id |-> "1",
     version |-> "1.2", action |-> "", envelope |-> Words,
     auth |-> NoAuth, options |-> "default", environment |-> "default-env"]

\* the queries that may be typed into the URL
Queries == {<<>>, << <<"a", "v">> >>, << <<"", "v">>, <<"a", "">> >>,
            << <<"a", SecondMark>>, <<"a", "v">> >>}

\* requests somebody else stored: a bearer token kept by reference, a code
\* of OAuth under the references of another editor
Imported(auth) == [BuildRequest(NewForm("POST")) EXCEPT
                      !.query = << <<"a", "v">> >>, !.auth = auth]
NoCode == [kind |-> "bearer", secret |-> "s", token |-> "", username |-> "",
           redirect |-> "", refs |-> ""]
OfAnother == [NoCode EXCEPT !.kind = "oauth2_authorization_code", !.username = "u",
                            !.redirect = "callback", !.refs = "theirs"]

NoRequest == [Imported(NoCode) EXCEPT !.method = ""]

FormInit ==
    /\ form = NewForm("GET")
    /\ kept = Imported(NoCode)
    /\ opened = NoRequest
    /\ typing = FALSE
    /\ stray = FALSE
    /\ edits = 0

\* one change the user makes outside the URL field
Change(next) ==
    /\ ~typing
    /\ edits < MaxEdits
    /\ edits' = edits + 1
    /\ form' = next
    /\ opened' = NoRequest
    /\ UNCHANGED <<kept, typing>>

\* mutant: the URL is only rewritten when the change leaves a row to send
EditQueryIfSent ==
    /\ edits < MaxEdits
    /\ \E rows \in RowEdits("query", form.rows.query) :
           Change([form EXCEPT !.rows.query = rows,
                               !.query = IF Pairs(rows) = <<>> THEN @ ELSE Pairs(rows)])
    /\ stray' = FALSE

\* KeyValueRows of the query: the URL follows the rows (urlWithQueryRows)
EditQuery ==
    /\ edits < MaxEdits
    /\ \E rows \in RowEdits("query", form.rows.query) :
           Change([form EXCEPT !.rows.query = rows, !.query = Pairs(rows)])
    /\ stray' = FALSE

EditTable ==
    /\ edits < MaxEdits
    /\ \E table \in {"header", "cookie"}
                    \cup (IF form.mode = "urlencoded" THEN {"field"} ELSE {}) :
           \E rows \in RowEdits(table, form.rows[table]) :
               Change([form EXCEPT !.rows[table] = rows])
    /\ UNCHANGED stray

EditParts ==
    /\ form.mode = "multipart" /\ edits < MaxEdits
    /\ \E parts \in PartEdits(form.rows.part) : Change([form EXCEPT !.rows.part = parts])
    /\ UNCHANGED stray

\* the URL field: the query rows are only read again when it loses the focus
TypeUrl ==
    /\ edits < MaxEdits
    /\ \E query \in Queries \ {form.query} : form' = [form EXCEPT !.query = query]
    /\ typing' = TRUE
    /\ edits' = edits + 1
    /\ opened' = NoRequest
    /\ UNCHANGED <<kept, stray>>

BlurUrl ==
    /\ typing
    /\ typing' = FALSE
    /\ stray' = FALSE
    /\ form' = [form EXCEPT !.rows.query = RowsFromPairs(ReadQuery(form.query))]
    /\ UNCHANGED <<kept, opened, edits>>

SetMethod ==
    /\ \E method \in {"GET", "POST"} \ {form.method} :
           Change([form EXCEPT !.method = method])
    /\ UNCHANGED stray

\* the rows with the content type replaced, as selectBodyMode writes them
WithContentType(rows, type) ==
    LET others == Selected(rows, {i \in DOMAIN rows : rows[i].key # "Content-Type"})
        next == IF type = "" THEN others
                             ELSE <<CreateRow("Content-Type", type)>> \o others
    IN  IF next # <<>> /\ Last(next).key = "" /\ Last(next).value = ""
        THEN next ELSE Append(next, BlankRow)

\* the rows as the SOAP version and the file picker write them: they are
\* made anew from their pairs, so that a disabled row is enabled again
RebuiltRows(rows, type) ==
    LET others == Selected(rows, {i \in DOMAIN rows :
                                  rows[i].key \notin {"", "Content-Type"}})
    IN  RowsFromPairs(<< <<"Content-Type", type>> >>
                      \o [i \in DOMAIN others |-> <<others[i].key, others[i].value>>])

SelectBodyMode ==
    /\ \E mode \in BodyModes :
           Change([form EXCEPT
                    !.mode = mode,
                    !.method = IF mode \in {"graphql", "jsonrpc", "soap", "binary", "msgpack"}
                               THEN "POST" ELSE @,
                    !.rows.header = WithContentType(@, ContentTypeOf(mode, form.version))])
    /\ UNCHANGED stray

\* the body editors of the modes
EditBody ==
    /\ \/ /\ form.mode \in {"json", "xml", "text"}
          /\ \E text \in Texts \ {form.body} : Change([form EXCEPT !.body = text])
       \/ /\ form.mode = "graphql"
          /\ \E held \in Arguments \ {form.variables} : Change([form EXCEPT !.variables = held])
       \/ /\ form.mode = "jsonrpc"
          /\ \/ \E held \in Arguments \ {form.params} : Change([form EXCEPT !.params = held])
             \/ \E id \in RpcIds \ {form.id} : Change([form EXCEPT !.id = id])
       \/ /\ form.mode = "soap"
          /\ \/ \E version \in {"1.1", "1.2"} :
                    Change([form EXCEPT
                            !.version = version,
                            !.rows.header = RebuiltRows(@, ContentTypeOf("soap", version))])
             \/ Change([form EXCEPT !.action = IF @ = "" THEN "act" ELSE ""])
             \/ Change([form EXCEPT !.envelope = IF @ = Empty THEN Words ELSE Empty])
       \/ /\ form.mode = "binary"
          /\ \/ \E type \in {"octet", "json"} :
                    Change([form EXCEPT !.file = Bytes,
                                      !.rows.header = RebuiltRows(@, type)])
             \/ form.file # Empty /\ Change([form EXCEPT !.file = Empty])
       \/ /\ form.mode = "msgpack"
          /\ \E text \in Texts \ {form.packed} : Change([form EXCEPT !.packed = text])
    /\ UNCHANGED stray

\* the credentials; a token that is typed replaces a reference
EditAuth ==
    /\ \/ \E kind \in AuthKinds \ {form.auth.kind} :
              Change([form EXCEPT !.auth.kind = kind])
       \/ /\ form.auth.kind = "bearer"
          /\ \E token \in {"", "t"} :
                 Change([form EXCEPT !.auth.source = "direct", !.auth.token = token])
       \/ /\ form.auth.kind \notin {"none", "bearer"}
          /\ \E secret \in {"", "s"} \ {form.auth.secret} :
                 Change([form EXCEPT !.auth.secret = secret])
       \/ /\ form.auth.kind \in WithUser
          /\ \E username \in {"", "u"} \ {form.auth.username} :
                 Change([form EXCEPT !.auth.username = username])
       \/ /\ form.auth.kind = "oauth2_authorization_code"
          /\ \E redirect \in {"", "callback"} \ {form.auth.redirect} :
                 Change([form EXCEPT !.auth.redirect = redirect])
    /\ UNCHANGED stray

\* timeout, redirects, retries, proxy, certificates; the environment
EditOptions ==
    /\ \/ Change([form EXCEPT !.options = IF @ = "default" THEN "other" ELSE "default"])
       \/ Change([form EXCEPT !.environment =
                    IF @ = "default-env" THEN "other-env" ELSE "default-env"])
    /\ UNCHANGED stray

\* handleSave and the snapshot of handleSend: the request is kept sanitized
KeepRequest ==
    /\ ~typing
    /\ Buildable(form)
    /\ NamesValid(form)
    /\ LET request == Sanitized(BuildRequest(form))
       IN  kept' \in {ToEnvelope(request), ToInvokeRequest(request)}
    /\ UNCHANGED <<form, opened, typing, stray, edits>>

\* hydration with a stored request, or handleReplay with a snapshot
OpenKept ==
    /\ ~typing
    /\ \E request \in {FromStored(kept), FromSnapshot(kept)} :
           form' = ApplyRequest(form, request)
    /\ opened' = kept
    /\ stray' = FALSE
    /\ UNCHANGED <<kept, typing, edits>>

\* hydration with a request that another editor stored, or this one before it
\* was mounted again
OpenAnothers ==
    /\ ~typing
    /\ edits < MaxEdits
    /\ edits' = edits + 1
    /\ form' = ApplyRequest(form, Imported(OfAnother))
    /\ opened' = Imported(OfAnother)
    /\ stray' = FALSE
    /\ UNCHANGED <<kept, typing>>

\* hydration with the draft the interface design was written into: a cookie
\* of the design is the last of its headers
OpenDesigned ==
    LET designed == [kept EXCEPT
                        !.headers = Append(@, [Header("Cookie", "") EXCEPT
                                                  !.cookies = << <<"a", "v">> >>])]
    IN  /\ ~typing
        /\ form' = ApplyRequest(form, designed)
        /\ opened' = designed
        /\ stray' = FALSE
        /\ UNCHANGED <<kept, typing, edits>>

\* hydration with a request of the GraphQL, SOAP or JSON-RPC workbench: the
\* query rows, cookies and credentials of the request shown before stay
OpenForeign ==
    /\ ~typing
    /\ edits < MaxEdits
    /\ edits' = edits + 1
    /\ \E mode \in {"graphql", "soap", "jsonrpc"} :
           form' = [form EXCEPT
                       !.method = "POST", !.query = << <<"a", "v">> >>, !.mode = mode,
                       !.rows.header = RowsFromPairs(IF mode = "graphql"
                                                     THEN << <<"Content-Type", "json">> >>
                                                     ELSE <<>>),
                       !.variables = IF mode = "graphql" THEN "object" ELSE @,
                       !.params = IF mode = "jsonrpc" THEN "object" ELSE @,
                       !.id = IF mode = "jsonrpc" THEN "null" ELSE @,
                       !.version = IF mode = "soap" THEN "1.2" ELSE @,
                       !.action = IF mode = "soap" THEN "act" ELSE @,
                       !.envelope = IF mode = "soap" THEN Words ELSE @]
    /\ stray' = TRUE
    /\ opened' = NoRequest
    /\ UNCHANGED <<kept, typing>>

FormNext ==
    \/ EditQuery \/ EditTable \/ EditParts
    \/ TypeUrl \/ BlurUrl
    \/ SetMethod \/ SelectBodyMode \/ EditBody
    \/ EditAuth \/ EditOptions
    \/ KeepRequest \/ OpenKept \/ OpenAnothers \/ OpenDesigned \/ OpenForeign

FormSpec == FormInit /\ [][FormNext]_formVars

------------------------------------------------------------------------------
(* Properties.                                                             *)

Sent(request) == request.method # "GET"

\* The requests whose body the form is known to read differently from how
\* it was written: the content type promises a form or GraphQL and the body
\* is another; variables or params are null, which comes back as an empty
\* object; a typed body looks like GraphQL or JSON-RPC but holds more or less
\* than the editor writes, or a quoted number as its id; the text of a
\* MessagePack body looks like GraphQL or JSON-RPC; a file is sent with the
\* content type of MessagePack.
BodyMisread(request) ==
    /\ Sent(request)
    /\ request.parts = <<>>
    /\ LET type == ContentType(request.headers)
           text == Structured(request)
       IN  \/ /\ type = "form"
              /\ request.body.is \notin {"absent", "empty", "fields"}
           \/ /\ type = "graphql"
              /\ request.body # Graphql("object")
           \/ text.is = "graphql" /\ (text.held # "object" \/ request.encoding = "base64")
           \/ text.is = "call" /\ text.held # "object"
           \/ text.is = "jsonrpc" /\ (\/ text.held # "object"
                                      \/ text.id = "quoted"
                                      \/ request.encoding = "base64")
           \/ /\ type = "msgpack" /\ request.encoding = "base64"
              /\ request.source = Absent /\ request.body # Packed(Object)

\* And the credentials: an authorization code is asked for under the
\* references of this editor, and an empty redirect becomes the default.
AuthMisread(auth) ==
    /\ auth.kind = "oauth2_authorization_code"
    /\ auth.refs # "own" \/ auth.redirect = ""

Misread(request) == BodyMisread(request) \/ AuthMisread(request.auth)

\* no body and an empty body are the same on the wire, and the environment
\* does not reach it
SameOnWire(one, other) ==
    /\ one.method = other.method
    /\ one.query = other.query
    /\ one.headers = other.headers
    /\ one.parts = other.parts
    /\ one.auth = other.auth
    /\ one.options = other.options
    /\ \/ one.body = other.body /\ one.encoding = other.encoding
       \/ {one.body, other.body} \subseteq {Absent, Empty}

\* A request that was kept and opened again is sent as it was kept, whatever
\* the form held before: the body mode applyRequest guesses from the content
\* type, the encoding and the kept text builds the same body, the same
\* credentials are sent, and nothing of the request shown before comes along.
\* The requests of Misread, and no others, are the exception.
ReopensAsSent ==
    opened # NoRequest => (SameOnWire(BuildRequest(form), opened) <=> ~Misread(opened))

\* The query that is sent is the query the table shows: the named pairs of
\* the URL, up to a second question mark, are the enabled named rows, in their
\* order, through every edit on either side.  While the URL is being typed,
\* and after a request of another workbench was opened, the rows are those of
\* the URL before.
RowsMatchUrl ==
    (~typing /\ ~stray) => Named(ReadQuery(form.query)) = Pairs(form.rows.query)
=============================================================================
