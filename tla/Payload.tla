------------------------------- MODULE Payload -------------------------------
(***************************************************************************)
(* The data of one task on its whole way: the JSON object a client posts,  *)
(* through the generated decoder (internal/api/oas), the columns of the    *)
(* row (internal/repository), the request to the third party               *)
(* (internal/requester), and back from the third party's response to what  *)
(* GetTaskStatus answers.  At every stage a field may be absent, null,     *)
(* empty or full, and each conversion has its own way to tell these apart. *)
(*                                                                         *)
(* The order of steps is fixed here, one process after the other; what     *)
(* they do beside each other is the subject of the module Requester.       *)
(* A JSON value is a member of a small set, and storing it in a JSONB      *)
(* column gives an equal value.  What encoding/json makes of a body, a map *)
(* of jx.Raw, is the library's affair: of it only that json.Unmarshal gets *)
(* the map back.  The request is the http.Request that client.Do is given; *)
(* the headers that net/http writes on its own account (Host,              *)
(* Content-Length) are not part of it.                                     *)
(***************************************************************************)
EXTENDS Integers, Sequences, FiniteSets

CONSTANTS
    ListedMethods, OtherMethods,   \* strings: in the enum of methods, and not
    GoodURLs, BadURLs,             \* strings: a request can be built, or not
    HeaderMaps,                    \* JSON objects: sets of <<name, string>>
    BodyMaps,                      \* JSON objects: sets of <<name, JSON value>>
    Marshal,                       \* what json.Marshal makes of each body
    Canonical,                     \* the canonical form of every header name
    IllTyped,                      \* a value that is not of its field's type
    ThirdPartyAnswers,             \* records: code, headers, length
    NoAnswer,
    MaxMembers                     \* bound of the model: members of the object

ASSUME PayloadAssumption ==
    /\ \A b, c \in BodyMaps : Marshal[b] = Marshal[c] => b = c
    /\ NoAnswer \notin ThirdPartyAnswers

\* A Go map or pointer that may be nil, an Opt of ogen that may not be set, a
\* column that may be NULL.
Null == [set |-> FALSE, value |-> {}]

Some(v) == [set |-> TRUE, value |-> v]

VARIABLES
    media,     \* the Content-Type
    frame,     \* what the body is: a JSON object, or something wrong
    posted,    \* the members of the object that were decoded, in their order
    input,     \* CreateTaskInput, with the bits of the required fields
    stage,     \* how far the task is
    row,       \* its row
    request,   \* the request to the third party
    response,  \* the response of the third party
    status     \* what GetTaskStatus last answered

vars == <<media, frame, posted, input, stage, row, request, response, status>>

NoInput == [bits |-> {}, method |-> "", url |-> "", headers |-> Null, body |-> Null]

NoColumns == [method |-> "", url |-> "", headers |-> Null, body |-> Null,
              code |-> Null, responseHeaders |-> Null, length |-> Null]

NoRequest == [method |-> "", url |-> "", headers |-> {}, body |-> Null]

NoStatus == [headers |-> Null, code |-> Null, length |-> Null]

Init ==
    /\ media \in {"application/json", "other", "unparsable"}
    /\ frame \in {"object", "broken", "trailing", "empty"}
    /\ posted = <<>>
    /\ input = NoInput
    /\ stage = "decode"
    /\ row = NoColumns
    /\ request = NoRequest
    /\ response = NoAnswer
    /\ status = NoStatus

-----------------------------------------------------------------------------
(* The API server: decodeCreateTaskRequest                                 *)

Refuse(code) ==
    /\ stage' = code
    /\ UNCHANGED <<media, frame, input, row, request, response, status>>

\* The header is looked at first; then a body that is not there.
RefuseMedia ==
    /\ stage = "decode" /\ posted = <<>>
    /\ \/ media = "other" /\ Refuse("415")
       \/ media = "unparsable" /\ Refuse("400")
       \/ media = "application/json" /\ frame = "empty" /\ Refuse("400")
    /\ UNCHANGED posted

ValuesOf(key) ==
    CASE key = "method"  -> ListedMethods \cup OtherMethods
      [] key = "url"     -> GoodURLs \cup BadURLs
      [] key = "headers" -> HeaderMaps
      [] key = "body"    -> BodyMaps
      [] OTHER           -> {IllTyped}

JsonKeys == {"method", "url", "headers", "body", "other"}

(***************************************************************************)
(* A member is decoded: a required one sets its bit, numbered by its place *)
(* in jsonFieldsNameOfCreateTaskInput; an optional one is reset first, so  *)
(* that of several members of one name the last counts; others are skipped.*)
(***************************************************************************)
Decoded(in, key, v) ==
    CASE key = "method"  -> [in EXCEPT !.method = v, !.bits = @ \cup {2}]
      [] key = "url"     -> [in EXCEPT !.url = v, !.bits = @ \cup {3}]
      [] key = "headers" -> [in EXCEPT !.headers = Some(v)]
      [] key = "body"    -> [in EXCEPT !.body = Some(v)]
      [] OTHER           -> in

(***************************************************************************)
(* One turn of d.ObjBytes in CreateTaskInput.Decode.                       *)
(***************************************************************************)
DecodeMember(key, v) ==
    /\ stage = "decode" /\ media = "application/json" /\ frame # "empty"
    /\ Len(posted) < MaxMembers
    /\ posted' = Append(posted, <<key, v>>)
    /\ \/ /\ v = IllTyped /\ key # "other"
          /\ Refuse("400")
       \/ /\ v # IllTyped \/ key = "other"
          /\ input' = Decoded(input, key, v)
          /\ UNCHANGED <<media, frame, stage, row, request, response, status>>

\* Mutant: the mask lacks the bit of url.
MissingWithoutURL(in) == {2} \ in.bits

\* The mask of the required fields, 0b00001100, against the bits that are set.
Missing(in) == {2, 3} \ in.bits

\* CreateTaskInput.Validate
Validates(in) == in.method \in ListedMethods

(***************************************************************************)
(* The end of the object: the required fields, then the rest of the body,  *)
(* then Validate; the handler CreateTask gets the input or an error is     *)
(* answered.                                                               *)
(***************************************************************************)
DecodeEnd ==
    /\ stage = "decode" /\ media = "application/json" /\ frame # "empty"
    /\ IF Missing(input) # {} \/ frame # "object" \/ ~Validates(input)
       THEN Refuse("400")
       ELSE /\ stage' = "insert"
            /\ UNCHANGED <<media, frame, input, row, request, response, status>>
    /\ UNCHANGED posted

-----------------------------------------------------------------------------
(* The repository                                                          *)

Marshalled(body) == IF body.set THEN Some(Marshal[body.value]) ELSE Null

Unmarshalled(column) ==
    IF column.set THEN Some(CHOOSE b \in BodyMaps : Marshal[b] = column.value) ELSE Null

\* Mutant: empty maps are taken for nil.
InsertValuesByLength(in) ==
    [NoColumns EXCEPT
        !.method  = in.method,
        !.url     = in.url,
        !.headers = IF in.headers.value # {} THEN in.headers ELSE Null,
        !.body    = IF in.body.value # {} THEN Marshalled(in.body) ELSE Null]

(***************************************************************************)
(* setInsertValues: a nil map is left out of the INSERT, an empty one is   *)
(* not.  The maps are those of the Opts, nil when they are not set.        *)
(***************************************************************************)
InsertValues(in) ==
    [NoColumns EXCEPT
        !.method  = in.method,
        !.url     = in.url,
        !.headers = in.headers,
        !.body    = Marshalled(in.body)]

CreateTask ==
    /\ stage = "insert"
    /\ row' = InsertValues(input)
    /\ stage' = "stored"
    /\ UNCHANGED <<media, frame, posted, input, request, response, status>>

-----------------------------------------------------------------------------
(* The requester                                                           *)

(***************************************************************************)
(* req.Header.Set for every header, in the random order of a Go map: of    *)
(* names with the same canonical form one value stays, whichever came last.*)
(***************************************************************************)
HeadersSet(headers) ==
    {set \in SUBSET {<<Canonical[h[1]], h[2]>> : h \in headers} :
        \A h \in headers : Cardinality({s \in set : s[1] = Canonical[h[1]]}) = 1}

\* A column that is NULL is scanned into a nil map, and a nil map is no body.
RequestBody(columns) == Marshalled(Unmarshalled(columns.body))

(***************************************************************************)
(* makeRequest.  When no request can be built, ProcessTask panics.         *)
(***************************************************************************)
MakeRequest ==
    /\ stage = "stored"
    /\ IF row.url \in BadURLs
       THEN stage' = "panicked" /\ UNCHANGED request
       ELSE /\ stage' = "requested"
            /\ \E headers \in HeadersSet(row.headers.value) :
                  request' = [method |-> row.method, url |-> row.url,
                              headers |-> headers, body |-> RequestBody(row)]
    /\ UNCHANGED <<media, frame, posted, input, row, response, status>>

(***************************************************************************)
(* The third party answers, and ProcessTask's last update stores the code, *)
(* the headers (never nil) and the length, which is -1 when it is unknown. *)
(***************************************************************************)
StoreResponse(r) ==
    /\ stage = "requested"
    /\ response' = r
    /\ row' = [row EXCEPT !.code = Some({r.code}),
                          !.responseHeaders = Some(r.headers),
                          !.length = Some({r.length})]
    /\ stage' = "done"
    /\ UNCHANGED <<media, frame, posted, input, request, status>>

\* Mutant: a length that is not positive is not answered.
StatusOfPositive(columns) ==
    [headers |-> columns.responseHeaders,
     code    |-> columns.code,
     length  |-> IF \E n \in columns.length.value : n > 0 THEN columns.length ELSE Null]

(***************************************************************************)
(* GetTaskStatus: an Opt is set for each column that is not NULL, and the  *)
(* encoder writes the Opts that are set.                                   *)
(***************************************************************************)
StatusOf(columns) ==
    [headers |-> columns.responseHeaders, code |-> columns.code, length |-> columns.length]

GetTaskStatus ==
    /\ stage \in {"stored", "panicked", "requested", "done"}
    /\ status' = StatusOf(row)
    /\ UNCHANGED <<media, frame, posted, input, stage, row, request, response>>

Next ==
    \/ RefuseMedia
    \/ \E key \in JsonKeys : \E v \in ValuesOf(key) \cup {IllTyped} : DecodeMember(key, v)
    \/ DecodeEnd
    \/ CreateTask
    \/ MakeRequest
    \/ \E r \in ThirdPartyAnswers : StoreResponse(r)
    \/ GetTaskStatus

Spec == Init /\ [][Next]_vars

-----------------------------------------------------------------------------
(* Properties                                                              *)

Keys == {posted[n][1] : n \in DOMAIN posted}

\* The value of the last member of that name, in the order of the object.
LastPosted(key) ==
    LET places == {n \in DOMAIN posted : posted[n][1] = key}
    IN  posted[CHOOSE n \in places : \A k \in places : k <= n][2]

(***************************************************************************)
(* The body conforms to openapi.yml: a JSON object with a listed method,   *)
(* a url, and nothing of a wrong type.                                     *)
(***************************************************************************)
Conforms ==
    /\ media = "application/json" /\ frame = "object"
    /\ \A n \in DOMAIN posted : posted[n][2] = IllTyped => posted[n][1] = "other"
    /\ {"method", "url"} \subseteq Keys
    /\ LastPosted("method") \in ListedMethods

(***************************************************************************)
(* The server decides as openapi.yml does, whatever the order of the       *)
(* members, the repeated and the unknown ones: what conforms reaches the   *)
(* handler and is stored, and all else is answered with an error.          *)
(***************************************************************************)
SchemaDecides == stage # "decode" => (Conforms <=> stage \notin {"400", "415"})

(***************************************************************************)
(* The third party gets the request that was posted: its method and URL,   *)
(* a body exactly if one was posted, an empty object included, encoded     *)
(* once although the row was in between, and for every header posted one   *)
(* of the values posted for it, and no other.                              *)
(***************************************************************************)
RequestIsPosted ==
    stage \in {"requested", "done"} =>
        /\ request.method = LastPosted("method")
        /\ request.url = LastPosted("url")
        /\ request.body = IF "body" \in Keys THEN Some(Marshal[LastPosted("body")]) ELSE Null
        /\ LET headers == IF "headers" \in Keys THEN LastPosted("headers") ELSE {}
           IN  /\ \A s \in request.headers :
                     \E h \in headers : Canonical[h[1]] = s[1] /\ h[2] = s[2]
               /\ {s[1] : s \in request.headers} = {Canonical[h[1]] : h \in headers}

(***************************************************************************)
(* A client that asks for a task is shown the whole response, with a code, *)
(* headers and a length that may be empty, zero or unknown, or nothing of  *)
(* a response.                                                             *)
(***************************************************************************)
StatusIsResponse ==
    status \in {NoStatus,
                IF response = NoAnswer THEN NoStatus
                ELSE [headers |-> Some(response.headers),
                      code    |-> Some({response.code}),
                      length  |-> Some({response.length})]}
=============================================================================
