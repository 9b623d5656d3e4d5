---------------------------- MODULE PayloadProofs ----------------------------
(***************************************************************************)
(* The properties of Payload for JSON objects of any length, all values of *)
(* their members, and every encoding of bodies and names of headers.       *)
(*                                                                         *)
(* The invariant gives every record of Payload as a function of what was   *)
(* posted: the input while the object is decoded, the row once it is       *)
(* stored, and the request.                                                *)
(***************************************************************************)
EXTENDS Payload, FiniteSetTheorems, TLAPS

Refused == {"400", "415"}

Stages == {"decode", "insert", "stored", "panicked", "requested", "done"} \cup Refused

Members == UNION {{key} \X (ValuesOf(key) \cup {IllTyped}) : key \in JsonKeys}

IsLast(key, n) ==
    /\ n \in DOMAIN posted /\ posted[n][1] = key
    /\ \A k \in DOMAIN posted : posted[k][1] = key => k <= n

WellTyped == \A n \in DOMAIN posted : posted[n][2] = IllTyped => posted[n][1] = "other"

\* The input as decoding the members one by one must leave it.
PostedInput ==
    [bits    |-> (IF "method" \in Keys THEN {2} ELSE {}) \cup (IF "url" \in Keys THEN {3} ELSE {}),
     method  |-> IF "method" \in Keys THEN LastPosted("method") ELSE "",
     url     |-> IF "url" \in Keys THEN LastPosted("url") ELSE "",
     headers |-> IF "headers" \in Keys THEN Some(LastPosted("headers")) ELSE Null,
     body    |-> IF "body" \in Keys THEN Some(LastPosted("body")) ELSE Null]

\* The row as storing that input and the response must leave it.
PostedRow ==
    LET Answered(v) == IF stage = "done" THEN Some(v) ELSE Null
    IN  [method          |-> PostedInput.method,
         url             |-> PostedInput.url,
         headers         |-> PostedInput.headers,
         body            |-> Marshalled(PostedInput.body),
         code            |-> Answered({response.code}),
         responseHeaders |-> Answered(response.headers),
         length          |-> Answered({response.length})]

PostedInv ==
    /\ posted \in Seq(Members)
    /\ \A key \in Keys : \E n \in DOMAIN posted : IsLast(key, n)

DecodeInv ==
    /\ stage \in Stages
    /\ stage \in Refused => ~Conforms
    /\ stage \notin Refused => WellTyped /\ input = PostedInput
    /\ stage \notin Refused \cup {"decode"} => Conforms

RowInv ==
    /\ stage \in {"decode", "insert"} \cup Refused => row = NoColumns
    /\ stage \in {"stored", "panicked", "requested", "done"} => row = PostedRow

StatusInv ==
    /\ IF stage = "done" THEN response \in ThirdPartyAnswers ELSE response = NoAnswer
    /\ StatusIsResponse

PayloadInv == PostedInv /\ DecodeInv /\ RowInv /\ StatusInv /\ RequestIsPosted

-----------------------------------------------------------------------------
(* What is posted                                                          *)

(***************************************************************************)
(* The last member of a name is the one that no other of that name follows.*)
(***************************************************************************)
LEMMA LastIs ==
    ASSUME NEW s, DOMAIN s \subseteq Int, NEW key, NEW n \in DOMAIN s, s[n][1] = key,
           \A k \in DOMAIN s : s[k][1] = key => k <= n
    PROVE  n = CHOOSE i \in {m \in DOMAIN s : s[m][1] = key} :
                  \A k \in {m \in DOMAIN s : s[m][1] = key} : k <= i
<1> DEFINE places == {m \in DOMAIN s : s[m][1] = key}
           last == CHOOSE i \in places : \A k \in places : k <= i
<1>1. n \in places /\ \A k \in places : k <= n
  OBVIOUS
<1>2. last \in places /\ \A k \in places : k <= last
  BY <1>1
<1>3. n \in Int /\ last \in Int /\ n <= last /\ last <= n
  BY <1>1, <1>2
<1>4. QED
  BY <1>3

LEMMA LastPostedIs ==
    ASSUME PostedInv, NEW key, NEW n, IsLast(key, n)
    PROVE  LastPosted(key) = posted[n][2]
<1>1. DOMAIN posted \subseteq Int
  BY DEF PostedInv
<1>2. n = CHOOSE i \in {m \in DOMAIN posted : posted[m][1] = key} :
             \A k \in {m \in DOMAIN posted : posted[m][1] = key} : k <= i
  BY <1>1, LastIs DEF IsLast
<1>3. QED
  BY <1>2 DEF LastPosted

(***************************************************************************)
(* Decoding a member changes the last one of its name, and no other.       *)
(***************************************************************************)
LEMMA AppendMember ==
    ASSUME PostedInv, NEW key \in JsonKeys, NEW v \in ValuesOf(key) \cup {IllTyped},
           posted' = Append(posted, <<key, v>>)
    PROVE  /\ PostedInv'
           /\ Keys' = Keys \cup {key}
           /\ LastPosted(key)' = v
           /\ \A k \in Keys : k # key => LastPosted(k)' = LastPosted(k)
<1>. PICK N \in Nat : N = Len(posted)
  BY DEF PostedInv
<1>1. <<key, v>> \in Members
  BY DEF Members
<1>2. /\ posted \in Seq(Members) /\ posted' \in Seq(Members)
      /\ DOMAIN posted = 1..N /\ DOMAIN posted' = 1..(N + 1)
      /\ posted'[N + 1] = <<key, v>>
      /\ \A n \in 1..N : posted'[n] = posted[n]
  BY <1>1 DEF PostedInv
<1>3. Keys' = Keys \cup {key}
  BY <1>2 DEF Keys
<1>4. IsLast(key, N + 1)'
  BY <1>2 DEF IsLast
<1>5. ASSUME NEW k \in Keys, k # key
      PROVE  \E n \in 1..N : IsLast(k, n) /\ IsLast(k, n)'
  <2>1. PICK n \in 1..N : IsLast(k, n)
    BY <1>2 DEF PostedInv
  <2>2. IsLast(k, n)'
    BY <1>2, <1>5, <2>1 DEF IsLast
  <2>3. QED
    BY <2>1, <2>2
<1>6. PostedInv'
  BY <1>2, <1>3, <1>4, <1>5 DEF PostedInv
<1>7. LastPosted(key)' = v
  BY <1>2, <1>4, LastIs DEF IsLast, LastPosted
<1>8. ASSUME NEW k \in Keys, k # key
      PROVE  LastPosted(k)' = LastPosted(k)
  <2>1. PICK n \in 1..N : IsLast(k, n) /\ IsLast(k, n)'
    BY <1>5, <1>8
  <2>2. LastPosted(k) = posted[n][2]
    BY <2>1, LastPostedIs
  <2>3. LastPosted(k)' = posted'[n][2]
    <3>1. n = CHOOSE i \in {m \in DOMAIN posted' : posted'[m][1] = k} :
                 \A j \in {m \in DOMAIN posted' : posted'[m][1] = k} : j <= i
      BY <1>2, <2>1, LastIs DEF IsLast
    <3>2. QED
      BY <3>1 DEF LastPosted
  <2>4. QED
    BY <1>2, <2>2, <2>3
<1>9. QED
  BY <1>3, <1>6, <1>7, <1>8

LEMMA PostedStays ==
    ASSUME PostedInv, UNCHANGED <<media, frame, posted>>
    PROVE  /\ PostedInv' /\ WellTyped' = WellTyped /\ Conforms' = Conforms
           /\ Keys' = Keys /\ PostedInput' = PostedInput
           /\ \A key : LastPosted(key)' = LastPosted(key)
<1>1. /\ Keys' = Keys
      /\ \A key : LastPosted(key)' = LastPosted(key)
  BY DEF Keys, LastPosted
<1>2. PostedInv'
  BY <1>1 DEF PostedInv, IsLast
<1>3. QED
  BY <1>1, <1>2 DEF WellTyped, Conforms, PostedInput

-----------------------------------------------------------------------------
(* The API server                                                          *)

LEMMA InitHolds == Init => PayloadInv
<1>. SUFFICES ASSUME Init PROVE PayloadInv
  OBVIOUS
<1>1. posted = <<>> /\ stage = "decode" /\ input = NoInput
  BY DEF Init
<1>2. Keys = {} /\ posted \in Seq(Members) /\ DOMAIN posted = {}
  BY <1>1 DEF Keys
<1>3. PostedInv
  BY <1>2 DEF PostedInv
<1>4. DecodeInv
  BY <1>1, <1>2 DEF DecodeInv, Stages, Refused, WellTyped, PostedInput, NoInput
<1>5. RowInv /\ StatusInv /\ RequestIsPosted
  BY DEF Init, RowInv, StatusInv, StatusIsResponse, RequestIsPosted
<1>6. QED
  BY <1>3, <1>4, <1>5 DEF PayloadInv

(***************************************************************************)
(* An answer with an error ends the request: there is no row.              *)
(***************************************************************************)
LEMMA RefuseHolds ==
    ASSUME PayloadInv, PostedInv', stage = "decode", NEW code \in Refused, Refuse(code), ~Conforms'
    PROVE  PayloadInv'
<1>1. stage' \in Stages /\ stage' \in Refused
  BY DEF Refuse, Stages
<1>2. DecodeInv'
  BY <1>1 DEF DecodeInv
<1>3. RowInv' /\ StatusInv' /\ RequestIsPosted'
  BY <1>1 DEF Refuse, Refused, PayloadInv, RowInv, StatusInv, StatusIsResponse, RequestIsPosted
<1>4. QED
  BY <1>2, <1>3 DEF PayloadInv

LEMMA RefuseMediaHolds ==
    ASSUME PayloadInv, RefuseMedia
    PROVE  PayloadInv'
<1>1. /\ UNCHANGED <<media, frame, posted>> /\ stage = "decode"
      /\ media # "application/json" \/ frame # "object"
      /\ \E code \in Refused : Refuse(code)
  BY DEF RefuseMedia, Refuse, Refused
<1>2. PostedInv' /\ ~Conforms'
  BY <1>1, PostedStays DEF PayloadInv, Conforms
<1>3. QED
  BY <1>1, <1>2, RefuseHolds

(***************************************************************************)
(* Decoding a member keeps the input what the last members of each name    *)
(* make of it.                                                             *)
(***************************************************************************)
LEMMA DecodedIsPosted ==
    ASSUME PostedInv, NEW key \in JsonKeys, NEW v \in ValuesOf(key) \cup {IllTyped},
           posted' = Append(posted, <<key, v>>)
    PROVE  PostedInput' = Decoded(PostedInput, key, v)
<1>1. /\ Keys' = Keys \cup {key}
      /\ LastPosted(key)' = v
      /\ \A k \in Keys : k # key => LastPosted(k)' = LastPosted(k)
  BY AppendMember
<1>2. CASE key = "method"
  BY <1>1, <1>2 DEF PostedInput, Decoded
<1>3. CASE key = "url"
  BY <1>1, <1>3 DEF PostedInput, Decoded
<1>4. CASE key = "headers"
  BY <1>1, <1>4 DEF PostedInput, Decoded
<1>5. CASE key = "body"
  BY <1>1, <1>5 DEF PostedInput, Decoded
<1>6. CASE key = "other"
  BY <1>1, <1>6 DEF PostedInput, Decoded
<1>7. QED
  BY <1>2, <1>3, <1>4, <1>5, <1>6 DEF JsonKeys

LEMMA DecodeMemberHolds ==
    ASSUME PayloadInv, NEW key \in JsonKeys, NEW v \in ValuesOf(key) \cup {IllTyped},
           DecodeMember(key, v)
    PROVE  PayloadInv'
<1>1. stage = "decode" /\ posted' = Append(posted, <<key, v>>) /\ PostedInv
  BY DEF DecodeMember, PayloadInv
<1>2. PostedInv'
  BY <1>1, AppendMember
<1>3. PICK N \in Nat : /\ DOMAIN posted = 1..N /\ DOMAIN posted' = 1..(N + 1)
                       /\ posted'[N + 1] = <<key, v>>
                       /\ \A n \in 1..N : posted'[n] = posted[n]
  <2>1. posted \in Seq(Members) /\ Len(posted) \in Nat
    BY <1>1 DEF PostedInv
  <2>2. QED
    BY <1>1, <2>1
<1>4. CASE v = IllTyped /\ key # "other" /\ Refuse("400")
  <2>1. ~Conforms'
    BY <1>3, <1>4 DEF Conforms
  <2>2. QED
    BY <1>1, <1>2, <1>4, <2>1, RefuseHolds DEF Refused
<1>5. CASE /\ v # IllTyped \/ key = "other"
           /\ input' = Decoded(input, key, v)
           /\ UNCHANGED <<media, frame, stage, row, request, response, status>>
  <2>1. input' = PostedInput'
    BY <1>1, <1>5, DecodedIsPosted DEF PayloadInv, DecodeInv, Refused
  <2>2. WellTyped'
    <3>1. WellTyped
      BY <1>1 DEF PayloadInv, DecodeInv, Refused
    <3>2. QED
      BY <1>3, <1>5, <3>1 DEF WellTyped
  <2>3. DecodeInv'
    BY <1>1, <1>5, <2>1, <2>2 DEF PayloadInv, DecodeInv, Refused
  <2>4. RowInv' /\ StatusInv' /\ RequestIsPosted'
    BY <1>1, <1>5 DEF PayloadInv, RowInv, StatusInv, StatusIsResponse, RequestIsPosted
  <2>5. QED
    BY <1>2, <2>3, <2>4 DEF PayloadInv
<1>6. QED
  BY <1>4, <1>5 DEF DecodeMember

(***************************************************************************)
(* The checks at the end of the object are those of the schema.            *)
(***************************************************************************)
LEMMA ChecksAreConforms ==
    ASSUME media = "application/json", WellTyped, input = PostedInput
    PROVE  Missing(input) # {} \/ frame # "object" \/ ~Validates(input) <=> ~Conforms
<1>1. Missing(input) = {} <=> {"method", "url"} \subseteq Keys
  <2>1. /\ 2 \in input.bits <=> "method" \in Keys
        /\ 3 \in input.bits <=> "url" \in Keys
    <3>1. input.bits = (IF "method" \in Keys THEN {2} ELSE {}) \cup (IF "url" \in Keys THEN {3} ELSE {})
      BY DEF PostedInput
    <3>2. QED
      BY <3>1
  <2>2. Missing(input) = {} <=> 2 \in input.bits /\ 3 \in input.bits
    BY DEF Missing
  <2>3. QED
    BY <2>1, <2>2
<1>2. "method" \in Keys => input.method = LastPosted("method")
  BY DEF PostedInput
<1>3. QED
  BY <1>1, <1>2 DEF Validates, Conforms, WellTyped

LEMMA DecodeEndHolds ==
    ASSUME PayloadInv, DecodeEnd
    PROVE  PayloadInv'
<1>1. /\ UNCHANGED <<media, frame, posted>> /\ stage = "decode"
      /\ media = "application/json" /\ WellTyped /\ input = PostedInput
  BY DEF DecodeEnd, Refuse, PayloadInv, DecodeInv, Refused
<1>2. /\ PostedInv' /\ Conforms' = Conforms
      /\ WellTyped' = WellTyped /\ PostedInput' = PostedInput
  BY <1>1, PostedStays DEF PayloadInv
<1>3. CASE ~Conforms
  <2>1. Refuse("400")
    BY <1>1, <1>3, ChecksAreConforms DEF DecodeEnd
  <2>2. QED
    BY <1>1, <1>2, <1>3, <2>1, RefuseHolds DEF Refused
<1>4. CASE Conforms
  <2>1. stage' = "insert" /\ UNCHANGED <<input, row, request, response, status>>
    BY <1>1, <1>4, ChecksAreConforms DEF DecodeEnd
  <2>2. DecodeInv'
    BY <1>1, <1>2, <1>4, <2>1 DEF DecodeInv, Stages, Refused
  <2>3. RowInv' /\ StatusInv' /\ RequestIsPosted'
    BY <1>1, <2>1 DEF PayloadInv, RowInv, StatusInv, StatusIsResponse, RequestIsPosted
  <2>4. QED
    BY <1>2, <2>2, <2>3 DEF PayloadInv
<1>5. QED
  BY <1>3, <1>4

-----------------------------------------------------------------------------
(* The repository, the requester, and the way back                         *)

LEMMA CreateTaskHolds ==
    ASSUME PayloadInv, CreateTask
    PROVE  PayloadInv'
<1>1. /\ UNCHANGED <<media, frame, posted, input, request, response, status>>
      /\ stage = "insert" /\ stage' = "stored"
      /\ row' = InsertValues(input)
  BY DEF CreateTask
<1>2. /\ PostedInv' /\ Conforms' = Conforms
      /\ WellTyped' = WellTyped /\ PostedInput' = PostedInput
  BY <1>1, PostedStays DEF PayloadInv
<1>3. input = PostedInput /\ Conforms /\ WellTyped
  BY <1>1 DEF PayloadInv, DecodeInv, Refused
<1>4. DecodeInv'
  BY <1>1, <1>2, <1>3 DEF DecodeInv, Stages, Refused
<1>5. row' = PostedRow'
  BY <1>1, <1>2, <1>3 DEF PostedRow, InsertValues, NoColumns, Marshalled
<1>6. RowInv' /\ StatusInv' /\ RequestIsPosted'
  BY <1>1, <1>5 DEF PayloadInv, RowInv, Refused, StatusInv, StatusIsResponse, RequestIsPosted
<1>7. QED
  BY <1>2, <1>4, <1>6 DEF PayloadInv

(***************************************************************************)
(* Whatever the order in which headers are set, for every header that was  *)
(* posted one of the values posted for it is sent, and nothing else.       *)
(***************************************************************************)
LEMMA HeadersAreSent ==
    ASSUME NEW headers, NEW sent \in HeadersSet(headers)
    PROVE  /\ \A s \in sent : \E h \in headers : Canonical[h[1]] = s[1] /\ h[2] = s[2]
           /\ {s[1] : s \in sent} = {Canonical[h[1]] : h \in headers}
<1>1. /\ \A s \in sent : \E h \in headers : s = <<Canonical[h[1]], h[2]>>
      /\ \A h \in headers : Cardinality({s \in sent : s[1] = Canonical[h[1]]}) = 1
  BY DEF HeadersSet
<1>2. \A h \in headers : \E s \in sent : s[1] = Canonical[h[1]]
  <2>1. SUFFICES ASSUME NEW h \in headers, {s \in sent : s[1] = Canonical[h[1]]} = {}
                 PROVE  FALSE
    OBVIOUS
  <2>2. QED
    BY <1>1, <2>1, FS_EmptySet
<1>3. QED
  BY <1>1, <1>2

(***************************************************************************)
(* The body that was stored is the body that is sent: encoded, decoded and *)
(* encoded again, it is encoded once; no body stays no body.               *)
(***************************************************************************)
LEMMA BodyIsSent ==
    ASSUME PostedInv, WellTyped, row.body = Marshalled(PostedInput.body)
    PROVE  RequestBody(row) =
              IF "body" \in Keys THEN Some(Marshal[LastPosted("body")]) ELSE Null
<1>1. CASE "body" \notin Keys
  BY <1>1 DEF RequestBody, Marshalled, Unmarshalled, PostedInput, Null
<1>2. CASE "body" \in Keys
  <2>1. PICK b : b = LastPosted("body")
    OBVIOUS
  <2>2. b \in BodyMaps
    <3>1. PICK n \in DOMAIN posted : IsLast("body", n)
      BY <1>2 DEF PostedInv
    <3>2. posted[n] \in Members /\ posted[n][1] = "body" /\ posted[n][2] = b
      BY <2>1, <3>1, LastPostedIs DEF PostedInv, IsLast
    <3>3. posted[n][2] \in ValuesOf("body") \cup {IllTyped}
      BY <3>2 DEF Members
    <3>4. posted[n][2] # IllTyped
      BY <3>2 DEF WellTyped
    <3>5. QED
      BY <3>2, <3>3, <3>4 DEF ValuesOf
  <2>3. row.body = Some(Marshal[b])
    BY <1>2, <2>1 DEF PostedInput, Marshalled, Some
  <2>4. row.body.set /\ row.body.value = Marshal[b]
    BY <2>3 DEF Some
  <2>5. (CHOOSE c \in BodyMaps : Marshal[c] = row.body.value) = b
    BY <2>2, <2>4, PayloadAssumption
  <2>6. Unmarshalled(row.body) = Some(b)
    BY <2>4, <2>5 DEF Unmarshalled
  <2>7. Marshalled(Some(b)) = Some(Marshal[b])
    BY DEF Marshalled, Some
  <2>8. QED
    BY <1>2, <2>1, <2>6, <2>7 DEF RequestBody
<1>3. QED
  BY <1>1, <1>2

LEMMA MakeRequestHolds ==
    ASSUME PayloadInv, MakeRequest
    PROVE  PayloadInv'
<1>1. /\ UNCHANGED <<media, frame, posted, input, row, response, status>>
      /\ stage = "stored" /\ stage' \in {"panicked", "requested"}
  BY DEF MakeRequest
<1>2. /\ PostedInv' /\ Conforms' = Conforms /\ Keys' = Keys
      /\ WellTyped' = WellTyped /\ PostedInput' = PostedInput
      /\ \A key : LastPosted(key)' = LastPosted(key)
  BY <1>1, PostedStays DEF PayloadInv
<1>3. input = PostedInput /\ Conforms /\ WellTyped /\ row = PostedRow
  BY <1>1 DEF PayloadInv, DecodeInv, Refused, RowInv
<1>4. DecodeInv'
  BY <1>1, <1>2, <1>3 DEF DecodeInv, Stages, Refused
<1>5. row' = PostedRow'
  BY <1>1, <1>2, <1>3 DEF PostedRow
<1>6. RowInv' /\ StatusInv'
  BY <1>1, <1>5 DEF PayloadInv, RowInv, Refused, StatusInv, StatusIsResponse
<1>7. RequestIsPosted'
  <2>1. SUFFICES ASSUME stage' = "requested" PROVE RequestIsPosted'
    BY <1>1 DEF RequestIsPosted
  <2>2. PICK sent \in HeadersSet(row.headers.value) :
          request' = [method |-> row.method, url |-> row.url,
                      headers |-> sent, body |-> RequestBody(row)]
    BY <2>1 DEF MakeRequest
  <2>3. row.method = LastPosted("method") /\ row.url = LastPosted("url")
    BY <1>3 DEF PostedRow, PostedInput, Conforms
  <2>4. row.headers.value = IF "headers" \in Keys THEN LastPosted("headers") ELSE {}
    BY <1>3 DEF PostedRow, PostedInput, Some, Null
  <2>5. RequestBody(row) = IF "body" \in Keys THEN Some(Marshal[LastPosted("body")]) ELSE Null
    BY <1>3, BodyIsSent DEF PostedRow, PayloadInv
  <2>6. PICK headers : headers = IF "headers" \in Keys THEN LastPosted("headers") ELSE {}
    OBVIOUS
  <2>7. /\ \A s \in sent : \E h \in headers : Canonical[h[1]] = s[1] /\ h[2] = s[2]
        /\ {s[1] : s \in sent} = {Canonical[h[1]] : h \in headers}
    BY <2>2, <2>4, <2>6, HeadersAreSent
  <2>8. headers = IF "headers" \in Keys' THEN LastPosted("headers")' ELSE {}
    BY <1>2, <2>6
  <2>9. QED
    BY <1>2, <2>2, <2>3, <2>5, <2>7, <2>8 DEF RequestIsPosted
<1>8. QED
  BY <1>2, <1>4, <1>6, <1>7 DEF PayloadInv

LEMMA StoreResponseHolds ==
    ASSUME PayloadInv, NEW r \in ThirdPartyAnswers, StoreResponse(r)
    PROVE  PayloadInv'
<1>1. /\ UNCHANGED <<media, frame, posted, input, request, status>>
      /\ stage = "requested" /\ stage' = "done" /\ response' = r
      /\ row' = [row EXCEPT !.code = Some({r.code}),
                            !.responseHeaders = Some(r.headers),
                            !.length = Some({r.length})]
  BY DEF StoreResponse
<1>2. /\ PostedInv' /\ Conforms' = Conforms /\ Keys' = Keys
      /\ WellTyped' = WellTyped /\ PostedInput' = PostedInput
      /\ \A key : LastPosted(key)' = LastPosted(key)
  BY <1>1, PostedStays DEF PayloadInv
<1>3. input = PostedInput /\ Conforms /\ WellTyped /\ row = PostedRow
  BY <1>1 DEF PayloadInv, DecodeInv, Refused, RowInv
<1>4. DecodeInv'
  BY <1>1, <1>2, <1>3 DEF DecodeInv, Stages, Refused
<1>5. row' = PostedRow'
  BY <1>1, <1>2, <1>3 DEF PostedRow
<1>6. status = NoStatus
  BY <1>1 DEF PayloadInv, StatusInv, StatusIsResponse
<1>7. RowInv' /\ StatusInv'
  BY <1>1, <1>5, <1>6 DEF RowInv, Refused, StatusInv, StatusIsResponse
<1>8. RequestIsPosted'
  BY <1>1, <1>2 DEF PayloadInv, RequestIsPosted
<1>9. QED
  BY <1>2, <1>4, <1>7, <1>8 DEF PayloadInv

LEMMA GetTaskStatusHolds ==
    ASSUME PayloadInv, GetTaskStatus
    PROVE  PayloadInv'
<1>1. /\ UNCHANGED <<media, frame, posted, input, stage, row, request, response>>
      /\ stage \in {"stored", "panicked", "requested", "done"}
      /\ status' = StatusOf(row)
  BY DEF GetTaskStatus
<1>2. /\ PostedInv' /\ Conforms' = Conforms /\ Keys' = Keys
      /\ WellTyped' = WellTyped /\ PostedInput' = PostedInput
      /\ \A key : LastPosted(key)' = LastPosted(key)
  BY <1>1, PostedStays DEF PayloadInv
<1>3. DecodeInv'
  BY <1>1, <1>2 DEF PayloadInv, DecodeInv
<1>4. row = PostedRow
  BY <1>1 DEF PayloadInv, RowInv
<1>5. RowInv'
  BY <1>1, <1>2, <1>4 DEF RowInv, PostedRow, Refused
<1>6. StatusInv'
  <2>1. CASE stage = "done"
    <3>1. response \in ThirdPartyAnswers /\ response # NoAnswer
      BY <2>1, PayloadAssumption DEF PayloadInv, StatusInv
    <3>2. StatusOf(row) = [headers |-> Some(response.headers),
                           code    |-> Some({response.code}),
                           length  |-> Some({response.length})]
      BY <1>4, <2>1 DEF StatusOf, PostedRow
    <3>3. QED
      BY <1>1, <2>1, <3>1, <3>2 DEF StatusInv, StatusIsResponse
  <2>2. CASE stage # "done"
    <3>1. StatusOf(row) = NoStatus
      BY <1>4, <2>2 DEF StatusOf, PostedRow, NoStatus
    <3>2. QED
      BY <1>1, <2>2, <3>1 DEF PayloadInv, StatusInv, StatusIsResponse
  <2>3. QED
    BY <2>1, <2>2
<1>7. RequestIsPosted'
  BY <1>1, <1>2 DEF PayloadInv, RequestIsPosted
<1>8. QED
  BY <1>2, <1>3, <1>5, <1>6, <1>7 DEF PayloadInv

-----------------------------------------------------------------------------

LEMMA PayloadStep == PayloadInv /\ [Next]_vars => PayloadInv'
<1>. SUFFICES ASSUME PayloadInv, [Next]_vars PROVE PayloadInv'
  OBVIOUS
<1>1. CASE UNCHANGED vars
  <2>1. /\ PostedInv' /\ Conforms' = Conforms /\ Keys' = Keys
        /\ WellTyped' = WellTyped /\ PostedInput' = PostedInput
        /\ \A key : LastPosted(key)' = LastPosted(key)
    BY <1>1, PostedStays DEF PayloadInv, vars
  <2>2. DecodeInv'
    BY <1>1, <2>1 DEF vars, PayloadInv, DecodeInv
  <2>3. RowInv'
    BY <1>1, <2>1 DEF vars, PayloadInv, RowInv, PostedRow
  <2>4. StatusInv' /\ RequestIsPosted'
    BY <1>1, <2>1 DEF vars, PayloadInv, StatusInv, StatusIsResponse, RequestIsPosted
  <2>5. QED
    BY <2>1, <2>2, <2>3, <2>4 DEF PayloadInv
<1>2. QED
  BY <1>1, RefuseMediaHolds, DecodeMemberHolds, DecodeEndHolds, CreateTaskHolds,
     MakeRequestHolds, StoreResponseHolds, GetTaskStatusHolds DEF Next

LEMMA PayloadInvariant == Spec => []PayloadInv
BY InitHolds, PayloadStep, PTL DEF Spec

(***************************************************************************)
(* The server accepts exactly the objects that conform to openapi.yml, of  *)
(* any number of members in any order, with repeated and unknown ones.     *)
(***************************************************************************)
THEOREM SchemaAlwaysDecides == Spec => []SchemaDecides
<1>1. PayloadInv => SchemaDecides
  BY DEF PayloadInv, DecodeInv, SchemaDecides, Refused
<1>2. QED
  BY <1>1, PayloadInvariant, PTL

(***************************************************************************)
(* The third party gets the method, the URL and the headers that were      *)
(* posted, and what json.Marshal makes of the body that was, after all the *)
(* conversions between the two.                                            *)
(***************************************************************************)
THEOREM RequestIsAlwaysPosted == Spec => []RequestIsPosted
BY PayloadInvariant, PTL DEF PayloadInv

(***************************************************************************)
(* A client is shown the whole response of the third party or nothing of   *)
(* one.                                                                    *)
(***************************************************************************)
THEOREM StatusIsAlwaysResponse == Spec => []StatusIsResponse
BY PayloadInvariant, PTL DEF PayloadInv, StatusInv
=============================================================================
