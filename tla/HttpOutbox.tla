----------------------------- MODULE HttpOutbox -----------------------------
(***************************************************************************)
(* pqueue::http::Outbox (http/outbox.cpp) over pqueue::Outbox: what it       *)
(* queues are requests in the byte layout of http/request_envelope.cpp, and  *)
(* its send callback, sendStoredRequest(), decodes, expands, posts and       *)
(* classifies.  A payload of module Outbox is the number of a request; its   *)
(* bytes are record[payload].  The transport, the server and the expandBody  *)
(* callback are outside; every answer they may give is a choice.             *)
(*                                                                           *)
(* A byte is a number below ByteBase (256 in the code), so that both length  *)
(* fields and the limit they put on a path are those of the code in small.   *)
(***************************************************************************)
EXTENDS Outbox, SequencesExt

CONSTANTS
    ByteBase,       \* values of a byte
    BaseUrl,        \* httpConfig_.baseUrl
    Requests,       \* what the application submits: [encoding, path, body]
    Inherited,      \* records an earlier firmware may have left: [bytes, request],
                    \* the request None for bytes that are none
    Inexpandable,   \* compact bodies expandBody() answers false for
    Answers         \* what transport_.post() returns: [error, status, hint]

VARIABLES
    record,     \* payload -> the stored bytes of the request
    expander,   \* this firmware configures expandBody
    posted,     \* the request the transport was last given in this call, or None
    answer,     \* the Response it returned, or None
    \* Observers:
    request,    \* payload -> the request that was submitted
    queued,     \* requests ever stored
    accepted,   \* payload -> how often the server took it (at most 2 are counted)
    unheard,    \* requests one of whose answers was a transport error
    delivered,  \* requests a 2xx response was received for
    reported    \* requests onDrop was called for

None == [none |-> TRUE]

httpSeen == <<request, queued, accepted, unheard, delivered, reported>>
httpVars == <<vars, record, expander, posted, answer, httpSeen>>

-----------------------------------------------------------------------------
(* encodeRequestEnvelope() and decodeRequestEnvelope(). *)

Raw     == 0
Compact == 1
Post    == 1        \* Method::Post
V1      == 1        \* kHttpRequestEnvelopeV1: no encoding byte
V2      == 2        \* kHttpRequestEnvelopeVersion
Magic   == <<2, 1, 0, 2>>

Bytes16(n) == <<n % ByteBase, (n \div ByteBase) % ByteBase>>
Bytes32(n) == Bytes16(n) \o Bytes16((n \div ByteBase) \div ByteBase)
Number16(s, i) == s[i] + ByteBase * s[i + 1]
Number32(s, i) == Number16(s, i) + ByteBase * (ByteBase * Number16(s, i + 2))

Limit16 == ByteBase * ByteBase
Limit32 == ByteBase * (ByteBase * Limit16)

\* Variant: the limit itself is one too many.
FitsLengthAtLimit(r) == Len(r.path) <= Limit16 /\ Len(r.body) < Limit32
Encodable(r) == Len(r.path) < Limit16 /\ Len(r.body) < Limit32

Lengths(r) == Bytes16(Len(r.path)) \o Bytes32(Len(r.body))
Encode(r)  == Magic \o <<V2, Post, r.encoding>> \o Lengths(r) \o r.path \o r.body

\* What the first version wrote, which knew no encoding byte.
EncodeV1(r) == Magic \o <<V1, Post>> \o Lengths(r) \o r.path \o r.body

\* Where path_len starts, past the encoding byte if the version has one.
LengthsAt(s) == IF s[5] = V1 THEN 7 ELSE 8
PathLength(s) == Number16(s, LengthsAt(s))
BodyLength(s) == Number32(s, LengthsAt(s) + 2)

Headed(s) ==
    /\ Len(s) >= 6 /\ SubSeq(s, 1, 4) = Magic /\ s[6] = Post
    /\ \/ s[5] = V1
       \/ s[5] = V2 /\ Len(s) >= 7 /\ s[7] \in {Raw, Compact}
    /\ Len(s) >= LengthsAt(s) + 5

\* Variant: bytes behind the body are ignored.
DecodesLoosely(s) == Headed(s) /\ Len(s) >= LengthsAt(s) + 5 + PathLength(s) + BodyLength(s)
Decodes(s) == Headed(s) /\ Len(s) = LengthsAt(s) + 5 + PathLength(s) + BodyLength(s)

Decode(s) ==
    LET path == LengthsAt(s) + 6
    IN  [encoding |-> IF s[5] = V1 THEN Raw ELSE s[7],
         path     |-> SubSeq(s, path, path + PathLength(s) - 1),
         body     |-> SubSeq(s, path + PathLength(s), Len(s))]

Byte    == 0..(ByteBase - 1)
Request == [encoding : {Raw, Compact}, path : Seq(Byte), body : Seq(Byte)]
IsOf(bytes, r) == \/ bytes = Encode(r)
                  \/ bytes = EncodeV1(r) /\ r.encoding = Raw

ASSUME HttpConstants ==
    /\ ByteBase \in Nat /\ ByteBase > 2
    /\ BaseUrl \in Seq(Byte) /\ Requests \subseteq Request
    /\ \A a \in Answers : a.error \in BOOLEAN /\ a.status \in Nat /\ a.hint \in Hints
    /\ Inherited # {} => 1 \in Payload
    /\ \A old \in Inherited :
          /\ old.bytes \in Seq(Byte)
          /\ old.request # None =>
                old.request \in Request /\ Encodable(old.request) /\ IsOf(old.bytes, old.request)

-----------------------------------------------------------------------------
(* buildUrl() and defaultClassifyResponse(). *)

Slash == 2      \* the byte '/'

BuildUrl(path) ==
    IF BaseUrl = <<>> \/ path = <<>> THEN BaseUrl \o path
    ELSE IF Last(BaseUrl) = Slash /\ Head(path) = Slash THEN BaseUrl \o Tail(path)
    ELSE IF Last(BaseUrl) # Slash /\ Head(path) # Slash THEN BaseUrl \o <<Slash>> \o path
    ELSE BaseUrl \o path

Successful(status) == 200 <= status /\ status < 300
\* Variant: every 4xx is the client's fault.
RetryableServerErrors(status) == status \notin {501, 505, 508} /\ 500 <= status /\ status < 600
Retryable(status) ==
    status \notin {501, 505, 508} /\ (status \in {408, 429} \/ (500 <= status /\ status < 600))

\* Variant: a success other than 200 is asked for again.
ClassifyOkOnly(a) == IF a.error THEN "RetryLater"
                     ELSE IF a.status = 200 THEN "Sent"
                     ELSE IF Successful(a.status) \/ Retryable(a.status) THEN "RetryLater" ELSE "Drop"
Classify(a) == IF a.error THEN "RetryLater"
               ELSE IF Successful(a.status) THEN "Sent"
               ELSE IF Retryable(a.status) THEN "RetryLater" ELSE "Drop"

-----------------------------------------------------------------------------
HttpInit ==
    /\ \/ /\ InitWith(<<>>)
          /\ record = [p \in Payload |-> <<>>] /\ request = [p \in Payload |-> None]
       \/ /\ InitWith(<<1>>)
          /\ \E old \in Inherited :
                /\ record  = [p \in Payload |-> IF p = 1 THEN old.bytes ELSE <<>>]
                /\ request = [p \in Payload |-> IF p = 1 THEN old.request ELSE None]
    /\ expander \in BOOLEAN /\ posted = None /\ answer = None
    /\ queued = Range(queue) /\ accepted = [p \in Payload |-> 0]
    /\ unheard = {} /\ delivered = {} /\ reported = {}

Queued == queued' = queued \cup Range(queue')

\* submitPost() and submitCompactPost().
SubmitPost(r) ==
    /\ Encodable(r) /\ Submit
    /\ record' = [record EXCEPT ![next] = Encode(r)]
    /\ request' = [request EXCEPT ![next] = r]
    /\ Queued
    /\ UNCHANGED <<expander, posted, answer, accepted, unheard, delivered, reported>>

\* SendError: nothing is stored or sent.
SubmitRefused(r) == pc = "app" /\ ~Encodable(r) /\ UNCHANGED httpVars

-----------------------------------------------------------------------------
(* sendStoredRequest(), the send callback of a live send and of a drain. *)

Sending  == pc \in {"live", "retry"}
Stored   == record[sending]
Expanded(body) == <<1>> \o body     \* what the application's callback makes of it

Expandable == expander /\ Decode(Stored).body \notin Inexpandable
Postable   == Decodes(Stored) /\ (Decode(Stored).encoding = Compact => Expandable)

Content(r) == IF r.encoding = Compact THEN Expanded(r.body) ELSE r.body

\* The server may have taken a request whose answer never arrived.
PostRequest(a) ==
    /\ Sending /\ posted = None /\ Postable
    /\ LET r == Decode(Stored)
       IN  posted' = [url |-> BuildUrl(r.path), body |-> Content(r)]
    /\ answer' = a
    /\ \E taken \in (IF a.error THEN {0, 1} ELSE IF Successful(a.status) THEN {1} ELSE {0}) :
          accepted' = [accepted EXCEPT ![sending] = Least(@ + taken, 2)]
    /\ unheard' = IF a.error THEN unheard \cup {sending} ELSE unheard
    /\ delivered' = IF ~a.error /\ Successful(a.status) THEN delivered \cup {sending} ELSE delivered
    /\ UNCHANGED <<vars, record, expander, request, queued, reported>>

Answered == posted # None
Over     == posted' = None /\ answer' = None
            /\ UNCHANGED <<record, expander, request, accepted, unheard, delivered>>

RequestSent ==
    /\ Answered /\ Classify(answer) = "Sent" /\ Settled
    /\ Over /\ Queued /\ UNCHANGED reported

\* Variant: a compact request without its callback is dropped without a word.
GivenUpSilently == reported' = IF Decodes(Stored) /\ ~Answered THEN reported ELSE reported \cup {sending}
\* notifyDrop(), then SendDecision::Drop.
NotifyDrop == reported' = reported \cup {sending}

\* ServerRejected.
RequestRejected ==
    /\ Answered /\ Classify(answer) = "Drop" /\ Settled
    /\ NotifyDrop /\ Over /\ Queued

RequestRetryLater ==
    /\ Answered /\ Classify(answer) = "RetryLater"
    /\ LiveRetryLater(answer.hint) \/ DrainRetryLater(answer.hint)
    /\ Over /\ Queued /\ UNCHANGED reported

\* Variant: what cannot be posted now may be posted by a later firmware.
UnpostableWaits ==
    /\ Sending /\ ~Answered /\ ~Postable
    /\ LiveRetryLater(0) \/ DrainRetryLater(0)
    /\ Over /\ Queued /\ UNCHANGED reported
\* DecodeFailed or ExpandFailed: given up before any post.
Unpostable ==
    /\ Sending /\ ~Answered /\ ~Postable /\ Settled
    /\ NotifyDrop /\ Over /\ Queued

\* sendStoredRequest() is about to answer Drop.
Dropping == Sending /\ IF Answered THEN Classify(answer) = "Drop" ELSE ~Postable

\* The steps of the outbox that are no send, and those of its surroundings. The
\* firmware after a power loss may have another configuration.
Underneath ==
    /\ \/ Drain \/ Return \/ DrainSendStart \/ Tick \/ Damage
    /\ Queued
    /\ UNCHANGED <<record, expander, posted, answer, request, accepted, unheard, delivered, reported>>

\* Power is lost before the record of a live send can be stored unless its answer
\* was RetryLater, and perhaps between notifyDrop() and pop().
Reboot ==
    /\ PowerLoss /\ expander' \in BOOLEAN
    /\ queue' # queue => Answered /\ Classify(answer) = "RetryLater"
    /\ reported' = reported \/ (Dropping /\ NotifyDrop)
    /\ posted' = None /\ answer' = None /\ Queued
    /\ UNCHANGED <<record, request, accepted, unheard, delivered>>

Posting  == \E a \in Answers : PostRequest(a)
Deciding == RequestSent \/ RequestRejected \/ RequestRetryLater \/ Unpostable

HttpNext ==
    \/ \E r \in Requests : SubmitPost(r) \/ SubmitRefused(r)
    \/ Posting \/ Deciding
    \/ Underneath \/ Reboot
HttpSpec == HttpInit /\ [][HttpNext]_httpVars

\* As FairSpec of Outbox, and the server gives every request a final answer once.
Final(a) == Classify(a) # "RetryLater"
FairHttpSpec ==
    /\ HttpSpec
    /\ WF_httpVars(Tick /\ Underneath) /\ WF_httpVars(Drain /\ Underneath)
    /\ WF_httpVars((Return \/ DrainSendStart) /\ Underneath)
    /\ WF_httpVars(Posting) /\ WF_httpVars(Deciding)
    /\ SF_httpVars(\E a \in Answers : Final(a) /\ PostRequest(a))

-----------------------------------------------------------------------------
\* What submitPost() or submitCompactPost() stored can be read back, whatever the
\* lengths of its fields: nothing that was accepted ends as DecodeFailed.
StoredDecodes == \A p \in queued : request[p] # None => Decodes(record[p])

\* What the server is sent is what the application submitted, for records of the
\* first envelope version too (request_envelope.cpp:108), at the URL usage.md:398-400
\* describes; bytes that are no request are never posted.
WithoutSlash(base) == IF Last(base) = Slash THEN Front(base) ELSE base
Relative(path) == IF Head(path) = Slash THEN Tail(path) ELSE path
UrlOf(path) == IF BaseUrl = <<>> \/ path = <<>> THEN BaseUrl \o path
               ELSE WithoutSlash(BaseUrl) \o <<Slash>> \o Relative(path)
PostedAsSubmitted ==
    Answered => /\ request[sending] # None
                /\ posted = [url |-> UrlOf(request[sending].path), body |-> Content(request[sending])]

\* A stored request that is neither queued nor damaged was taken by the server or
\* reported to onDrop; only eviction by DropOldest is silent.
LossIsReported ==
    policy = "RejectNewest" => queued \ Range(queue) \subseteq delivered \cup reported \cup damaged

\* No request is reported as dropped for an answer the table of usage.md:336-347 calls
\* transient, nor after an answer that never came.
Transient == {408, 429} \cup ((500..599) \ {501, 505, 508})
DropIsFinal ==
    [][\A p \in reported' \ reported :
          ~Answered \/ (~answer.error /\ answer.status \notin (200..299) \cup Transient)]_httpVars

\* The server takes a request twice only after a transport error hid its first answer,
\* a failed pop() or a power loss.
RepeatNeedsTrouble == \A p \in Payload : accepted[p] > 1 => p \in unheard \/ trouble > 0

\* No request stops the ones behind it: neither one that cannot be decoded or expanded,
\* nor one the server rejects.
QueueEmpties == []<>(queue = <<>>)
=============================================================================
